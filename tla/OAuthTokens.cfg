\* Two concurrent calls on one grant, with a failed call or a crash.
CONSTANTS
  Clients = {c1}
  Codes = {k1}
  Tokens = {t1, t2, t3}
  Calls = {p1, p2}
  MaxErrors = 1
  None = None
SPECIFICATION Spec
SYMMETRY Symmetry
INVARIANTS OneLinePerGrant SuccessorMeansRevoked
PROPERTY RevokedHasNoLateSuccessor
CHECK_DEADLOCK FALSE
