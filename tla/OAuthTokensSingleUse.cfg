\* Two exchanges of one code.
CONSTANTS
  Clients = {c1}
  Codes = {k1}
  Tokens = {t1, t2}
  Calls = {p1, p2}
  MaxErrors = 0
  None = None
SPECIFICATION Spec
INVARIANT CodeSingleUse
CHECK_DEADLOCK FALSE
