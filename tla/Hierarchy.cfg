\* Overlapping requests on every forest of up to three rows.
CONSTANTS
  Nodes = {n1, n2, n3}
  Calls = {p1, p2}
  Absent = Absent
  None = None
  Keep = Keep
  Root = Root
SPECIFICATION Spec
SYMMETRY Symmetry
INVARIANTS Acyclic NoOrphans
PROPERTY LoneEditKeepsParent
CHECK_DEADLOCK FALSE
