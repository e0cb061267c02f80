\* Two updates that pass their checks before either writes.
CONSTANTS
  Nodes = {n1, n2, n3}
  Calls = {p1, p2}
  Absent = Absent
  None = None
  Keep = Keep
  Root = Root
SPECIFICATION Spec
INVARIANT ParentNeverDescendant
CHECK_DEADLOCK FALSE
