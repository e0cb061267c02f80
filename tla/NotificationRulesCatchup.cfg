\* Occurrences missed while the process was down.
CONSTANTS
  Rules = {r1}
  Workers = {w1}
  Admins = {a1}
  Definitions <- OneDefinition
  Horizon = 3
  MaxSaves = 1
  MaxCrashes = 1
  MaxErrors = 0
  None = None
SPECIFICATION Spec
PROPERTY CatchupFiresOnce
CHECK_DEADLOCK FALSE
