\* Concurrent saves, duplicate jobs and failed calls on one rule.
CONSTANTS
  Rules = {r1}
  Workers = {w1, w2}
  Admins = {a1}
  Definitions <- MixedDefinitions
  Horizon = 2
  MaxSaves = 2
  MaxCrashes = 1
  MaxErrors = 1
  None = None
SPECIFICATION Spec
SYMMETRY WorkerSymmetry
INVARIANTS AtMostOneDispatch ScheduleCovered FiresMatchDispatches
PROPERTY DispatchesOnlyCurrent
CHECK_DEADLOCK FALSE
