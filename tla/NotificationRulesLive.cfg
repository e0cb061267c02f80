\* Progress, with a crash and a restart and no failed call.
CONSTANTS
  Rules = {r1}
  Workers = {w1, w2}
  Admins = {a1}
  Definitions <- OneDefinition
  Horizon = 2
  MaxSaves = 1
  MaxCrashes = 1
  MaxErrors = 0
  None = None
SPECIFICATION FairSpec
PROPERTIES ArmedEventuallyFires ProcessingSettles
CHECK_DEADLOCK FALSE
