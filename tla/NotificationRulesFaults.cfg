\* Two administrators and one worker; definitions with a daylight saving gap,
\* a delay from a fixed start, and an event rule.
CONSTANTS
  Rules = {r1}
  Workers = {w1}
  Admins = {a1, a2}
  Definitions <- GapDefinitions
  Horizon = 3
  MaxSaves = 2
  MaxCrashes = 1
  MaxErrors = 1
  None = None
SPECIFICATION Spec
INVARIANT NoSkippedOccurrence
PROPERTY ImplementsDelivery
CHECK_DEADLOCK FALSE
