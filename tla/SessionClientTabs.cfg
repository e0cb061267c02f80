\* Two tabs whose requests meet the same expired access token.
CONSTANTS
  Tabs = {t1, t2}
  Calls = {r1, r2}
  Endings = {}
  Streams = {}
  None = None
  MaxExpiries = 1
  MaxLoads = 0
  RefreshExpired = FALSE
SPECIFICATION Spec
INVARIANT RefreshKeepsSession
CHECK_DEADLOCK FALSE
