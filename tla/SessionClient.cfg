\* One tab with a refresh call that may itself be refused as expired.
CONSTANTS
  Tabs = {t1}
  Calls = {r1}
  Endings = {r2}
  Streams = {s1, s2}
  None = None
  MaxExpiries = 1
  MaxLoads = 1
  RefreshExpired = TRUE
SPECIFICATION Spec
INVARIANTS TypeOK WaitersHaveRefresh ExecutedOnce OneLiveStream
PROPERTY RequestsSettle
CHECK_DEADLOCK FALSE
