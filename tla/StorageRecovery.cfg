\* What a restarted server holds when it has read the topic again.
SPECIFICATION Spec
CONSTANTS
  Null = Null
  Subjects <- OneDid
  Bodies <- OneDidTraffic
  StoreInterval <- EveryTwo
  DiskFails = FALSE
  MaxTopic <- TwoEach
  MaxCrashes = 1
INVARIANTS
  CaughtUpIsLatest
CHECK_DEADLOCK FALSE
