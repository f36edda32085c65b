\* A subscription that is lost while the server runs.
SPECIFICATION FairSpec
CONSTANTS
  Null = Null
  Subjects <- OneDid
  Bodies <- OneDidTraffic
  StoreInterval <- EveryOne
  DiskFails = FALSE
  MaxTopic <- TwoEach
  MaxCrashes = 0
PROPERTIES
  ListenersRestart
CHECK_DEADLOCK FALSE
