\* Both topics, a registration, a crash and failing writes.
SPECIFICATION Spec
CONSTANTS
  Null = Null
  Subjects <- OneOfEach
  Bodies <- BothTraffic
  StoreInterval <- EveryOne
  DiskFails = TRUE
  MaxTopic <- TwoAndOne
  MaxCrashes = 1
PROPERTIES
  FinalOnceSaved
CHECK_DEADLOCK FALSE
