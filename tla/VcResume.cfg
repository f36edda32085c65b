\* A credential topic and a sender whose clock is ahead.
SPECIFICATION Spec
CONSTANTS
  Null = Null
  Subjects <- OneCredential
  Bodies <- FastClock
  StoreInterval <- EveryOne
  DiskFails = FALSE
  MaxTopic <- ThreeEach
  MaxCrashes = 1
INVARIANTS
  NoneSkipped
CHECK_DEADLOCK FALSE
