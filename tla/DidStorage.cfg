\* DID traffic alone, with crashes.
SPECIFICATION FairSpec
CONSTANTS
  Null = Null
  Subjects <- TwoDids
  Bodies <- DidTraffic
  StoreInterval <- EveryTwo
  DiskFails = FALSE
  MaxTopic <- ThreeEach
  MaxCrashes = 2
INVARIANTS
  TypeOK
  NoneSkipped
  LossBounded
PROPERTIES
  AppliedOnce
  ImplementsDurableRegistry
  TakesEffect
CHECK_DEADLOCK FALSE
