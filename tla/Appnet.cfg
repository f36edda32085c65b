\* Two request threads, two credentials, three messages.
SPECIFICATION FairSpec
CONSTANTS
  Null = Null
  Keys = {"k1", "k2"}
  Threads = {"t1", "t2"}
  Requests <- TwoRequests
  Statements <- SomeStatements
  Times = {1}
  MaxTopic = 3
INVARIANTS
  TypeOK
  StatusOfIssuer
  VerifierFindsTruth
  RegistrationsSaved
PROPERTIES
  ImplementsRegistry
  Effective
CHECK_DEADLOCK FALSE
