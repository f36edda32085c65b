\* execute() called twice on the same resolver.
SPECIFICATION FairSpec
CONSTANTS
  Null = Null
  Kind = "VC"
  Subjects = {"a"}
  Query = {"a"}
  Bodies <- ReuseBodies
  Calls = {"c1", "c2"}
  Timeout = 1
  MaxTopic = 2
INVARIANTS
  ResultsStand
  EntriesGenuine
  RejectedAfterAnswer
PROPERTIES
  EveryCallEnds
