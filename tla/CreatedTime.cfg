\* An HcsDidResolver used once: two CREATE messages of one DID.
SPECIFICATION Spec
CONSTANTS
  Null = Null
  Kind = "DID"
  Subjects = {"a", "b"}
  Query = {"a"}
  Bodies <- DidBodies
  Calls = {"c1"}
  Timeout = 2
  MaxTopic = 2
INVARIANTS
  CreatedIsFirstCreate
