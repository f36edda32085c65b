\* An HcsDidResolver used once.
SPECIFICATION FairPromptSpec
CONSTANTS
  Null = Null
  Kind = "DID"
  Subjects = {"a", "b"}
  Query = {"a"}
  Bodies <- DidBodies
  Calls = {"c1"}
  Timeout = 3
  MaxTopic = 3
INVARIANTS
  TypeOK
  ResultsStand
  CreatedOfCreation
  AnswerComplete
PROPERTIES
  ImplementsRegistry
  Answers
  Releases
