\* An envelope that was prepared in encrypted mode.
SPECIFICATION Spec
CONSTANTS
  Null = Null
  Empty = Empty
  Settings <- EncryptedSettings
  MaxTries = 1
  MaxTopic = 2
INVARIANTS
  ErrorsTrue
CHECK_DEADLOCK FALSE
