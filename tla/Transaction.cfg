\* A transaction that may be executed twice, set up in every way.
SPECIFICATION FairSpec
CONSTANTS
  Null = Null
  Empty = Empty
  Settings <- PlainSettings
  MaxTries = 2
  MaxTopic = 2
INVARIANTS
  TypeOK
  ConfirmationsTrue
  ErrorsTrue
  SubmittedValid
  RepeatedOnlyIfToldFailed
PROPERTIES
  Heard
CHECK_DEADLOCK FALSE
