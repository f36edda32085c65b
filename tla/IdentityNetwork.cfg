\* A builder that is used up to twice, and the DIDs of its networks.
SPECIFICATION Spec
CONSTANTS
  Null = Null
  Keys = {"k1", "k2"}
  TooShort = {"short"}
  Network = "testnet"
  Foreign = "mainnet"
  Servers = {"u1", "u2"}
  MaxEntities = 6
  MaxDids = 2
INVARIANTS
  TypeOK
  BooksApart
  NoServerLost
  DidLeadsHome
  AcceptedAtHome
  OwnerOnly
CHECK_DEADLOCK FALSE
