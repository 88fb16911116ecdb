CONSTANTS
  Resources <- TwoResources
  Owners <- OneOwner
  OwnerOf <- AllOwned
  Clients = {c1}
  Workers = {w}
  Keys = {k}
  NoKey = NoKey
  Types = {"db", "cache"}
  TypeOf <- TypesOfTwo
  Rules = {}
  MaxDepth = 3
  RefSets <- NoneOrFirst
  Starts <- Unrelated
  MaxRequests = 3
SPECIFICATION Spec
INVARIANT DeletesProtected
CHECK_DEADLOCK FALSE
