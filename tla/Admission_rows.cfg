CONSTANTS
  Resources <- FiveResources
  Owners <- OneOwner
  OwnerOf <- AllOwned
  Clients = {c1, c2}
  Workers = {w}
  Keys = {k}
  NoKey = NoKey
  Types = {"db", "cache"}
  TypeOf <- TypesOfFive
  Rules <- TeamPolicy
  MaxDepth = 3
  RefSets <- SubmittedReferences
  Starts <- RingAndPair
  MaxRequests = 2
SYMMETRY ClientSymmetry
SPECIFICATION Spec
INVARIANT LockersNeverDeadlock
CHECK_DEADLOCK FALSE
