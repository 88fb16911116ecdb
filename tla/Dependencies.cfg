SPECIFICATION FairSpec
CONSTANTS
  app = app
  cache = cache
  db = db
  Resources = {app, db}
  Refs <- Pair
  Workers = {w1, w2}
  Nobody = Nobody
  MaxChanges = 3
INVARIANTS GateRowsCurrent RegisteredWaiterIsWoken
PROPERTY WaitingReleases
CHECK_DEADLOCK FALSE
