SPECIFICATION Spec
CONSTANTS
  app = app
  cache = cache
  db = db
  Resources = {app, cache, db}
  Refs <- Chain
  Workers = {w1, w2}
  Nobody = Nobody
  MaxChanges = 2
INVARIANT RegisteredWaiterIsWoken
CHECK_DEADLOCK FALSE
