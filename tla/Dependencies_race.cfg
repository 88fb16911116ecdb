SPECIFICATION Spec
CONSTANTS
  app = app
  cache = cache
  db = db
  Resources = {app, cache, db}
  Refs <- Star
  Workers = {w1, w2}
  Nobody = Nobody
  MaxChanges = 2
INVARIANT NoLostWake
CHECK_DEADLOCK FALSE
