SPECIFICATION Spec
CONSTANTS
  app = app
  cache = cache
  db = db
  Resources = {app, cache, db}
  Refs <- Fan
  Workers = {w1}
  Nobody = Nobody
  MaxChanges = 2
INVARIANT NoLostWake
CHECK_DEADLOCK FALSE
