SPECIFICATION Spec
CONSTANTS
  Workers = {w1, w2}
  NoWorker = NoWorker
  Requested = {"update", "delete"}
  MaxSetbacks = 3
INVARIANT SuccessNeverQuarantined
CHECK_DEADLOCK FALSE
