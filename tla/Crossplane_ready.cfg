SPECIFICATION Spec
CONSTANTS
  Workers = {w1}
  MaxOps = 2
  MaxRetries = 2
  NoWorker = NoWorker
  MaxFaults = 0
INVARIANT SuccessIsReady
CHECK_DEADLOCK FALSE
