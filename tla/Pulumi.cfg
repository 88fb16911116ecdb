SPECIFICATION FairSpec
CONSTANTS
  Workers = {w1, w2}
  MaxOps = 2
  Generation <- MCGeneration
  PageSize = 2
  MaxPages = 2
  NoWorker = NoWorker
  MaxFaults = 3
INVARIANT CallsAreIsolated
PROPERTIES ImplementsContract EndedUpdateSettles
CHECK_DEADLOCK FALSE
