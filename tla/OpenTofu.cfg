SPECIFICATION FairSpec
CONSTANTS
  Workers = {w1, w2}
  MaxOps = 2
  Generation <- MCGeneration
  NoWorker = NoWorker
  MaxFaults = 2
INVARIANT AppliesAreSafe
PROPERTIES StateIsTrusted ImplementsContract FullApplySettles
CHECK_DEADLOCK FALSE
