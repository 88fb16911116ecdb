SPECIFICATION FairSpec
CONSTANTS
  Workers = {w1, w2}
  MaxOps = 2
  MaxRetries = 2
  NoWorker = NoWorker
  MaxFaults = 1
INVARIANT SettlementNotRefuted
PROPERTIES OwnObjectOnly AcceptedSettles
CHECK_DEADLOCK FALSE
