CONSTANTS
  Keys = {k1}
  NoRow = NoRow
  MaxOps = 1
  MaxSequence = 1
  MaxVersion = 0
  MaxUnsent = 0
  MaxDead = 0
  MaxActions = 0
  MaxToggles = 0
  MaxShown = 0
SPECIFICATION FairSpec
PROPERTY DriftIsWatched
CHECK_DEADLOCK FALSE
