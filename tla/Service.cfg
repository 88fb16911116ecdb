CONSTANTS
  Attempts = 2
  PollFailures = 2
  Commands <- MCCommands
  MaxRuns = 2
  MaxOps = 3
  MaxOthers = 1
  MaxSetbacks = 1
SPECIFICATION FairSpec
INVARIANTS CommandTellsTruth KeyAdmitsOnce StoreOutlivesWork
PROPERTY HangsOnlyOnOthers
CHECK_DEADLOCK FALSE
