CONSTANTS
  Attempts = 1
  PollFailures = 2
  Commands <- MCCommands
  MaxRuns = 1
  MaxOps = 2
  MaxOthers = 0
  MaxSetbacks = 1
SPECIFICATION FairSpec
PROPERTY ShutdownIsBounded
CHECK_DEADLOCK FALSE
