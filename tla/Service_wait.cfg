CONSTANTS
  Attempts = 2
  PollFailures = 2
  Commands <- MCCommands
  MaxRuns = 1
  MaxOps = 2
  MaxOthers = 0
  MaxSetbacks = 0
SPECIFICATION FairSpec
PROPERTY WaitIsBounded
CHECK_DEADLOCK FALSE
