SPECIFICATION LifeSpec
CONSTANT MaxGeneration = 3
INVARIANT CleanupStaysFailed
CHECK_DEADLOCK FALSE
