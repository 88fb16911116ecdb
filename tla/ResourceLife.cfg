SPECIFICATION LifeSpec
CONSTANT MaxGeneration = 3
INVARIANTS
  LifeTypeOK
  ActiveRepresented
  ReconciledMeansConverged
PROPERTIES
  DeletedIsFinal
  FailedOnlyIfNeverUsable
