SPECIFICATION FairSpec
CONSTANTS
  Workers = {w1, w2}
  NoWorker = NoWorker
  Requested = {"update", "delete"}
  MaxSetbacks = 3
INVARIANTS TypeOK OneCurrentMessage LaunchedOnce AttemptRecordsTrue OutcomeIsTruth
PROPERTY EventuallySettled
CHECK_DEADLOCK FALSE
