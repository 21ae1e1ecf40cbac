SPECIFICATION Spec
CONSTANTS
  Epochs = 4
  Patience = 2
  MirrorEvery = 2
  Batches = 5
  Accumulation = 2
  MaxScore = 2
  Schedulers = {"cosine", "step"}
  MaxStarts = 2
  MaxLosses = 2
CHECK_DEADLOCK FALSE
INVARIANTS CheckpointIsExact BestIsShipped FinishedIsRecorded MirrorFollows
