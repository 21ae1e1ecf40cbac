SPECIFICATION MCSpec
CONSTANTS
  Runs = {p1, p2}
  Cooldown = 2
  Kept = 2
  MaxTime = 2
  MaxRuns = 3
  MaxCrashes = 1
  RowLimit = 4
  MinSamples = 2
  ReferenceDays = 1
  MaxRows = 5
  SampleSizes = {100, 500, 2000}
  MaxDisagreements = 60
  Metrics = {"top1", "p95_latency_ms", "p99_latency_ms", "throughput_ips"}
  Values = {8, 9, 13, 14, 15}
  BatchSize = 3
CHECK_DEADLOCK FALSE
SYMMETRY Symmetry
INVARIANTS HistoryIsKept PromotionIsValidated ClearShiftIsReported BetterIsNeverRefused CleanCheckIsComplete ValidationIsHonest
PROPERTIES TrainingIsDue
