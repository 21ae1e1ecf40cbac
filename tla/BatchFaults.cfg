SPECIFICATION FairSpec
CONSTANTS
  Jobs = {j1}
  Workers = {w1, w2}
  Items = 2
  MaxRetries = 1
  None = None
  Faults = {"broker", "apicrash", "crash", "escape", "softlimit", "hardlimit", "outage", "expire", "cancel"}
  MaxFaults = 2
CHECK_DEADLOCK FALSE
INVARIANTS JobNotLost NoSilentTruncation RevokedIsNotRun RowAgreesWithResult
PROPERTIES LifecycleIsFollowed JobsSettle
