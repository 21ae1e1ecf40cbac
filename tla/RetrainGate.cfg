SPECIFICATION Spec
CONSTANTS
  Runs = {p1}
  Cooldown = 2
  Kept = 2
  MaxTime = 1
  MaxRuns = 1
  MaxCrashes = 0
CHECK_DEADLOCK FALSE
SYMMETRY Symmetry
INVARIANTS WorseIsRefused
