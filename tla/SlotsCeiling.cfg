SPECIFICATION Spec
CONSTANTS
  Requests = {q1, q2}
  Max = 1
  Pool = 2
CHECK_DEADLOCK FALSE
INVARIANT HardCeiling
