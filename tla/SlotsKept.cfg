SPECIFICATION FairSpec
CONSTANTS
  Requests = {q1, q2, q3, q4}
  Max = 2
  Pool = 3
CHECK_DEADLOCK FALSE
INVARIANT SlotsAreKept
PROPERTIES RequestsAreAnswered
