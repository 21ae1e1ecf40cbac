SPECIFICATION LimiterSpec
CONSTANTS
  Replicas = {r1}
  Requests = {q1, q2}
  Callers = {c1, c2}
  Blocked = {c2}
  Burst = 1
  PerTick = 1
  MaxItems = 1
  Nobody = Nobody
  Retry = 1
  Faults = {"outage", "lost", "evict", "restart"}
  MaxFaults = 1
  Window = 1
CHECK_DEADLOCK FALSE
INVARIANTS SpendingIsAccounted
PROPERTIES RedisIsUsedAgain
