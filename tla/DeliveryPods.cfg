SPECIFICATION Spec
CONSTANTS
  Models = {1, 2}
  Committed = {1}
  Tools = {t1, t2}
  Retries = 2
  MaxCommands = 2
  MaxFaults = 3
CHECK_DEADLOCK FALSE
INVARIANTS RegistryIsAtomic ServedIsVerified ServedIsRegistered
PROPERTIES PodsComeUp
