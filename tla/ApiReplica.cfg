SPECIFICATION Spec
CONSTANTS
  Requests = {q1, q2}
  Pollers = {h1, h2}
  Tasks = {cls}
  Eager = TRUE
  MaxFaults = 2
INVARIANTS OneReconnect
PROPERTIES EveryPredictionIsLogged LoggingResumes
CHECK_DEADLOCK FALSE
