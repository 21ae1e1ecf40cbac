SPECIFICATION CacheSpec
CONSTANTS
  Lookups = {q1}
  Highest = 2
  Pins = {2, None}
  Asked = {"onnx_int8", None}
  None = None
  Events = {"rollout", "replace", "restart", "default", "retire", "expire"}
  MaxEvents = 2
CHECK_DEADLOCK FALSE
INVARIANTS PinIsHonoured CacheIsFresh
