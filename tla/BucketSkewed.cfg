SPECIFICATION MCSpec
CONSTANTS
  Calls = {c1, c2}
  Costs = {1, 2}
  Capacity = 3
  Rate = 2
  Slack = 2
  MaxSkew = 1
  MaxDelay = 1
  MaxTime = 5
  MaxRewound = 2
  Exchanges = {e1}
  Keys = {k1}
  PerMinute <- TwoTiers
  BatchCap <- TwoCaps
  Sent <- OneThingWrong
  Expiry = 1
  MaxTokens = 1
  MaxMinutes = 2
  MaxBytes = 20
  MinSide = 2
  MaxSide = 6
  MaxPixels = 20
  Allowed = {"JPEG", "PNG", "WEBP", "BMP"}
  Forged = Forged
  None = None
CHECK_DEADLOCK FALSE
SYMMETRY Symmetry
INVARIANTS WindowLimit RetryIsServed OneAllowance StatusTellsTheFault DuplicatesOnly BoxesComeHome
PROPERTIES AccessEnds
