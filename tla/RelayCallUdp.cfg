SPECIFICATION FairSpec
CONSTANTS
  Calls = {c1, c2}
  Udp = TRUE
  RequestModes = {"AUTO"}
  PoolSize = 1
  LaneCapacity = 1
  LaneTimed = FALSE
  MaxSenders = 1
  MaxExecs = 1
  MaxViews = 1
  MaxLanes = 1
INVARIANTS
  NothingLeft
PROPERTIES
  LoopReturns
  CallSpec
CHECK_DEADLOCK FALSE
