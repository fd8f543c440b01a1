SPECIFICATION AllFairSpec
CONSTANTS
  Calls = {c1}
  Udp = FALSE
  RequestModes = {"AUTO"}
  PoolSize = 2
  LaneCapacity = 1
  LaneTimed = TRUE
  MaxSenders = 1
  MaxExecs = 1
  MaxViews = 0
  MaxLanes = 2
PROPERTIES
  DialogCloses
CHECK_DEADLOCK FALSE
