SPECIFICATION Spec
CONSTANTS
  Calls = {c1, c2}
  Udp = TRUE
  RequestModes = {"AUTO"}
  PoolSize = 2
  LaneCapacity = 2
  LaneTimed = TRUE
  MaxSenders = 2
  MaxExecs = 1
  MaxViews = 0
  MaxLanes = 2
SYMMETRY CallSymmetry
INVARIANTS
  LaneHonest
  SessionLive
CHECK_DEADLOCK FALSE
