SPECIFICATION Spec
CONSTANTS
  Calls = {c1, c2}
  Udp = TRUE
  RequestModes = {"AUTO"}
  PoolSize = 1
  LaneCapacity = 2
  LaneTimed = TRUE
  MaxSenders = 1
  MaxExecs = 1
  MaxViews = 0
  MaxLanes = 2
SYMMETRY CallSymmetry
INVARIANTS
  DegradedGoesOn
CHECK_DEADLOCK FALSE
