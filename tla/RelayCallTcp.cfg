SPECIFICATION Spec
CONSTANTS
  Calls = {c1, c2}
  Udp = FALSE
  RequestModes = {"AUTO", "RTP", "INLINE"}
  PoolSize = 3
  LaneCapacity = 1
  LaneTimed = TRUE
  MaxSenders = 2
  MaxExecs = 2
  MaxViews = 1
  MaxLanes = 2
SYMMETRY CallSymmetry
INVARIANTS
  TypeOK
  NothingLeft
  ExecutedOnce
  SenderClosed
CHECK_DEADLOCK FALSE
