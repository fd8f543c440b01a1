SPECIFICATION Spec
CONSTANTS
  SeqSpace = 64
  FirstSeq = 62
  NumPackets = 5
  FragPackets = 1
  FecGroup = 0
  StreamKinds <- MediaStreams
  ReorderWindow = 1
  LossTolerance = 1
  RescueWindow = 2
  RescueTolerance = 2
  RescueSlower = TRUE
  ProactiveGap = 2
  ProactiveBacklog = 1
  MaxRecent = 3
  Span = 4
INVARIANTS
  LossBounded
  OneVerdict
CHECK_DEADLOCK FALSE
