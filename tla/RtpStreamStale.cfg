SPECIFICATION Spec
CONSTANTS
  SeqSpace = 32
  FirstSeq = 30
  NumPackets = 2
  FragPackets = 1
  FecGroup = 0
  StreamKinds <- FileStreams
  ReorderWindow = 2
  LossTolerance = 1
  RescueWindow = 2
  RescueTolerance = 1
  RescueSlower = FALSE
  ProactiveGap = 2
  ProactiveBacklog = 1
  MaxRecent = 3
  Span = 4
INVARIANTS
  ByeMeansWhole
CHECK_DEADLOCK FALSE
