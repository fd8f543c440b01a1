SPECIFICATION LoopSpec
CONSTANTS
  SeqSpace = 32
  FirstSeq = 31
  NumPackets = 3
  FragPackets = 1
  FecGroup = 2
  StreamKinds <- AnyStreams
  ReorderWindow = 1
  LossTolerance = 1
  RescueWindow = 1
  RescueTolerance = 1
  RescueSlower = FALSE
  ProactiveGap = 2
  ProactiveBacklog = 1
  MaxRecent = 3
  Span = 2
PROPERTIES
  CompleteEnds
  StreamEnds
CHECK_DEADLOCK FALSE
