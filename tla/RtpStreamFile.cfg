SPECIFICATION Spec
CONSTANTS
  SeqSpace = 32
  FirstSeq = 30
  NumPackets = 4
  FragPackets = 2
  FecGroup = 2
  StreamKinds <- FileStreams
  ReorderWindow = 1
  LossTolerance = 1
  RescueWindow = 1
  RescueTolerance = 1
  RescueSlower = FALSE
  ProactiveGap = 2
  ProactiveBacklog = 1
  MaxRecent = 3
  Span = 4
INVARIANTS
  TypeOK
  DecodedInOrder
  PendingInWindow
  BodyContiguous
  LossBounded
  LengthMeansWhole
  OneVerdict
CHECK_DEADLOCK FALSE
