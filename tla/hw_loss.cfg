SPECIFICATION Spec
CONSTANTS
  MaxID = 7
  NPackets = 4
  StartID = 6
  History = 2
  Reorder = FALSE
  MaxFlight = 2
  QueuedMax = 4
  FlyingMax = 3
  IncomingCap = 2
  RepliesCap = 2
  StatusesCap = 1
  Handlers = {h1, h2}
  MaxOutstanding = 3
  EarlySend = FALSE
  WriteErrors = FALSE
  MaxLoss = 1
  MaxDup = 0
  Spaced = FALSE
  LoseStatus = FALSE
  MaxEarly = 0
  NetCap = 6
  h1 = h1
  h2 = h2
INVARIANTS
  TypeOK
  ExecutedOnce
  InOrder
  OwnReply
  NoneForgotten
  EveryStatusAwaited
  NoFalseAlarm
CHECK_DEADLOCK FALSE
SYMMETRY HandlerSymmetry
