SPECIFICATION FairSpec
CONSTANTS
  MaxID = 7
  NPackets = 3
  StartID = 6
  History = 2
  Reorder = FALSE
  MaxFlight = 2
  QueuedMax = 4
  FlyingMax = 3
  IncomingCap = 2
  RepliesCap = 2
  StatusesCap = 1
  Handlers = {h1}
  MaxOutstanding = 2
  EarlySend = FALSE
  WriteErrors = FALSE
  MaxLoss = 1
  MaxDup = 0
  Spaced = FALSE
  LoseStatus = FALSE
  MaxEarly = 0
  NetCap = 6
  h1 = h1
PROPERTIES
  ReturnedOrDead
CHECK_DEADLOCK FALSE
