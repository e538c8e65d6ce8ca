SPECIFICATION Spec
CONSTANTS
  MaxID = 7
  NPackets = 2
  StartID = 6
  History = 2
  Reorder = TRUE
  MaxFlight = 2
  QueuedMax = 4
  FlyingMax = 3
  IncomingCap = 2
  RepliesCap = 2
  StatusesCap = 1
  Handlers = {h1}
  MaxOutstanding = 2
  EarlySend = FALSE
  WriteErrors = TRUE
  MaxLoss = 1
  MaxDup = 1
  Spaced = FALSE
  LoseStatus = TRUE
  MaxEarly = 1
  NetCap = 2
  h1 = h1
INVARIANTS
  NoSlotLost
PROPERTIES
  Reliable
CHECK_DEADLOCK FALSE
