SPECIFICATION FairSpec
CONSTANTS
  MaxID = 7
  NPackets = 2
  StartID = 6
  History = 2
  Reorder = FALSE
  MaxFlight = 2
  QueuedMax = 4
  FlyingMax = 3
  IncomingCap = 2
  RepliesCap = 2
  StatusesCap = 1
  Handlers = {h1}
  MaxOutstanding = 1
  EarlySend = TRUE
  WriteErrors = FALSE
  MaxLoss = 0
  MaxDup = 0
  Spaced = FALSE
  LoseStatus = FALSE
  MaxEarly = 0
  NetCap = 6
  h1 = h1
PROPERTIES
  AllReturned
CHECK_DEADLOCK FALSE
