SPECIFICATION FairSpec
CONSTANTS
  MaxID = 7
  NPackets = 3
  StartID = 6
  History = 2
  Reorder = FALSE
  MaxFlight = 2
  QueuedMax = 4
  FlyingMax = 3
  IncomingCap = 2
  RepliesCap = 2
  StatusesCap = 1
  Handlers = {h1, h2}
  MaxOutstanding = 1
  EarlySend = FALSE
  WriteErrors = FALSE
  MaxLoss = 3
  MaxDup = 0
  Spaced = TRUE
  LoseStatus = FALSE
  MaxEarly = 0
  NetCap = 6
  h1 = h1
  h2 = h2
INVARIANTS
  NoPanic
PROPERTIES
  AllReturned
CHECK_DEADLOCK FALSE
