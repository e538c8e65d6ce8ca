SPECIFICATION FairSpec
CONSTANTS
  NUsers = 2
  Menu <- MCMenu
  Addr <- MCAddr
  MaxWords = 3
  MaxTransactions = 3
  MaxErrors = 1
  IncomingCap = 1
INVARIANTS
  TypeOK
  OwnResponses
  ClosedAfterLast
  Complete
  RunAlive
PROPERTIES
  Served
CHECK_DEADLOCK FALSE
