SPECIFICATION FairSpec
CONSTANTS
  NUsers = 2
  Menu <- MCNow
  Addr <- MCAddr
  MaxWords = 3
  MaxTransactions = 3
  MaxErrors = 0
  IncomingCap = 1
PROPERTIES
  NotBlocked
CHECK_DEADLOCK FALSE
