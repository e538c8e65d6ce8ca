SPECIFICATION FairSpec
CONSTANTS
  Size = 7
  MaxWords = 3
  MaxReq = 9
  NRequests = 2
INVARIANTS
  TypeOK
  PacketsFit
  AddAccepts
  Contiguous
PROPERTIES
  Finishes
CHECK_DEADLOCK FALSE
