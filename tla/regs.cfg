SPECIFICATION Spec
CONSTANTS
  Width = 3
  AddrSpace = 100
  AddrOf <- MCAddrOf
  MaskOf <- MCMaskOf
  MaxNodes = 6
  MaxOdd = 1
INVARIANTS
  TypeOK
  NamesArePaths
  NoneLost
  AddressesAddUp
  MasksKept
  WrittenIsRead
CHECK_DEADLOCK FALSE
