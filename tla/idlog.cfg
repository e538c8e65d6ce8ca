SPECIFICATION Spec
CONSTANTS
  Max = 3
  Ids = {0, 1, 2, 3}
INVARIANTS
  TypeOK
  FirstTwo
PROPERTIES
  ImplementsFIFO
