CONSTANTS
  MaxFields = 3
  MaxLength = 4
  MaxStores = 2
  IntRange = 64
  Targets = {4}
  Structs <- MCStructs
  Arrays <- MCArrays
SPECIFICATION Spec
INVARIANT ArrayMemory
CHECK_DEADLOCK FALSE
