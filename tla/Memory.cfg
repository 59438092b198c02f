CONSTANTS
  MaxFields = 3
  MaxLength = 4
  MaxStores = 2
  IntRange = 64
  Targets = {4, 8}
  Structs <- MCStructs
  Arrays <- MCArrays
SPECIFICATION Spec
INVARIANTS
  ReadsBack
  WithinAllocation
CHECK_DEADLOCK FALSE
