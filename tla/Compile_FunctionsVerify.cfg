CONSTANTS
  X = X
  Y = Y
  F = F
  G = G
  None = None
  StackLimit = 4
  Names <- MCNames
  Keys <- MCKeys
  Units <- EarlyFiles
SPECIFICATION Spec
INVARIANT FunctionsVerify
CHECK_DEADLOCK FALSE
