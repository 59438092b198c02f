CONSTANTS
  X = X
  Y = Y
  F = F
  G = G
  None = None
  StackLimit = 4
  Names <- MCNames
  Keys <- MCKeys
  Units <- BodyFiles
SPECIFICATION Spec
INVARIANT BodiesReturn
CHECK_DEADLOCK FALSE
