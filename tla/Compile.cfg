CONSTANTS
  X = X
  Y = Y
  F = F
  G = G
  None = None
  StackLimit = 4
  Names <- MCNames
  Keys <- MCKeys
  Units <- MCUnits
SPECIFICATION Spec
INVARIANTS
  CheckedFilesAreEmitted
  BindsLexically
  LoadsAgreeUnlessRedeclared
  TerminatedFunctions
  DominatedFunctions
  CodeFollowsSource
  BodiesEmitted
  StructuredBodiesReturn
PROPERTIES
  PassesEnd
CHECK_DEADLOCK FALSE
