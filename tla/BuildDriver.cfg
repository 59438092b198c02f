CONSTANTS
  A = A
  B = B
  None = None
  Capacity = 2
  MaxDepth = 3
  Builds <- MCBuilds
  Outputs <- MCOutputs
SPECIFICATION Spec
INVARIANTS
  PipesDrained
  LinksEverySource
  ObjectsExist
PROPERTY BuildEnds
CHECK_DEADLOCK FALSE
