CONSTANTS
  ClassNames <- MCClassNames
  Types <- MCTypes
  Calls <- MCCalls
SPECIFICATION FoundSpec
INVARIANTS
  OrderDoesNotMatter
  PickIsMostSpecific
  UndeclaredMeansNothingFits
  SharedOnlyByEqualFormals
  OneTypeEach
PROPERTY ResolutionEnds
CHECK_DEADLOCK FALSE
