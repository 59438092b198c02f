CONSTANTS
  M = M
  A = A
  B = B
  C = C
  X = X
  Y = Y
  F = F
  G = G
  S1 = S1
  S2 = S2
  None = None
  Main = M
  StackLimit = 5
  Modules <- MCModules
  ClassNames <- MCClassNames
  Keys <- MCKeys
  Sigs <- MCSigs
  Programs <- MCPrograms
SPECIFICATION Spec
INVARIANTS
  TypeOK
  LoaderInv
  OnePathPerStruct
  CrashMeansMissingOrCyclic
  FirstDeclarationWins
  ExportsAreReachableDeclarations
  AcceptedMeansAcyclic
PROPERTIES
  SharedObjectsAreStable
  ImplementsImportOrder
  Terminates
CHECK_DEADLOCK FALSE
