CONSTANTS
  ClassNames <- MCClassNames
  Types <- MCTypes
  Operands <- MCOperands
  MaxNodes <- MCMaxNodes
SPECIFICATION StatementSpec
INVARIANT LengthsAreInts
CHECK_DEADLOCK FALSE
