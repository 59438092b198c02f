CONSTANTS
  ClassNames <- MCClassNames
  Types <- MCTypes
  Operands <- MCOperands
  MaxNodes <- MCMaxNodes
SPECIFICATION StatementSpec
INVARIANTS
  AccessesHaveTheirTypes
  OperandsMeetAtTheWidest
  ValuesHaveTheirTypes
  MissingIsNeverStored
CHECK_DEADLOCK FALSE
