CONSTANTS
  c = c
  p = p
  Range8 <- MCRange8
  Range32 <- MCRange32
  Literals <- MCLiterals
  Doubles <- MCDoubles
  Variables <- MCVariables
  Addresses <- MCAddresses
  MaxNodes <- MCMaxNodes
SPECIFICATION ExpressionSpec
INVARIANT GuardsProtect
CHECK_DEADLOCK FALSE
