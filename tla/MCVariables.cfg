SPECIFICATION FairSpec
CONSTANTS
  Variable = {x, y}
  Parameter = {p}
  Modulus = 2
  Expression <- MCExpression
  Direct <- MCDirect
  NoExpr = {FALSE, TRUE}
  Addition <- MCAddition
  None = None
  MAX_LOOP = 4
  MaxItems = 2
  x = x
  y = y
  p = p
INVARIANT
  Current
PROPERTIES
  ImplementsDefinitions
  Ends
  SavesDefinitions
CHECK_DEADLOCK FALSE
