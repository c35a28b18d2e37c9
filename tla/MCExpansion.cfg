SPECIFICATION Spec
CONSTANTS
  Lengths <- MCLengths
  LineNames = {"s", "r", "t"}
  LineBodies <- MCLineBodies
  Declarations <- MCDeclarations
  NoName = NoName
  tol = 1
  MaxDefinitions = 4
INVARIANTS
  Covers
  Arranged
PROPERTY
  LineMeans
CHECK_DEADLOCK FALSE
