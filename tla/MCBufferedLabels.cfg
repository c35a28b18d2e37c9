SPECIFICATION BufferedFairSpec
CONSTANTS
  Labels = {"a", "b"}
  Macros <- MCMacros
  Statements <- MCStatements
  None = None
  NoFatalStop = FALSE
  MaxRead = 4
INVARIANT
  FirstOrder
PROPERTY
  ExecEnds
CHECK_DEADLOCK FALSE
