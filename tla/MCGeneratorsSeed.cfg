SPECIFICATION Spec
CONSTANTS
  NR_RAND = 5
  NJ_RAND = 2
  ND_RAND = 2
  MAX_RAND = 7
  Streams = 2
  Size = 2
  Width = 3
  Factor = 3
  Left = 1
  Right = 1
  Mixed = 2
  Jump <- MCJump
  Pattern <- MCPattern
  DefaultSeed = 1
  NoOption = NoOption
  MaxCommands = 2
  MaxDraws = 10
INVARIANTS
  SeedStarts
