SPECIFICATION FairSpec
CONSTANTS
  Programs <- MCAll
  Main = "main"
  FilesMax = 3
  Lost = Lost
  MaxDepth = 3
  MaxLevel = 7
INVARIANTS
  Balanced
  LosesCaller
PROPERTIES
  FollowsFlow
  Finishes
CHECK_DEADLOCK FALSE
