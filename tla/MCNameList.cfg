SPECIFICATION FairSpec
CONSTANTS
  Name = {1, 2, 3}
  Object = {o1, o2}
  Flag = {0, 1}
  None = None
  Length = 0
INVARIANTS
  TypeOK
  Sorted
  InStep
  Window
PROPERTIES
  ImplementsMap
  Returns
