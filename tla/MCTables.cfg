SPECIFICATION Spec
CONSTANTS
  t = t
  w = w
  w1 = w1
  x = x
  k = k
  b = b
  tx1 = tx1
  wb = wb
  Table = {t}
  Variable = {x, k}
  Parameter = {tx1}
  Modulus = 2
  Expression <- MCExpression
  UserColumns = {x}
  OwnColumns = {}
  Extra = {}
  Numbered <- MCNumbered
  Cell <- MCCell
  Direct <- MCDirect
  File <- MCFile
  RowNumber <- MCRowNumber
  None = None
  Sequence = {1}
  Id = {1, 2, 3}
  USER_TABLE_LENGTH = 1
  READ_LENGTH = 1
  NODES = 1
  Deletable = {t}
  Readable = {t}
  TwissModes = {}
  Knob = {k}
  MaxRows = 3
  MaxItems = 2
INVARIANT
  FreeRow
PROPERTY
  EachAsSaid
CHECK_DEADLOCK FALSE
