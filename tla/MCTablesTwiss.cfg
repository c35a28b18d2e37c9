SPECIFICATION Spec
CONSTANTS
  t = t
  w = w
  w1 = w1
  x = x
  k = k
  b = b
  tx1 = tx1
  wb = wb
  Table = {w, w1}
  Variable = {x, b}
  Parameter = {wb}
  Modulus = 2
  Expression <- MCExpressionTwiss
  UserColumns = {x}
  OwnColumns = {b}
  Extra = {x}
  Numbered <- MCNumbered
  Cell <- MCCell
  Direct = {}
  File <- MCFile
  RowNumber = {}
  None = None
  Sequence = {1}
  Id = {1, 2, 3, 4}
  USER_TABLE_LENGTH = 1
  READ_LENGTH = 1
  NODES = 2
  Deletable = {}
  Readable = {}
  TwissModes <- MCModes
  Knob = {}
  MaxRows = 3
  MaxItems = 2
INVARIANT
  InRegister
PROPERTY
  ImplementsRows
CHECK_DEADLOCK FALSE
