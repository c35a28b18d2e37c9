SPECIFICATION Spec
CONSTANTS
  Element = {3, 4, 5}
  START = 1
  END = 2
  Marker = {3}
  Half <- MCHalfLong
  Length = 2
  Shift <- MCShift
  Initial <- MCInitialEntry
  Selects <- MCSelects
  Commands = {"seqedit", "install"}
  Reuse = {}
  MaxNode = 5
  MaxRange = 5
INVARIANT
  Ordered
