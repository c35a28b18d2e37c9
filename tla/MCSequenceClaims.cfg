SPECIFICATION Spec
CONSTANTS
  Element = {3, 4, 5}
  START = 1
  END = 2
  Marker = {3}
  Half <- MCHalf
  Length = 2
  Shift <- MCShift
  Initial <- MCInitial
  Selects <- MCSelects
  Commands = {"seqedit", "install", "remove"}
  Reuse = {4}
  MaxNode = 6
  MaxRange = 5
PROPERTY
  RemovesOnlyNamed
