SPECIFICATION Spec
CONSTANTS
  Element = {3, 4, 5}
  START = 1
  END = 2
  Marker = {3}
  Half <- MCHalf
  Length = 1
  Shift = {1}
  Initial <- MCInitial
  Selects <- MCSelects
  Commands = {"seqedit", "endedit", "flatten", "install", "move", "remove", "replace", "reflect", "cycle"}
  Reuse = {}
  MaxNode = 5
  MaxRange = 5
INVARIANTS
  Intact
  Ordered
  Placed
PROPERTIES
  EditsLayout
