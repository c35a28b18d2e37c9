SPECIFICATION Spec
CONSTANTS
  Element = {3, 4, 5}
  START = 1
  END = 2
  Marker = {3}
  Half <- MCHalf
  Length = 2
  Shift <- MCShift
  Initial <- MCInitial
  Selects <- MCSelectsApart
  Commands = {"seqedit", "select", "remove_selected"}
  Reuse = {}
  MaxNode = 5
  MaxRange = 5
PROPERTY
  RemovesOnlySelected
