SPECIFICATION Spec
CONSTANTS
  Element = {3, 4, 5}
  START = 1
  END = 2
  Marker = {3}
  Half <- MCHalf
  Length = 2
  Shift = {1}
  Initial <- MCInitial
  Selects <- MCSelects
  Commands = {"seqedit", "endedit", "flatten", "install_from", "install_selected", "select", "remove_selected", "move_selected", "replace_selected", "remove"}
  Reuse = {}
  MaxNode = 4
  MaxRange = 4
INVARIANTS
  Stopped
PROPERTIES
  RemovesSelected
  MovesSelected
  KeepsReferences
CHECK_DEADLOCK FALSE
