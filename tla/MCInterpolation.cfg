SPECIFICATION Spec
CONSTANTS
  s = s
  t = t
  None = None
  Line <- MCLine
  Bends <- MCBends
  Length <- MCLength
  Selects <- MCSelects
  Ranges <- MCRanges
  MaxSlices = 4
  MaxUses = 3
  MaxSelects = 2
INVARIANTS
  AsSelected
  EnoughRows
  Whole
  SlicesAreBend
CHECK_DEADLOCK FALSE
