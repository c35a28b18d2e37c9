SPECIFICATION FairSpec
CONSTANTS
  Sequence = {s, t, u}
  Expanded = {s, t}
  Unknown = Unknown
  NULL = NULL
  MAX_SEQUS = 2
  MaxNames = 2
  MACROS = 1
  CONS = 1
  Fails = 1
  MaxConst = 3
  Knob = {a, b}
  Ambiguous = {}
  MaxCalls = 2
  MaxStored = 2
  User <- MCUser
  GoesOnAfter = {}
  s = s
  u = u
  t = t
  q = q
  v = v
  a = a
  b = b
INVARIANTS
  Filled
  Forgets
  Taken
PROPERTIES
  Fits
  MethodEnds
CHECK_DEADLOCK FALSE
