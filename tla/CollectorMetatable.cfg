SPECIFICATION Spec
CONSTANTS
  m = m
  a = a
  b = b
  c = c
  NULL = NULL
  Objects = {m, a, b, c}
  MainThread = m
  KindChoices <- MCMetatable
  GCSWEEPMAX = 1
  MaxTurns = 40
INVARIANTS
  NothingReachableFreed
CHECK_DEADLOCK FALSE
