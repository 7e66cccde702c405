SPECIFICATION Spec
CONSTANTS
  m = m
  a = a
  b = b
  c = c
  NULL = NULL
  Objects = {m, a, b, c}
  MainThread = m
  KindChoices <- MCUpval
  GCSWEEPMAX = 1
  MaxTurns = 40
INVARIANTS
  ChecksHold
CHECK_DEADLOCK FALSE
