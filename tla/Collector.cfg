SPECIFICATION Spec
CONSTANTS
  m = m
  a = a
  b = b
  c = c
  NULL = NULL
  Objects = {m, a, b}
  MainThread = m
  KindChoices <- MCPairs
  GCSWEEPMAX = 1
  MaxTurns = 40
INVARIANTS
  TypeOK
  NothingReachableFreed
  MemoryConsistent
  EmergencyReclaims
CHECK_DEADLOCK FALSE
