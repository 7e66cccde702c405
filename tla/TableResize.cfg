SPECIFICATION Spec
CONSTANTS
  p = p
  q = q
  NIL = NIL
  IntKeys = {1, 12, 20}
  MAXINT = 31
  Others = {p, q}
  Hash <- MCHash
  Events = {p}
  LIMFORLAST = 2
  MaxVicinity = 1
  Sizes <- MCArray
  Weak = TRUE
  Seeds = {0, 1, 2}
INVARIANT
  NoDeadValue
CHECK_DEADLOCK FALSE
