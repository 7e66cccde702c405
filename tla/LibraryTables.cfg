SPECIFICATION BothSpec
CONSTANTS
  MAXINTEGER = 7
  INT_MAX = 9
  MAXCCALLS = 20
  LUA_MAXCAPTURES = 2
  NB = 2
  SZINT = 2
  MAXINTSIZE = 4
  MAXALIGN = 4
  MAX_SIZE = 40
  VARBITS = 3
  SZINSTR = 4
  SZINT_C = 2
  MAX_INT = 31
  MAXUNSIGNED = 63
  PF_FIXED = 2
  Chars <- MCChars
  CType <- MCCType
  Upper <- MCUpper
  SizeOf <- MCSizeOf
  Sorts <- MCSorts
  RANLIMIT = 4
  IMBALANCE = 1
  Calls <- MCCalls
  Library <- Perform
  Meaning <- MeaningOf
  p = p
  q = q
  NIL = NIL
  IntKeys = {1, 2, 4}
  MAXINT = 6
  Others = {p, q}
  Hash <- MCHash
  Events = {p}
  LIMFORLAST = 2
  MaxVicinity = 1
  Sizes <- MCSizes
  Weak = FALSE
  Seeds = {0, 1, 2}
INVARIANTS
  ElementsMove
  MatchesAsDefined
  UnpackReturnsPacked
  ChunkComesBack
  SortWithinArray
  ChainsReachKeys
  TraversalMeetsAll
  LengthIsBorder
  CacheIsTrue
PROPERTIES
  SortReturns
  ImplementsDictionary
