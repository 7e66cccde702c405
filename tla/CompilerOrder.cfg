SPECIFICATION ChunkSpec
CONSTANTS
  W = 6
  MAXARG_C = 15
  MAXARG_Bx = 31
  MAXINDEXRK = 3
  MaxToStore = 2
  Translate <- MainFunc
  Sense <- Meaning
  Programs <- MCMarked
  Arguments <- MCArguments
INVARIANT
  CodeMeansSource
