SPECIFICATION PartsSpec
CONSTANTS
  Function <- MCFunction
  Component <- MCComponent
  Index = Index
  SaveLibs <- MCSave
  LoadLibs <- MCLoad
  NameSize = 4
  HeadSize = 2
  Obj = {a, b}
  Meta = {m}
  NoMeta = NoMeta
  MaxMarks = 2
  MaxCycles = 3
  FrameSize = 4
  MinStack = 3
  ExtraStack = 5
  MaxStack = 16
  ErrorSpace = 6
  MaxFrames = 6
  MaxVars = 3
  W = 6
  MAXARG_C = 15
  MAXARG_Bx = 31
  MAXINDEXRK = 3
  MaxToStore = 2
  Translate <- MainFunc
  Sense <- Meaning
  Programs <- MCPrograms
  Arguments <- MCArguments
SYMMETRY Objects
INVARIANTS
  NamesResolve
  AllNamed
  FinalizedOncePerMark
  ReverseOrder
  NothingDangles
  OpenUpvaluesLive
  TbcIntact
  ClosedOnce
  HandlerOfInnermost
  FramesFit
  CodeMeansSource
  OnlyInvalidRefused
  AssertionsHold
CHECK_DEADLOCK FALSE
