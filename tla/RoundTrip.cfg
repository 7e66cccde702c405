SPECIFICATION RTSpec
CONSTANTS
  reg = reg
  main = main
  a = a
  b = b
  c = c
  d = d
  e = e
  num = num
  print = print
  sort = sort
  hidden = hidden
  ptr = ptr
  absent = absent
  Absent = absent
  Obj <- MCObj
  Scalar <- MCScalar
  CFunction <- MCCFunction
  LightPtr <- MCLightPtr
  NameOf <- MCNameOf
  BuiltinKonts <- MCBuiltinKonts
  Heaps <- RoundTripHeaps
  FnOf <- MCFnOf
  FreshSeq = 2
INVARIANTS
  SaveInv
  SnapshotHoldsAllLive
  NoStrandedReference
  OutcomeMatchesHeap
  SameState
  RefusedForCause
  OpenUpvaluesOwned
  FreedOnlyInShortage
  AllOrNothing
  ObjidsResume
PROPERTIES
  ImplementsPromise
  RoundTripReturns
CHECK_DEADLOCK FALSE
