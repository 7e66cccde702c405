--------------------------- MODULE FinalizerSnapshot ---------------------------
(***************************************************************************)
(* A state with finalizers that is saved and loaded between two steps of    *)
(* the program.  A snapshot holds what the roots lead to, in the order of   *)
(* discovery, and no list of the collector: lstasis_load's pass 2h goes     *)
(* over the objects by id and marks the ones whose metatable has a __gc.    *)
(***************************************************************************)
EXTENDS LuaFinalizers

\* Discovery is breadth first; among the objects it meets in one object their
\* places decide, which nothing here tells apart.
Within[n \in 0..Cardinality(Obj)] ==
  IF n = 0 THEN roots
  ELSE Within[n - 1] \cup UNION { refs[q] : q \in Within[n - 1] }

Distance(o) == CHOOSE n \in 0..Cardinality(Obj) :
                 o \in Within[n] /\ \A i \in 0..(n - 1) : o \notin Within[i]

IdOrders(S) ==
  { s \in [1..Cardinality(S) -> S] :
      /\ \A i, j \in DOMAIN s : i < j => s[i] # s[j]
      /\ \A i, j \in DOMAIN s : i < j => Distance(s[i]) <= Distance(s[j]) }

\* Pass 2h on a state whose lists are empty: each registration goes to the
\* head of finobj, so the ids end up in reverse.
Registered(ids) ==
  LET marked == Keep(ids, { o \in Obj : meta[o] \in hasgc }) IN
  [i \in DOMAIN marked |-> marked[Len(marked) + 1 - i]]

SaveLoad ==
  /\ phase \in {"pause", "callfin"}
  /\ \E ids \in IdOrders(Reach(roots)) : finobj' = Registered(ids)
  /\ tobefnz' = << >>
  /\ alive' = Reach(roots)
  /\ phase' = "pause"
  /\ UNCHANGED <<graph, metatables, marks, calls, clock, markedat, cycle,
                 batch>>

\* States a snapshot carries over: nothing waits for its finalizer, nothing
\* with a __gc was finalized before, and there is no order to lose.
NothingAtStake ==
  /\ tobefnz = << >> /\ Len(finobj) <= 1
  /\ In(finobj) = { o \in Reach(roots) : meta[o] \in hasgc }

PlainNext == Next \/ (NothingAtStake /\ SaveLoad)
PlainSpec == Init /\ [][PlainNext]_vars
=============================================================================
