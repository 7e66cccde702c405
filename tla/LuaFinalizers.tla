---------------------------- MODULE LuaFinalizers ----------------------------
(***************************************************************************)
(* Finalizers: an object marked for finalization (luaC_checkfinalizer) is   *)
(* in finobj; a collection moves the unreachable ones to tobefnz, and the   *)
(* collector calls their __gc one at a time between the program's steps;    *)
(* lua_close calls all that are left.  A finalizer may keep its object, or  *)
(* mark it again.                                                           *)
(*                                                                          *)
(* Marking and sweeping are one step: what is reachable stays.  A minor     *)
(* collection of the generational mode keeps a set of old objects besides.  *)
(***************************************************************************)
EXTENDS Lists, FiniteSets

CONSTANTS
  Obj,         \* tables and userdata
  Meta,        \* metatables
  NoMeta,
  MaxMarks,    \* bound: times an object is marked for finalization
  MaxCycles    \* bound: collections

ASSUME FinalizerAssumption ==
  /\ IsFiniteSet(Obj)
  /\ NoMeta \notin Meta /\ MaxMarks \in Nat /\ MaxCycles \in Nat

VARIABLES
  roots, refs,      \* what the program can reach
  meta, hasgc,      \* metatable of each object; metatables with a __gc
  alive,            \* the objects not freed
  finobj, tobefnz,  \* the collector's lists
  phase,            \* "pause", "callfin", "closing" (GCSTPCLS), "closed"
  marks, calls,     \* history: markings and calls of __gc, by object
  clock, markedat,  \* history: when an object was last marked
  cycle, batch      \* history: the collection that separated an object

vars == <<roots, refs, meta, hasgc, alive, finobj, tobefnz, phase, marks,
          calls, clock, markedat, cycle, batch>>
graph == <<roots, refs>>
metatables == <<meta, hasgc>>

\* The least set that holds S and what its members refer to.
Reach(S) == { o \in Obj : \A T \in SUBSET Obj :
                (S \subseteq T /\ \A q \in T : refs[q] \subseteq T) => o \in T }

Init ==
  /\ roots = Obj /\ refs = [o \in Obj |-> {}]
  /\ meta = [o \in Obj |-> NoMeta] /\ hasgc \in SUBSET Meta
  /\ alive = Obj /\ finobj = << >> /\ tobefnz = << >> /\ phase = "pause"
  /\ marks = [o \in Obj |-> 0] /\ calls = [o \in Obj |-> 0]
  /\ clock = 0 /\ markedat = [o \in Obj |-> 0]
  /\ cycle = 0 /\ batch = [o \in Obj |-> 0]

\* The FINALIZEDBIT of an object.
tofinalize(o) == o \in In(finobj) \cup In(tobefnz)

\* Mutant: an object is marked while the state closes.
WantsInClose(m, bit) == m \in hasgc /\ ~bit

\* luaC_checkfinalizer, of an object whose bit is as given: marked at once,
\* never twice, and never in a closing state.
Wants(m, bit) == m \in hasgc /\ ~bit /\ phase # "closing"
CheckFinalizer(o, m, bit) ==
  IF Wants(m, bit)
  THEN /\ marks[o] < MaxMarks
       /\ finobj' = <<o>> \o finobj
       /\ marks' = [marks EXCEPT ![o] = @ + 1]
       /\ clock' = clock + 1
       /\ markedat' = [markedat EXCEPT ![o] = clock + 1]
  ELSE UNCHANGED <<finobj, marks, clock, markedat>>

\* Steps of the program, or of a finalizer it runs.
SetMetatable ==
  /\ phase # "closed"
  /\ \E o \in Reach(roots), m \in Meta :
       /\ meta' = [meta EXCEPT ![o] = m]
       /\ CheckFinalizer(o, m, tofinalize(o))
  /\ UNCHANGED <<graph, hasgc, alive, tobefnz, phase, calls, cycle, batch>>

SetGCField ==
  /\ phase # "closed"
  /\ \E m \in Meta : hasgc' = IF m \in hasgc THEN hasgc \ {m} ELSE hasgc \cup {m}
  /\ UNCHANGED <<graph, meta, alive, finobj, tobefnz, phase, marks, calls,
                 clock, markedat, cycle, batch>>

Mutate ==
  /\ phase # "closed"
  /\ \/ /\ \E o \in roots : roots' = roots \ {o}
        /\ UNCHANGED refs
     \/ /\ \E o, q \in Reach(roots) : refs' = [refs EXCEPT ![o] = @ \cup {q}]
        /\ UNCHANGED roots
  /\ UNCHANGED <<metatables, alive, finobj, tobefnz, phase, marks, calls, clock,
                 markedat, cycle, batch>>

\* Mutant: the new ones go before those of an earlier collection.
QueueFirst(dead) == dead \o tobefnz

\* separatetobefnz: to the end of the list of objects to be finalized.
QueueLast(dead) == tobefnz \o dead

\* Mutant: what a finalizer could reach is not marked.
MarkQueueOnly(queue) == In(queue)

markbeingfnz(queue) == Reach(In(queue))

\* atomic and the sweeps: separatetobefnz, markbeingfnz, and what is neither
\* reachable nor to be finalized is freed.
Collect ==
  /\ phase = "pause" /\ cycle < MaxCycles
  /\ \E old \in SUBSET alive :
       LET kept == Reach(roots \cup old)
           dead == Keep(finobj, Obj \ kept) IN
       /\ finobj' = Keep(finobj, kept)
       /\ tobefnz' = QueueLast(dead)
       /\ alive' = alive \cap (kept \cup markbeingfnz(QueueLast(dead)))
       /\ batch' = [o \in Obj |-> IF o \in In(dead) THEN cycle + 1 ELSE batch[o]]
  /\ phase' = "callfin" /\ cycle' = cycle + 1
  /\ UNCHANGED <<graph, metatables, marks, calls, clock, markedat>>

\* GCTM: udata2finalize, then the __gc metamethod its metatable has now.
CallFinalizer ==
  /\ phase \in {"callfin", "closing"} /\ tobefnz # << >>
  /\ LET o == Head(tobefnz) IN
       /\ tobefnz' = Tail(tobefnz)
       /\ calls' = [calls EXCEPT ![o] = @ + 1]
       /\ \/ /\ meta[o] \in hasgc
             /\ \E keep, again \in BOOLEAN :
                  /\ roots' = IF keep THEN roots \cup {o} ELSE roots
                  /\ IF again THEN CheckFinalizer(o, meta[o], FALSE)
                     ELSE UNCHANGED <<finobj, marks, clock, markedat>>
          \/ /\ meta[o] \notin hasgc
             /\ UNCHANGED <<roots, finobj, marks, clock, markedat>>
  /\ UNCHANGED <<refs, metatables, alive, phase, cycle, batch>>

\* GCScallfin ends with the list -- or before, in an emergency collection or
\* without the stack to run a finalizer.
EndCycle ==
  /\ phase = "callfin"
  /\ phase' = "pause"
  /\ UNCHANGED <<graph, metatables, alive, finobj, tobefnz, marks, calls, clock,
                 markedat, cycle, batch>>

\* luaC_freeallobjects
Close ==
  /\ phase \in {"pause", "callfin"}
  /\ phase' = "closing" /\ cycle' = cycle + 1
  /\ tobefnz' = QueueLast(finobj) /\ finobj' = << >>
  /\ batch' = [o \in Obj |-> IF o \in In(finobj) THEN cycle + 1 ELSE batch[o]]
  /\ UNCHANGED <<graph, metatables, alive, marks, calls, clock, markedat>>

FreeAll ==
  /\ phase = "closing" /\ tobefnz = << >>
  /\ phase' = "closed" /\ alive' = {}
  /\ UNCHANGED <<graph, metatables, finobj, tobefnz, marks, calls, clock,
                 markedat, cycle, batch>>

Next == \/ SetMetatable \/ SetGCField \/ Mutate \/ Collect \/ CallFinalizer
        \/ EndCycle \/ Close \/ FreeAll

Spec == Init /\ [][Next]_vars
-----------------------------------------------------------------------------

Listed(o) == Cardinality({ i \in DOMAIN finobj : finobj[i] = o })
             + Cardinality({ i \in DOMAIN tobefnz : tobefnz[i] = o })

(* An object is finalized exactly once for each time it was marked, however *)
(* it is resurrected, re-marked, given another metatable or caught by       *)
(* lua_close; closing marks nothing again and leaves nothing behind.        *)
FinalizedOncePerMark ==
  /\ \A o \in Obj : marks[o] = calls[o] + Listed(o)
  /\ phase = "closed" => finobj = << >> /\ tobefnz = << >>

(* Finalizers run in the reverse order of the marking, collection by        *)
(* collection, the last ones on close included.                             *)
ReverseOrder ==
  /\ \A i, j \in DOMAIN finobj :
       i < j => markedat[finobj[i]] > markedat[finobj[j]]
  /\ \A i, j \in DOMAIN tobefnz :
       i < j => \/ batch[tobefnz[i]] < batch[tobefnz[j]]
                \/ /\ batch[tobefnz[i]] = batch[tobefnz[j]]
                   /\ markedat[tobefnz[i]] > markedat[tobefnz[j]]

(* No finalizer, and no program, ever meets a freed object: what the roots, *)
(* and the objects that wait for their finalizer, lead to is alive.         *)
NothingDangles ==
  phase # "closed" =>
    Reach(roots \cup In(finobj) \cup In(tobefnz)) \subseteq alive
=============================================================================
