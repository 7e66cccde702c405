----------------------------- MODULE LuaCollector -----------------------------
(***************************************************************************)
(* The collector (lgc.c): incremental mode, and the generational mode with  *)
(* its minor and major collections, between the steps of a program that     *)
(* moves references.  'g' is the global_State: colours, ages, the lists of  *)
(* all objects with the pointers that divide them by age, the gray lists,   *)
(* the state of the cycle.  An operator on a state s stands for the C       *)
(* function of its name on g and gives the state that function leaves.      *)
(*                                                                          *)
(* An object has one strong reference (val), a weak table one entry         *)
(* (key, val), the main thread a set of them.  An upvalue on a stack stands *)
(* for a closure that holds nothing else; a "userdata" has a user value and *)
(* may have a finalizer; a "bareudata" has no user values, only a metatable *)
(* that may have __gc; a "closure" stands for any other object with a       *)
(* forward barrier.                                                         *)
(***************************************************************************)
EXTENDS Integers, Sequences, FiniteSets, Functions, Lists

CONSTANTS
  Objects, MainThread, NULL,
  KindChoices,   \* the functions from objects to kinds to start with
  GCSWEEPMAX,    \* elements swept in a step
  MaxTurns       \* bound: turns of the collector in a full collection

Kinds == {"table", "userdata", "weakvalue", "ephemeron", "allweak", "closure",
          "thread", "upval", "string", "bareudata"}
TableKinds == {"table", "weakvalue", "ephemeron", "allweak"}
ASSUME CollectorAssumption ==
  /\ MainThread \in Objects /\ NULL \notin Objects /\ IsFiniteSet(Objects)
  /\ KindChoices \subseteq { k \in [Objects -> Kinds] : k[MainThread] = "thread" }
  /\ GCSWEEPMAX \in Nat \ {0} /\ MaxTurns \in Nat

VARIABLES
  kind,    \* type of each object
  g,       \* global_State
  task     \* what a full collection or a change of mode still has to reach

vars == <<kind, g, task>>

Ages == {"new", "survival", "old0", "old1", "old", "touched1", "touched2"}
GrayLists == {"gray", "grayagain", "weak", "allweak", "ephemeron"}
ObjectLists == {"allgc", "finobj", "tobefnz"}
Nowhere == [list |-> "none", after |-> NULL]

\* White of the current cycle, or the other white: "dead" once marking is over.
IsWhite(s, o) == s.color[o] \in {"white", "dead"}
IsBlack(s, o) == s.color[o] = "black"
IsGray(s, o) == s.color[o] = "gray"
IsOld(s, o) == s.age[o] \notin {"new", "survival"}
InUse(s) == { o \in Objects : s.color[o] \notin {"free", "freed"} }
KeepInvariant(s) == s.gcstate \in {"propagate", "enteratomic", "atomic"}
IsSweepPhase(s) ==
  s.gcstate \in {"swpallgc", "swpfinobj", "swptobefnz", "swpend"}

Paint(s, o, c) == [s EXCEPT !.color[o] = c]
SetAge(s, o, a) == [s EXCEPT !.age[o] = a]
OpenUpvals(s, th) == { u \in Objects : s.open[u] = th }
\* uv->v.p: an open upvalue reads the slot of its thread; any other object that
\* holds one reference has it of its own.
UpvalValue(s, u) == IF s.open[u] = NULL THEN s.val[u] ELSE s.val[s.open[u]]

(*------------------------------- marking -------------------------------*)

Link(s, o, list) == [Paint(s, o, "gray") EXCEPT ![list] = @ \cup {o}]

\* The objects in S with what those of kind k hold and is not marked yet.
WithHeld(s, S, k) ==
  S \cup { v \in { UpvalValue(s, u) : u \in { x \in S : kind[x] = k } } \ {NULL} :
            IsWhite(s, v) }
\* reallymarkobject of each object in S: nothing is left to visit of a string, of a
\* closed upvalue and of a userdata without user values, an open upvalue stays gray
\* and is in no list; the value of an upvalue, and the metatable of such a userdata,
\* are marked at once.
ReallyMark(s, S) ==
  LET marked == WithHeld(s, WithHeld(s, S, "upval"), "bareudata")
      done(o) == \/ kind[o] \in {"string", "bareudata"}
                 \/ kind[o] = "upval" /\ s.open[o] = NULL
  IN  [s EXCEPT !.color = [o \in Objects |-> IF o \notin marked THEN @[o]
                                             ELSE IF done(o) THEN "black" ELSE "gray"],
                !.gray = @ \cup { o \in marked :
                                   kind[o] \notin {"string", "upval", "bareudata"} }]
Mark(s, S) == ReallyMark(s, { o \in S \ {NULL} : IsWhite(s, o) })

\* iscleared: strings are values, so they are marked and never cleared.
IsCleared(s, o) == o # NULL /\ kind[o] # "string" /\ IsWhite(s, o)
Strings(S) == { o \in S \ {NULL} : kind[o] = "string" }
ClearKey(s, h) == [s EXCEPT !.key[h] = NULL]

GenLink(s, o) ==
  CASE s.age[o] = "touched1" -> Link(s, o, "grayagain")
    [] s.age[o] = "touched2" -> SetAge(s, o, "old")
    [] OTHER -> s

TraverseStrongTable(s, h) == GenLink(Mark(s, {s.val[h]}), h)

LinkWeakValue(s, h) ==
  IF s.gcstate = "propagate" THEN Link(s, h, "grayagain")
  ELSE IF IsCleared(s, s.val[h]) THEN Link(s, h, "weak") ELSE GenLink(s, h)
TraverseWeakValue(s, h) ==
  LinkWeakValue(IF s.val[h] = NULL THEN ClearKey(s, h)
                ELSE Mark(s, {s.key[h]} \cup Strings({s.val[h]})), h)

\* Does a traversal of ephemeron table h mark its value?
EphemeronMarks(s, h) ==
  /\ s.val[h] # NULL /\ IsWhite(s, s.val[h])
  /\ ~IsCleared(s, s.key[h])

LinkEphemeron(s, h, cleared, hasww) ==
  IF s.gcstate = "propagate" THEN Link(s, h, "grayagain")
  ELSE IF hasww THEN Link(s, h, "ephemeron")
  ELSE IF cleared THEN Link(s, h, "allweak")
  ELSE GenLink(s, h)
TraverseEphemeron(s, h) ==
  LET cleared == s.val[h] # NULL /\ IsCleared(s, s.key[h])
  IN  LinkEphemeron(IF s.val[h] = NULL THEN ClearKey(s, h)
                    ELSE IF cleared THEN s
                    ELSE Mark(s, {s.val[h]} \cup Strings({s.key[h]})),
                    h, cleared, cleared /\ IsWhite(s, s.val[h]))

TraverseAllWeak(s, h) ==
  Link(s, h, IF s.gcstate = "propagate" THEN "grayagain" ELSE "allweak")

\* The values in the stack of a thread.
Stack(s, th) == IF th = MainThread THEN s.stack ELSE {s.val[th]} \ {NULL}

\* The final traversal, in the atomic phase, puts a thread that remarkupvals
\* took out back into twups.
RejoinTwups(s, th) ==
  IF s.gcstate = "atomic" /\ OpenUpvals(s, th) # {}
  THEN [s EXCEPT !.twups = @ \cup {th}] ELSE s
TraverseThread(s, th) ==
  LET t == IF IsOld(s, th) \/ s.gcstate = "propagate"
           THEN Link(s, th, "grayagain") ELSE s
  IN  RejoinTwups(Mark(t, Stack(s, th) \cup OpenUpvals(s, th)), th)

\* propagatemark of o, which is in the gray list.
PropagateMark(s, o) ==
  LET t == [Paint(s, o, "black") EXCEPT !.gray = @ \ {o}]
  IN  CASE kind[o] \in {"table", "userdata"} -> TraverseStrongTable(t, o)
        [] kind[o] = "weakvalue" -> TraverseWeakValue(t, o)
        [] kind[o] = "ephemeron" -> TraverseEphemeron(t, o)
        [] kind[o] = "allweak" -> TraverseAllWeak(t, o)
        [] kind[o] = "closure" -> Mark(t, {t.val[o]})
        [] kind[o] = "thread" -> TraverseThread(t, o)

\* Each turn blackens a gray object and no black one becomes gray in "gray".
PropagateAll(s) ==
  LET turn[n \in 0..Cardinality(Objects)] ==
        IF n = 0 THEN s
        ELSE LET t == turn[n - 1]
             IN  IF t.gray = {} THEN t ELSE PropagateMark(t, CHOOSE o \in t.gray : TRUE)
  IN  turn[Cardinality(Objects)]

\* One turn of the outer loop of convergeephemerons, over the whole list.
VisitAgain(s, h) == TraverseEphemeron(Paint(s, h, "black"), h)
VisitNext(st) ==
  LET h == CHOOSE h \in st.todo : TRUE
      t == VisitAgain(st.g, h)
      marks == EphemeronMarks(st.g, h)
  IN  [g |-> IF marks THEN PropagateAll(t) ELSE t,
       todo |-> st.todo \ {h}, changed |-> st.changed \/ marks]
ConvergeOnce(s) ==
  LET turn[n \in 0..Cardinality(Objects)] ==
        IF n = 0
        THEN [g |-> [s EXCEPT !.ephemeron = {}], todo |-> s.ephemeron, changed |-> FALSE]
        ELSE LET st == turn[n - 1] IN IF st.todo = {} THEN st ELSE VisitNext(st)
  IN  turn[Cardinality(Objects)]

\* The loop ends when no value was marked; each turn but the last marks one.
ConvergeEphemerons(s) ==
  LET turn[n \in 0..(Cardinality(Objects) + 1)] ==
        IF n = 0 THEN [g |-> s, todo |-> {}, changed |-> TRUE]
        ELSE LET st == turn[n - 1] IN IF st.changed THEN ConvergeOnce(st.g) ELSE st
  IN  turn[Cardinality(Objects) + 1].g

\* Mutant: a thread that is not marked stays in twups.
RemarkOnlyEmpty(s) ==
  LET leaving == { th \in s.twups : OpenUpvals(s, th) = {} }
  IN  [s EXCEPT !.twups = @ \ leaving]

\* remarkupvals: the threads of twups that are not marked or have no open
\* upvalue leave the list; the values of their visited upvalues are marked.
RemarkUpvals(s) ==
  LET leaving == { th \in s.twups : IsWhite(s, th) \/ OpenUpvals(s, th) = {} }
      visited == { u \in UNION { OpenUpvals(s, th) : th \in leaving } :
                     ~IsWhite(s, u) }
  IN  Mark([s EXCEPT !.twups = @ \ leaving], { UpvalValue(s, u) : u \in visited })

(*------------------------- clearing and separating ----------------------*)

\* The entries of the tables in S whose key or value, as the field says, is not marked.
ClearBy(s, S, field) ==
  LET t == Mark(s, Strings({ s[field][h] : h \in S }))
      cleared == { h \in S : s.val[h] = NULL \/ IsCleared(s, s[field][h]) }
      without(f) == [o \in Objects |-> IF o \in cleared THEN NULL ELSE f[o]]
  IN  [t EXCEPT !.val = without(@), !.key = without(@)]
ClearByValues(s, S) == ClearBy(s, S, "val")
ClearByKeys(s, S) == ClearBy(s, S, "key")

\* Place of what pointer p points to, one past the end for NULL.
Place(list, p) ==
  IF p = NULL THEN Len(list) + 1 ELSE CHOOSE i \in DOMAIN list : list[i] = p
\* The part of a list before what p points to, and the part from there.
Before(list, p) == SubSeq(list, 1, Place(list, p) - 1)
From(list, p) == SubSeq(list, Place(list, p), Len(list))
\* What a pointer to the head of a list points to.
First(list) == IF list = << >> THEN NULL ELSE list[1]
\* A list without o.
Unlink(list, o) == Before(list, o) \o Tail(From(list, o))

\* separatetobefnz: the objects before finobjold1 that are not marked.
SeparateToBeFnz(s) ==
  LET white == { o \in Objects : IsWhite(s, o) }
      rest == Keep(Before(From(s.finobj, s.finobjsur), s.finobjold1), Objects \ white)
              \o From(s.finobj, s.finobjold1)
  IN  [s EXCEPT !.finobj = Keep(Before(@, s.finobjsur), Objects \ white) \o rest,
                !.tobefnz = @ \o Keep(Before(s.finobj, s.finobjold1), white),
                !.finobjsur = First(rest)]

MarkBeingFnz(s) == Mark(s, In(s.tobefnz))

\* The roots: the registry and the metatables of the basic types are marked
\* again with the main thread in the atomic phase, so they are its stack here.
MarkRoots(s) == Mark(s, {MainThread})

RestartCollection(s) ==
  MarkBeingFnz(MarkRoots([s EXCEPT !.gray = {}, !.grayagain = {}, !.weak = {},
                                   !.allweak = {}, !.ephemeron = {}]))

Flip(s) == [s EXCEPT !.color = [o \in Objects |->
              CASE @[o] = "white" -> "dead" [] @[o] = "dead" -> "white"
                [] OTHER -> @[o]]]

\* The part of 'atomic' up to where what is strongly accessible is marked: before
\* remarkupvals, and from there.
BeforeRemark(s) ==
  PropagateAll(MarkRoots([s EXCEPT !.gcstate = "atomic", !.grayagain = {}]))
MarkAccessible(s) ==
  LET t == PropagateAll(RemarkUpvals(BeforeRemark(s)))
  IN  ConvergeEphemerons(PropagateAll([t EXCEPT !.gray = s.grayagain]))

\* Weak values are cleared before the finalizers are looked at, those of the
\* tables met by resurrection and all keys after.
ClearWeakValues(s) == ClearByValues(ClearByValues(s, s.weak), s.allweak)
Resurrect(s) ==
  ConvergeEphemerons(PropagateAll(MarkBeingFnz(SeparateToBeFnz(s))))
ClearWeakKeys(s) == ClearByKeys(ClearByKeys(s, s.ephemeron), s.allweak)
ClearMet(s, before) == ClearByValues(ClearByValues(s, s.weak \ before.weak),
                                     s.allweak \ before.allweak)
FinishAtomic(s) == Flip(ClearMet(ClearWeakKeys(Resurrect(s)), s))
Atomic(s) == FinishAtomic(ClearWeakValues(MarkAccessible(s)))

(*------------------------------- barriers ------------------------------*)

\* Mutant: in generational mode the object is not made old.
BarrierKeepsAge(s, o, v) ==
  IF ~(v # NULL /\ IsBlack(s, o) /\ IsWhite(s, v)) THEN s
  ELSE IF KeepInvariant(s) THEN ReallyMark(s, {v})
  ELSE IF s.gckind # "genminor" THEN Paint(s, o, "white") ELSE s

\* luaC_barrier: the object o, which now refers to v, is not revisited.
Barrier(s, o, v) ==
  IF ~(v # NULL /\ IsBlack(s, o) /\ IsWhite(s, v)) THEN s
  ELSE IF KeepInvariant(s)
  THEN LET t == ReallyMark(s, {v})
       IN  IF IsOld(s, o) THEN SetAge(t, v, "old0") ELSE t
  ELSE IF s.gckind # "genminor" THEN Paint(s, o, "white")
  ELSE s

\* luaC_barrierback: o will be visited again.
BarrierBack(s, o, v) ==
  IF ~(v # NULL /\ IsBlack(s, o) /\ IsWhite(s, v)) THEN s
  ELSE LET t == IF s.age[o] = "touched2" THEN Paint(s, o, "gray")
                ELSE Link(s, o, "grayagain")
       IN  IF IsOld(s, o) THEN SetAge(t, o, "touched1") ELSE t

\* luaF_closeupval, of one upvalue.
CloseUpval(s, u) ==
  LET v == UpvalValue(s, u)
      t == [s EXCEPT !.val[u] = v, !.open[u] = NULL]
  IN  IF IsWhite(t, u) THEN t ELSE Barrier(Paint(t, u, "black"), u, v)
\* A coroutine has one slot here, so at most one open upvalue.
CloseUpvals(s, th) ==
  IF OpenUpvals(s, th) = {} THEN s
  ELSE CloseUpval(s, CHOOSE u \in OpenUpvals(s, th) : TRUE)

(*------------------------------- sweeping ------------------------------*)

\* freeobj of each object in S: a thread closes its upvalues, with the barrier of a
\* sweep, an open upvalue is unlinked.
FreeObj(s, S) ==
  LET closed == { u \in Objects \ S : s.open[u] \in S }
      v(u) == s.val[s.open[u]]
      white(u) == s.gckind # "genminor" /\ v(u) # NULL /\ IsWhite(s, v(u))
  IN  [s EXCEPT
        !.color = [o \in Objects |->
                     IF o \in S THEN "freed"
                     ELSE IF o \in closed /\ ~IsWhite(s, o)
                     THEN IF white(o) THEN "white" ELSE "black"
                     ELSE @[o]],
        !.age = [o \in Objects |-> IF o \in S THEN "new" ELSE @[o]],
        !.val = [o \in Objects |-> IF o \in S THEN NULL
                                   ELSE IF o \in closed THEN v(o) ELSE @[o]],
        !.key = [o \in Objects |-> IF o \in S THEN NULL ELSE @[o]],
        !.open = [o \in Objects |-> IF o \in S \cup closed THEN NULL ELSE @[o]]]

\* What is left to sweep of a list, past the cursor.
Rest(list, after) == IF after = NULL THEN list ELSE Tail(From(list, after))

\* One turn of the loop of sweeplist, at the cursor.
SweepElement(s) ==
  LET list == s.sweepgc.list
      rest == Rest(s[list], s.sweepgc.after)
      o == Head(rest)
  IN  IF rest = << >> THEN s
      ELSE IF s.color[o] = "dead"
      THEN FreeObj([s EXCEPT ![list] = Unlink(@, o)], {o})
      ELSE [s EXCEPT !.color[o] = "white", !.age[o] = "new",
                     !.sweepgc.after = o]

Finished(s) == IF Rest(s[s.sweepgc.list], s.sweepgc.after) = << >>
               THEN [s EXCEPT !.sweepgc = Nowhere] ELSE s

SweepList(s, count) ==
  LET turn[n \in 0..count] == IF n = 0 THEN s ELSE SweepElement(turn[n - 1])
  IN  Finished(turn[count])

\* sweeptolive: until the cursor moves.
SweepToLive(s) ==
  LET turn[n \in 0..Cardinality(Objects)] ==
        IF n = 0 THEN s
        ELSE LET t == turn[n - 1]
             IN  IF t.sweepgc # s.sweepgc THEN t ELSE SweepElement(t)
  IN  Finished(turn[Cardinality(Objects)])

EnterSweep(s) ==
  SweepToLive([s EXCEPT !.gcstate = "swpallgc",
                        !.sweepgc = [list |-> "allgc", after |-> NULL]])

SweepStep(s, nextstate, nextlist, fast) ==
  IF s.sweepgc # Nowhere
  THEN SweepList(s, IF fast THEN Cardinality(Objects) ELSE GCSWEEPMAX)
  ELSE [s EXCEPT !.gcstate = nextstate,
                 !.sweepgc = IF nextlist = "none" THEN Nowhere
                             ELSE [list |-> nextlist, after |-> NULL]]

(*---------------------------- generational mode -------------------------*)

\* sweep2old of a list: what survives is old; threads stay watched.
Sweep2Old(s, list) ==
  LET old == { o \in In(s[list]) : ~IsWhite(s, o) }
      threads == { o \in old : kind[o] = "thread" }
      t == FreeObj(s, In(s[list]) \ old)
  IN  [t EXCEPT
        ![list] = Keep(@, old), !.grayagain = @ \cup threads,
        !.color = [o \in Objects |->
                     IF o \notin old THEN @[o]
                     ELSE IF o \in threads \/ t.open[o] # NULL THEN "gray" ELSE "black"],
        !.age = [o \in Objects |-> IF o \in old THEN "old" ELSE @[o]]]

NextAge(a) ==
  CASE a = "new" -> "survival"
    [] a \in {"survival", "old0"} -> "old1"
    [] a = "old1" -> "old"
    [] OTHER -> a

\* sweepgen of the objects S.
SweepGen(s, S) ==
  LET lives == { o \in S : ~IsWhite(s, o) }
  IN  [FreeObj(s, S \ lives) EXCEPT
        !.color = [o \in Objects |->
                     IF o \in lives /\ s.age[o] = "new" THEN "white" ELSE @[o]],
        !.age = [o \in Objects |-> IF o \in lives THEN NextAge(@[o]) ELSE @[o]]]

\* The two sweeps of youngcollection over a list that is divided by the
\* pointers in the fields sur, old and rold, and the advance of these; only in
\* allgc is the first OLD1 object recorded.
SweepGenList(s, list, sur, old, rold) ==
  LET young == Before(s[list], s[old])
      t == SweepGen(s, In(young))
      lives == { o \in Objects : ~IsWhite(s, o) }
      second == Keep(Before(From(s[list], s[sur]), s[old]), lives) \o From(s[list], s[old])
      whole == Keep(Before(s[list], s[sur]), lives) \o second
      old1 == Keep(young, { o \in Objects : t.age[o] = "old1" })
  IN  [t EXCEPT ![list] = whole, ![rold] = s[old], ![old] = First(second),
                ![sur] = First(whole),
                !.firstold1 = IF list = "allgc" /\ @ = NULL THEN First(old1) ELSE @]

\* markold: OLD1 objects become old, the black ones are visited.
MarkOld(s, S) ==
  LET old1 == { o \in S : s.age[o] = "old1" }
  IN  ReallyMark([s EXCEPT !.age = [o \in Objects |-> IF o \in old1 THEN "old" ELSE @[o]]],
                 { o \in old1 : IsBlack(s, o) })

\* correctgraylists: all gray lists into grayagain.
CorrectGrayLists(s) ==
  LET listed == s.grayagain \cup s.weak \cup s.allweak \cup s.ephemeron
      touched == { o \in listed : ~IsWhite(s, o) /\ s.age[o] = "touched1" }
      threads == { o \in listed \ touched :
                     ~IsWhite(s, o) /\ kind[o] = "thread" }
      others == { o \in listed \ (touched \cup threads) : ~IsWhite(s, o) }
  IN  [s EXCEPT
        !.grayagain = touched \cup threads,
        !.weak = {}, !.allweak = {}, !.ephemeron = {},
        !.color = [o \in Objects |->
                     IF o \in touched \cup others THEN "black" ELSE @[o]],
        !.age = [o \in Objects |->
                   CASE o \in touched -> "touched2"
                     [] o \in others /\ @[o] = "touched2" -> "old"
                     [] OTHER -> @[o]]]

\* finishgencycle up to the finalizers, which are a task.
FinishGenCycle(s) == [CorrectGrayLists(s) EXCEPT !.gcstate = "propagate"]

Minor2Inc(s, newkind) ==
  EnterSweep([s EXCEPT !.gckind = newkind, !.survival = NULL, !.old1 = NULL,
                       !.reallyold = NULL, !.finobjsur = NULL,
                       !.finobjold1 = NULL, !.finobjrold = NULL])

\* youngcollection up to the atomic phase.
MarkOlds(s) ==
  MarkOld([s EXCEPT !.firstold1 = NULL],
          (In(From(s.allgc, s.firstold1)) \ In(From(s.allgc, s.reallyold)))
            \cup In(Before(s.finobj, s.finobjrold)) \cup In(s.tobefnz))

\* youngcollection up to the decision between minor and major.
YoungSweep(s) ==
  LET sweepallgc(t) == SweepGenList([t EXCEPT !.gcstate = "swpallgc"],
                                    "allgc", "survival", "old1", "reallyold")
      sweepfinobj(t) ==
        SweepGenList(t, "finobj", "finobjsur", "finobjold1", "finobjrold")
      sweeptobefnz(t) == SweepGen(t, In(t.tobefnz))
  IN  sweeptobefnz(sweepfinobj(sweepallgc(Atomic(MarkOlds(s)))))

\* All that is left is really old.
AllReallyOld(s) ==
  [s EXCEPT !.survival = First(s.allgc), !.old1 = First(s.allgc),
            !.reallyold = First(s.allgc), !.firstold1 = NULL,
            !.finobjsur = First(s.finobj), !.finobjold1 = First(s.finobj),
            !.finobjrold = First(s.finobj), !.gckind = "genminor"]
Atomic2Gen(s) ==
  LET s0 == [s EXCEPT !.gray = {}, !.grayagain = {}, !.weak = {},
                      !.allweak = {}, !.ephemeron = {}, !.gcstate = "swpallgc"]
  IN  FinishGenCycle(AllReallyOld(
        Sweep2Old(Sweep2Old(Sweep2Old(s0, "allgc"), "finobj"), "tobefnz")))

(*------------------------------ finalizers ------------------------------*)

\* udata2finalize: the object goes back to allgc.
Udata2Finalize(s) ==
  LET o == s.tobefnz[1]
      t == [s EXCEPT !.tobefnz = Tail(@), !.allgc = <<o>> \o @]
  IN  IF IsSweepPhase(s) THEN Paint(t, o, "white")
      ELSE IF s.age[o] = "old1" THEN [t EXCEPT !.firstold1 = o]
      ELSE t

\* GCTM: the finalizer has its object as argument, and may keep it.
GCTM(s) == [Udata2Finalize(s) EXCEPT !.stack = @ \cup {s.tobefnz[1]},
                                     !.infin = TRUE]

\* Mutant: the pointers into the list are not corrected.
CheckFinalizerKeepsPointers(s, o) ==
  [s EXCEPT !.allgc = Unlink(@, o), !.finobj = <<o>> \o @]

\* luaC_checkfinalizer, of an object in allgc.
CheckFinalizer(s, o) ==
  LET past(p) == IF p # o THEN p ELSE First(Tail(From(s.allgc, o)))
      t == IF IsSweepPhase(s)
           THEN LET w == Paint(s, o, "white")
                IN  IF s.sweepgc = [list |-> "allgc", after |-> o]
                    THEN SweepToLive(w) ELSE w
           ELSE [s EXCEPT !.survival = past(@), !.old1 = past(@),
                          !.reallyold = past(@), !.firstold1 = past(@)]
  IN  [t EXCEPT !.allgc = Unlink(@, o), !.finobj = <<o>> \o @]

(*------------------------------- the program ----------------------------*)

\* The program runs between the steps of the collector; inside a full
\* collection only while a finalizer runs.
ProgramRuns == task = << >> \/ g.infin
OnStack(o) == o \in g.stack
\* What can be stored: an upvalue is no value of the language.
Values == {NULL} \cup { x \in g.stack : kind[x] # "upval" }
Program(s) == ProgramRuns /\ g' = s /\ UNCHANGED <<kind, task>>

\* luaC_newobj; an upvalue is created closed (luaF_initupvals), or for the slot of a
\* coroutine that runs (newupval), which links the coroutine into twups.
NewObj(o) ==
  /\ g.color[o] = "free"
  /\ \E th \in {NULL} \cup { t \in g.stack : /\ kind[o] = "upval" /\ kind[t] = "thread"
                                            /\ OpenUpvals(g, t) = {} } :
       Program([g EXCEPT !.color[o] = "white", !.allgc = <<o>> \o @,
                         !.stack = @ \cup {o}, !.open[o] = th,
                         !.twups = IF th = NULL THEN @ ELSE @ \cup {th}])

\* The program reads a field, a key met in a traversal, an upvalue.
Load(o) ==
  /\ OnStack(o)
  /\ \E x \in {g.key[o], UpvalValue(g, o)} \ (g.stack \cup {NULL}) :
       Program([g EXCEPT !.stack = @ \cup {x}])
Drop(o) == OnStack(o) /\ Program([g EXCEPT !.stack = @ \ {o}])

\* A store by what is stored to, with its barrier.
SetTable(o, x) ==
  /\ OnStack(o) /\ kind[o] \in {"table", "userdata"} /\ x \in Values
  /\ Program(BarrierBack([g EXCEPT !.val[o] = x], o, x))
\* A new key of a weak table has a barrier of its own (luaH_newkey).
SetWeak(o, k, x) ==
  /\ OnStack(o) /\ kind[o] \in {"weakvalue", "ephemeron", "allweak"}
  /\ k \in Values \ {NULL} /\ x \in Values
  /\ g.val[o] # NULL => g.key[o] = k
  /\ LET keyed == BarrierBack([g EXCEPT !.key[o] = k], o, k)
     IN  Program(BarrierBack([keyed EXCEPT !.val[o] = x], o, x))
SetClosure(o, x) ==
  /\ OnStack(o) /\ kind[o] = "closure" /\ x \in Values \ {NULL}
  /\ Program(Barrier([g EXCEPT !.val[o] = x], o, x))
\* A closure gets an upvalue: when it is made (pushclosure) or loaded (luaF_initupvals),
\* or any other by lua_upvaluejoin.
JoinUpvalue(o, x) ==
  /\ OnStack(o) /\ kind[o] = "closure" /\ OnStack(x) /\ kind[x] = "upval"
  /\ Program(Barrier([g EXCEPT !.val[o] = x], o, x))
\* A slot of a coroutine's stack has no barrier; an open upvalue is gray.
SetSlot(th, x) ==
  /\ OnStack(th) /\ kind[th] = "thread" /\ th # MainThread
  /\ x \in Values
  /\ Program([g EXCEPT !.val[th] = x])
SetUpval(u, x) ==
  /\ OnStack(u) /\ kind[u] = "upval" /\ x \in Values
  /\ Program(IF g.open[u] = NULL THEN Barrier([g EXCEPT !.val[u] = x], u, x)
             ELSE Barrier([g EXCEPT !.val[g.open[u]] = x], u, x))
CloseThread(th) ==
  /\ OnStack(th) /\ kind[th] = "thread" /\ OpenUpvals(g, th) # {}
  /\ Program([CloseUpvals(g, th) EXCEPT !.val[th] = NULL])
MarkForFinalization(o) ==
  /\ OnStack(o) /\ kind[o] = "userdata" /\ o \in In(g.allgc)
  /\ Program(CheckFinalizer(g, o))
\* lua_setmetatable; with a __gc field the object is marked for finalization.
SetMetatable(o, x) ==
  /\ OnStack(o) /\ kind[o] = "bareudata" /\ x \in Values
  /\ x # NULL => kind[x] \in TableKinds
  /\ LET t == Barrier([g EXCEPT !.val[o] = x], o, x)
     IN  \/ Program(t)
         \/ x # NULL /\ o \in In(g.allgc) /\ Program(CheckFinalizer(t, o))

(*------------------------------ the collector ---------------------------*)

CallFinalizers(s) == s.tobefnz # << >> /\ ~s.emergency

StartCycle(s) == [RestartCollection(s) EXCEPT !.gcstate = "propagate"]
\* singlestep when 'fast', as luaC_runtilstate runs it; from "enteratomic" it
\* takes two turns.
FastStep(s) ==
  CASE s.gcstate = "pause" -> StartCycle(s)
    [] s.gcstate = "propagate" -> [s EXCEPT !.gcstate = "enteratomic"]
    [] s.gcstate = "enteratomic" -> Atomic(s)
    [] s.gcstate = "atomic" -> EnterSweep(s)
    [] s.gcstate = "swpallgc" -> SweepStep(s, "swpfinobj", "finobj", TRUE)
    [] s.gcstate = "swpfinobj" -> SweepStep(s, "swptobefnz", "tobefnz", TRUE)
    [] s.gcstate = "swptobefnz" -> SweepStep(s, "swpend", "none", TRUE)
    [] s.gcstate = "swpend" -> [s EXCEPT !.gcstate = "callfin"]
    [] s.gcstate = "callfin" -> IF CallFinalizers(s) THEN GCTM(s)
                                ELSE [s EXCEPT !.gcstate = "pause"]

\* What a full collection or a change of mode does next to reach its goal: a
\* state of the cycle (luaC_runtilstate), the end of the entry into generational
\* mode (atomic2gen in entergen), no pending finalizers
\* (callallpendingfinalizers), or the name of the mode (luaC_fullgc).
TowardsGoal(s, goal) ==
  CASE goal = "gen" -> Atomic2Gen(s)
    [] goal = "pending" -> GCTM(s)
    [] goal = "major" -> [s EXCEPT !.gckind = "genmajor"]
    [] OTHER -> FastStep(s)
Met(s, goal) == CASE goal = "gen" -> s.gckind = "genminor"
                  [] goal = "pending" -> ~CallFinalizers(s)
                  [] goal = "major" -> s.gckind = "genmajor"
                  [] OTHER -> s.gcstate = goal

\* The turns of a task to its end, or up to a finalizer.
Turn(st) ==
  IF st.goals = << >> \/ st.g.infin THEN st
  ELSE IF Met(st.g, st.goals[1]) THEN [st EXCEPT !.goals = Tail(@)]
  ELSE [st EXCEPT !.g = TowardsGoal(@, st.goals[1])]
Run(s, goals) ==
  LET turn[n \in 0..MaxTurns] ==
        IF n = 0 THEN [g |-> [s EXCEPT !.infin = FALSE], goals |-> goals]
        ELSE Turn(turn[n - 1])
  IN  turn[MaxTurns]

\* luaC_step, of an incremental cycle: one turn of singlestep.
IncStep(s) ==
  /\ task = << >> /\ g.gckind # "genminor"
  /\ g' = s /\ UNCHANGED <<kind, task>>

Pause == g.gcstate = "pause" /\ IncStep(StartCycle(g))
Propagate == \/ /\ g.gcstate = "propagate" /\ g.gray = {}
                /\ IncStep([g EXCEPT !.gcstate = "enteratomic"])
             \/ \E o \in g.gray : g.gcstate = "propagate"
                                  /\ IncStep(PropagateMark(g, o))
EnterAtomic == g.gcstate = "enteratomic" /\ IncStep(EnterSweep(Atomic(g)))
SweepAllGC == g.gcstate = "swpallgc"
              /\ IncStep(SweepStep(g, "swpfinobj", "finobj", FALSE))
SweepFinObj == g.gcstate = "swpfinobj"
               /\ IncStep(SweepStep(g, "swptobefnz", "tobefnz", FALSE))
SweepToBeFnz == g.gcstate = "swptobefnz"
                /\ IncStep(SweepStep(g, "swpend", "none", FALSE))
SweepEnd == g.gcstate = "swpend" /\ IncStep([g EXCEPT !.gcstate = "callfin"])
CallFin == g.gcstate = "callfin"
           /\ IncStep(IF CallFinalizers(g) THEN [GCTM(g) EXCEPT !.infin = FALSE]
                      ELSE [g EXCEPT !.gcstate = "pause"])
\* Without stack for the call, finalizers wait for another cycle.
SkipFinalizers == /\ g.gcstate = "callfin" /\ g.tobefnz # << >>
                  /\ IncStep([g EXCEPT !.gcstate = "pause"])
(*------------------------- tasks of many turns -------------------------*)

EnterGenGoals == <<"pause", "propagate", "atomic", "gen", "pending">>

FullGen(s) == [g |-> Minor2Inc(s, "inc"), goals |-> EnterGenGoals]
\* Mutant: the cycle that was under way is taken for a whole one.
FullIncFromHere(s) == [g |-> s, goals |-> <<"callfin", "pause">>]

\* fullgen and fullinc: the state they start from and what they have to reach.
FullInc(s) == [g |-> IF KeepInvariant(s) THEN EnterSweep(s) ELSE s,
               goals |-> <<"pause", "callfin", "pause">>]

\* luaC_fullgc: an emergency collection runs no finalizers.
FullGC(s, emergency) ==
  LET e == [s EXCEPT !.emergency = emergency]
  IN  CASE s.gckind = "genminor" -> FullGen(e)
        [] s.gckind = "inc" -> FullInc(e)
        [] s.gckind = "genmajor" ->
             LET f == FullInc(e)
             IN  [g |-> [f.g EXCEPT !.gckind = "inc"],
                  goals |-> Append(f.goals, "major")]

\* luaC_changemode, from collectgarbage.
ChangeMode(s, newmode) ==
  IF newmode = "inc" /\ s.gckind = "genminor"
  THEN [g |-> Minor2Inc(s, "inc"), goals |-> << >>]
  ELSE [g |-> [s EXCEPT !.gckind = "inc"],
        goals |-> IF newmode = "inc" THEN << >> ELSE EnterGenGoals]

\* luaC_step in generational mode: a whole minor collection, after which the
\* finalizers are called (or wait, without stack), or which turns into a major one.
EndYoung(s) == {[g |-> FinishGenCycle(s), goals |-> <<"pending">>],
                [g |-> FinishGenCycle(s), goals |-> << >>],
                [g |-> Minor2Inc(s, "genmajor"), goals |-> << >>]}
YoungCollection(s) == IF s.gckind = "genminor" THEN EndYoung(YoungSweep(s)) ELSE {}

\* checkmajorminor: enough garbage was found, back to minor collections.
BackToMinor(s) ==
  IF s.gcstate = "enteratomic" /\ s.gckind = "genmajor"
  THEN {[g |-> s, goals |-> <<"atomic", "gen", "pending">>]} ELSE {}

Tasks(s) ==
  { FullGC(s, emergency) : emergency \in BOOLEAN }
  \cup { ChangeMode(s, newmode) : newmode \in {"inc", "genminor"} \ {s.gckind} }
  \cup YoungCollection(s) \cup BackToMinor(s)

\* A task begins, or the finalizer that interrupted one returns.  It runs to its
\* end, or up to a finalizer: nothing else runs meanwhile.
Task ==
  \E reached \in { Run(st.g, st.goals) :
       st \in IF task = << >> THEN Tasks(g) ELSE {[g |-> g, goals |-> task]} } :
    /\ g' = IF reached.goals # << >> THEN reached.g
            ELSE [reached.g EXCEPT !.emergency = FALSE, !.infin = FALSE]
    /\ task' = reached.goals
    /\ UNCHANGED kind

Init ==
  /\ kind \in KindChoices
  /\ g = [color |-> [o \in Objects |->
                       IF o = MainThread THEN "white" ELSE "free"],
          age |-> [o \in Objects |-> "new"],
          val |-> [o \in Objects |-> NULL], key |-> [o \in Objects |-> NULL],
          open |-> [o \in Objects |-> NULL], stack |-> {},
          allgc |-> <<MainThread>>, finobj |-> << >>, tobefnz |-> << >>,
          gray |-> {}, grayagain |-> {}, weak |-> {}, allweak |-> {},
          ephemeron |-> {}, twups |-> {}, survival |-> NULL, old1 |-> NULL,
          reallyold |-> NULL, firstold1 |-> NULL, finobjsur |-> NULL,
          finobjold1 |-> NULL, finobjrold |-> NULL, gcstate |-> "pause",
          gckind |-> "inc", sweepgc |-> Nowhere, emergency |-> FALSE,
          infin |-> FALSE]
  /\ task = << >>

ProgramStep ==
  \/ \E o \in Objects : NewObj(o) \/ Load(o) \/ Drop(o) \/ CloseThread(o)
                        \/ MarkForFinalization(o)
  \/ \E o \in Objects, x \in Objects \cup {NULL} :
       \/ SetTable(o, x) \/ SetClosure(o, x) \/ SetSlot(o, x) \/ SetUpval(o, x)
       \/ SetMetatable(o, x)
  \/ \E o, x \in Objects : JoinUpvalue(o, x)
  \/ \E o, k \in Objects, x \in Objects \cup {NULL} : SetWeak(o, k, x)

CollectorStep ==
  \/ Pause \/ Propagate \/ EnterAtomic \/ SweepAllGC \/ SweepFinObj
  \/ SweepToBeFnz \/ SweepEnd \/ CallFin \/ SkipFinalizers \/ Task

Next == ProgramStep \/ CollectorStep

Spec == Init /\ [][Next]_vars

-----------------------------------------------------------------------------
(*-------------------- what lua_checkmemory asserts ----------------------*)

\* The references of an object that the collector follows.
Refs(s, o) ==
  CASE kind[o] = "thread" -> Stack(s, o) \cup OpenUpvals(s, o)
    [] kind[o] = "upval" -> {UpvalValue(s, o)} \ {NULL}
    [] OTHER -> {s.val[o], s.key[o]} \ {NULL}

\* testobjref1: may f, as it is, refer to t?
TestObjRef(s, f, t) ==
  /\ s.color[t] # "dead"
  /\ \/ IsSweepPhase(s)
     \/ s.gckind # "genminor" /\ ~(IsBlack(s, f) /\ IsWhite(s, t))
     \/ s.gckind = "genminor"
        /\ ~(s.age[f] = "old" /\ IsBlack(s, f) /\ ~IsOld(s, t))
        /\ ~(s.age[f] \in {"old1", "touched2"} /\ s.age[t] = "new")

\* What the collector keeps to: an open upvalue is still gray when it is "old1",
\* its value is a slot of a thread that every collection visits.
MayRefer(s, f, t) ==
  \/ TestObjRef(s, f, t)
  \/ s.open[f] # NULL /\ IsGray(s, f) /\ s.color[t] # "dead"

\* checkrefs: a table of weak references is checked as any other, an entry
\* without a value is not; the slots of a thread are not dead (check_stack's
\* checkliveness).  'strict' is the test of the code.
CheckRefs(s, o, strict) ==
  LET refs == IF kind[o] \in {"weakvalue", "ephemeron", "allweak"} /\ s.val[o] = NULL
              THEN {} ELSE Refs(s, o)
      permitted(t) == IF strict THEN TestObjRef(s, o, t) ELSE MayRefer(s, o, t)
  IN  IF kind[o] = "thread" THEN \A t \in Stack(s, o) : s.color[t] # "dead"
      ELSE \A t \in refs : permitted(t)

Rank == [new |-> 0, survival |-> 1, old0 |-> 2, old1 |-> 3, old |-> 4,
         touched1 |-> 5, touched2 |-> 6]

\* checkobject.
CheckObject(s, o, maybedead, listage, strict) ==
  IF s.color[o] = "dead" THEN maybedead
  ELSE /\ s.gcstate = "pause" => IsWhite(s, o)
       /\ s.gckind = "genminor" =>
            /\ Rank[s.age[o]] >= Rank[listage]
            /\ IsOld(s, o) => /\ ~IsWhite(s, o)
                              /\ \/ IsBlack(s, o)
                                 \/ s.age[o] \in {"touched1", "old0"}
                                 \/ kind[o] = "thread" \/ s.open[o] # NULL
            /\ s.age[o] = "touched1" => IsGray(s, o)
       /\ CheckRefs(s, o, strict)

\* checkgrays and incifingray: the objects in gray lists are those that are gray
\* (but for open upvalues, which are in none) or were touched in the last cycle.
CheckGrays(s) ==
  /\ \A a, b \in GrayLists : a # b => s[a] \cap s[b] = {}
  /\ UNION { s[l] : l \in GrayLists }
       = { o \in InUse(s) : IF kind[o] = "upval" THEN FALSE
                            ELSE IsGray(s, o) # (s.age[o] = "touched2") }
  /\ \A o \in InUse(s) : kind[o] = "upval" /\ IsGray(s, o) => s.open[o] # NULL

\* checklist of a list divided by three pointers.
CheckList(s, list, sur, old, rold, maybedead, strict) ==
  LET i == Place(list, sur)
      j == Place(list, old)
      k == Place(list, rold)
  IN  /\ {sur, old, rold} \subseteq In(list) \cup {NULL}
      /\ i <= j /\ j <= k
      /\ \A n \in DOMAIN list :
           CheckObject(s, list[n], maybedead /\ n < i,
                       CASE n < i -> "new" [] n < j -> "survival"
                         [] n < k -> "old1" [] OTHER -> "old", strict)

\* lua_checkmemory, with its own test of what an object may refer to or MayRefer.
CheckMemory(s, strict) ==
  /\ KeepInvariant(s) => CheckGrays(s) /\ ~IsWhite(s, MainThread)
  /\ s.sweepgc = Nowhere \/ IsSweepPhase(s)
  /\ CheckList(s, s.allgc, s.survival, s.old1, s.reallyold,
               s.gcstate = "swpallgc", strict)
  /\ CheckList(s, s.finobj, s.finobjsur, s.finobjold1, s.finobjrold, FALSE, strict)
  /\ \A o \in In(s.tobefnz) : CheckObject(s, o, FALSE, "new", strict)

-----------------------------------------------------------------------------
TypeOK ==
  /\ g.color \in [Objects -> {"free", "freed", "white", "dead", "gray", "black"}]
  /\ g.age \in [Objects -> Ages]
  /\ \A l \in ObjectLists : IsInjective(g[l])
  /\ \A o \in Objects :
       Cardinality({ l \in ObjectLists : o \in In(g[l]) })
         = IF o \in InUse(g) THEN 1 ELSE 0
  /\ g.twups \subseteq { o \in InUse(g) : kind[o] = "thread" }
  /\ g.gckind \in {"inc", "genminor", "genmajor"}

\* A closure of a set under a reference relation.
ClosureOf(S, R(_)) ==
  LET step[n \in 0..Cardinality(Objects)] ==
        IF n = 0 THEN S
        ELSE step[n - 1] \cup UNION { R(o) : o \in step[n - 1] }
  IN  step[Cardinality(Objects)]

Roots(s) == {MainThread} \cup In(s.tobefnz)

\* No pointer the program or the collector can still follow leads to a freed
\* object or to one about to be freed: not through a barrier missed while
\* marking, an old object that is not visited, a weak entry not cleared, or an
\* open upvalue whose coroutine is gone.
NothingReachableFreed ==
  \A o \in ClosureOf(Roots(g), LAMBDA q : Refs(g, q)) :
    g.color[o] \notin {"free", "freed", "dead"} /\ g.open[o] \notin Objects \ InUse(g)

\* What the collector's checks (lua_checkmemory) assert of the lists whenever the
\* program may call them: colours, ages and the pointers that divide the lists.
MemoryConsistent == CheckMemory(g, FALSE)

\* What remarkupvals asserts of a thread that leaves twups: it is not old with an
\* open upvalue, and none of its upvalues is older than it is.
RemarkAsserts(s) ==
  \A th \in s.twups : IsWhite(s, th) =>
    \A u \in OpenUpvals(s, th) : ~IsOld(s, th) /\ Rank[s.age[u]] <= Rank[s.age[th]]

\* The stores with a forward barrier, which ages only what is stored.
ForwardStore(o, x) ==
  \/ g.open[o] = NULL /\ (SetClosure(o, x) \/ JoinUpvalue(o, x) \/ SetUpval(o, x))
  \/ g.open[o] # NULL /\ CloseThread(g.open[o]) /\ x = UpvalValue(g, o)

\* In generational mode an old object gets, by a forward barrier, no upvalue and no
\* userdata without user values that is still young, but for a closed upvalue
\* without a young value and a userdata without a young metatable.
StoresInAge ==
  \A o, x \in Objects :
    /\ g.gckind = "genminor" /\ IsOld(g, o) /\ kind[x] \in {"upval", "bareudata"}
    /\ ForwardStore(o, x)
    => IsOld(g, x) \/ (g.open[x] = NULL /\ (g.val[x] = NULL \/ IsOld(g, g.val[x])))

\* The assertions of remarkupvals (lgc.c) in the minor collection that may begin.
UpvaluesNoOlder ==
  g.gckind = "genminor" /\ task = << >> => RemarkAsserts(BeforeRemark(MarkOlds(g)))

\* The test as the comment before it and its assertion state it: both "old1" and
\* "touched2" objects never point to new ones, whoever they are.
ChecksHold == CheckMemory(g, TRUE)

\* What keeps an object, by the manual: references that are not weak, and the
\* value of an ephemeron's entry once its key is kept.
Keeps(s, S, o) ==
  CASE kind[o] = "weakvalue" -> {s.key[o]} \cup
         { x \in {s.val[o]} : x # NULL /\ kind[x] = "string" }
    [] kind[o] = "ephemeron" ->
         { x \in {s.key[o]} : x # NULL /\ kind[x] = "string" } \cup
         (IF s.key[o] \in S \/ (s.key[o] # NULL /\ kind[s.key[o]] = "string")
          THEN {s.val[o]} ELSE {})
    [] kind[o] = "allweak" ->
         { x \in {s.val[o], s.key[o]} : x # NULL /\ kind[x] = "string" }
    [] OTHER -> Refs(s, o)
Kept(s, roots) ==
  LET step[n \in 0..Cardinality(Objects)] ==
        IF n = 0 THEN roots
        ELSE step[n - 1] \cup
             (UNION { Keeps(s, step[n - 1], o) : o \in step[n - 1] } \ {NULL})
  IN  step[Cardinality(Objects)]

Collected(st) == Run(st.g, st.goals).g
\* A collection from s to t has left nothing but what was kept, or waits to be finalized.
OnlyKept(s, t) == InUse(t) \subseteq Kept(s, Roots(t))
\* An emergency collection, which is all that stands between a failed allocation
\* and a memory error, frees everything nothing keeps, whatever the cycle or the
\* mode it interrupts.
EmergencyReclaims ==
  task = << >> => OnlyKept(g, Collected(FullGC(g, TRUE)))
=============================================================================
