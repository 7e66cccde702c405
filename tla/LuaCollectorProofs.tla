------------------------- MODULE LuaCollectorProofs -------------------------
(****************************************************************************)
(* The collector of lgc.c frees nothing that the program can still reach,   *)
(* for every set of objects and every number of turns of its loops.         *)
(*                                                                          *)
(* What is proved of a behavior of Spec has the hypothesis                  *)
(* [][StoresInAge]_vars: in generational mode no forward barrier gives an   *)
(* old object a young upvalue, or a young userdata without user values,     *)
(* that holds something young. The barrier ages only the one object, and    *)
(* what it holds is lost: the runs collector_join and collector_metatable   *)
(* show a behavior for each. Nothing else that a program does is excluded.  *)
(*                                                                          *)
(* The inductive invariant is Sound: the kinds of the objects stay, and the *)
(* state is Held with the goals of the task under way, that is, it has Inv  *)
(* (LuaCollectorLemmas) and the mode and phase that the goals expect.       *)
(*                                                                          *)
(* First come the steps of the program that LuaCollectorLemmas leaves, then *)
(* the change to the generational mode, the minor collection, the other     *)
(* collections, and the loop that runs a task.                              *)
(****************************************************************************)
EXTENDS LuaCollectorLemmas

(****************************************************************************)
(* Stacks, new objects, upvalues and finalizers                             *)
(****************************************************************************)

\* A store into the stack of a coroutine, whose open upvalues are live.
LEMMA SlotInv ==
  ASSUME NEW s, Runs(s), KindOK, NEW th \in InUse(s), kind[th] = "thread", th # MainThread,
         OpenUpvals(s, th) \subseteq Live(s), NEW x \in Storable(s)
  PROVE  Stepped(s, [s EXCEPT !.val[th] = x])
<1> DEFINE V == [s.val EXCEPT ![th] = x]
           t == WithVal(s, V)
<1>1. Base(s) /\ s \in StateType /\ Shape(s) /\ th \in Objects
  BY DEF Runs, Inv, Base, InUse
<1>2. x \in OrNull(Proper) /\ x \in Live(s) \cup {NULL} /\ (x # NULL => kind[x] # "upval")
  BY <1>1, StackLive
<1>3. /\ [s EXCEPT !.val[th] = x] = t /\ V \in [Objects -> OrNull(Proper)] /\ V[th] = x
      /\ \A y \in Objects : y # th => V[y] = s.val[y]
  BY <1>1, <1>2 DEF WithVal, StateType
<1> HIDE DEF V
<1>4. t \in StateType /\ Same(s, t, {"val"}) /\ t.val = V
  BY <1>1, <1>3, WithIs
<1> HIDE DEF t
<1>5. /\ t.key = s.key /\ t.open = s.open /\ t.color = s.color /\ t.age = s.age /\ t.stack = s.stack
      /\ t.twups = s.twups /\ t.gcstate = s.gcstate /\ t.gckind = s.gckind /\ t.infin = s.infin
  BY <1>4 DEF Same, Fields
<1>6. ASSUME NEW y \in Objects PROVE ShapeOf(t, y)
  <2>1. ShapeOf(s, y) /\ InUse(t) = InUse(s)
    BY <1>1, <1>5 DEF Shape, InUse
  <2>2. CASE y = th
    BY <1>2, <1>3, <1>4, <1>5, <2>1, <2>2 DEF ShapeOf
  <2>3. CASE y # th
    <3>1. t.val[y] = s.val[y]
      BY <1>3, <1>4, <2>3
    <3> QED BY <1>5, <2>1, <3>1 DEF ShapeOf
  <2> QED BY <2>2, <2>3
<1>7. Shape(t)
  BY <1>1, <1>5, <1>6 DEF Shape
<1>8. Refs(t, th) \subseteq Live(s)
  <2>1. Refs(t, th) = ({x} \ {NULL}) \cup OpenUpvals(s, th)
    <3>1. Refs(t, th) = Stack(t, th) \cup OpenUpvals(t, th)
      BY <1>1, RefsThread
    <3> QED BY <1>3, <1>4, <1>5, <3>1 DEF Stack, OpenUpvals
  <2> QED BY <1>2, <2>1
<1>9. Write(s, t, th)
  BY <1>1, <1>3, <1>4, <1>5, <1>7, <1>8 DEF Write, Same
<1>10. Runs(t)
  BY <1>9, WriteInv DEF Guarded
<1> QED BY <1>3, <1>5, <1>10 DEF Stepped

\* The action SetSlot: a store into the stack of a coroutine, without a barrier.
LEMMA SetSlotInv ==
  ASSUME NEW s, Runs(s), KindOK, NEW th \in s.stack, kind[th] = "thread", th # MainThread,
         NEW x \in Storable(s)
  PROVE  Stepped(s, [s EXCEPT !.val[th] = x])
<1>1. Base(s) /\ th \in Live(s)
  BY StackLive DEF Runs, Inv
<1>2. th \in Objects /\ th \in InUse(s)
  BY <1>1 DEF Live, InUse
<1>3. OpenUpvals(s, th) \subseteq Live(s)
  BY <1>1, <1>2, RefsThread DEF Base, Closed
<1> QED BY <1>2, <1>3, SlotInv

\* The action SetUpval on an open upvalue: a store into a stack slot, with a barrier for the
\* upvalue.
LEMMA SetOpenInv ==
  ASSUME NEW s, Runs(s), KindOK, NEW u \in s.stack, kind[u] = "upval", s.open[u] # NULL,
         NEW x \in Storable(s)
  PROVE  Stepped(s, Barrier([s EXCEPT !.val[s.open[u]] = x], u, x))
<1>1. Base(s) /\ u \in Live(s) /\ s \in StateType /\ Shape(s)
  BY StackLive DEF Runs, Inv, Base
<1> DEFINE th == s.open[u]
           t == [s EXCEPT !.val[th] = x]
<1>2. /\ u \in Objects /\ kind[th] = "thread" /\ s.color[u] # "black" /\ th \in InUse(s)
      /\ th # MainThread
  BY <1>1 DEF Shape, ShapeOf, Live, StateType, OrNull, Proper
<1>3. OpenUpvals(s, th) = {u}
  BY <1>1, <1>2 DEF OpenUpvals, Shape
<1>4. Stepped(s, t)
  BY <1>1, <1>2, <1>3, SlotInv
<1>5. t.color = s.color
  BY <1>1 DEF StateType
<1> HIDE DEF t
<1>6. Barrier(t, u, x) = t
  BY <1>2, <1>5 DEF Barrier, IsBlack
<1> QED BY <1>4, <1>6 DEF t

\* The main thread may hold any live objects on its stack.
LEMMA OnStackInv ==
  ASSUME NEW s, Runs(s), KindOK, NEW S, S \subseteq Proper, S \subseteq Live(s)
  PROVE  Stepped(s, [s EXCEPT !.stack = S])
<1> DEFINE t == [s EXCEPT !.stack = S]
<1>1. Base(s) /\ s \in StateType /\ Shape(s) /\ MainThread \in Objects
  BY Null DEF Runs, Inv, Base
<1>2. t \in StateType /\ Same(s, t, {"stack"}) /\ t.stack = S
  BY <1>1 DEF StateType, Same, Fields
<1> HIDE DEF t
<1>3. /\ t.val = s.val /\ t.key = s.key /\ t.open = s.open /\ t.color = s.color /\ t.age = s.age
      /\ t.twups = s.twups /\ t.gcstate = s.gcstate /\ t.gckind = s.gckind /\ t.infin = s.infin
  BY <1>2 DEF Same, Fields
<1>4. Shape(t)
  BY <1>1, <1>3 DEF Shape, ShapeOf, InUse
<1>5. Refs(t, MainThread) \subseteq Live(s)
  <2>1. kind[MainThread] = "thread"
    BY DEF KindOK
  <2>2. /\ Refs(t, MainThread) = Stack(t, MainThread) \cup OpenUpvals(t, MainThread)
        /\ Refs(s, MainThread) = Stack(s, MainThread) \cup OpenUpvals(s, MainThread)
    BY <1>1, <2>1, RefsThread
  <2>3. Refs(s, MainThread) \subseteq Live(s)
    BY <1>1 DEF Base, Closed
  <2> QED BY <1>2, <1>3, <2>2, <2>3 DEF Stack, OpenUpvals
<1>6. Same(s, t, {"val", "key", "stack"})
  BY <1>2 DEF Same
<1>7. Write(s, t, MainThread)
  BY <1>1, <1>2, <1>3, <1>4, <1>5, <1>6 DEF Write
<1>8. Guarded(s, t, MainThread)
  BY DEF Guarded, KindOK
<1> QED BY <1>3, <1>7, <1>8, WriteInv DEF Stepped, t

\* The action Load: reading a key or a value that the program can reach.
LEMMA LoadInv ==
  ASSUME NEW s, Runs(s), KindOK, NEW o \in s.stack,
         NEW x \in {s.key[o], UpvalValue(s, o)} \ (s.stack \cup {NULL})
  PROVE  Stepped(s, [s EXCEPT !.stack = @ \cup {x}])
<1>1. /\ Base(s) /\ o \in Live(s) /\ s \in StateType /\ Shape(s) /\ s.stack \subseteq Live(s)
      /\ s.stack \subseteq Proper
  BY StackLive DEF Runs, Inv, Base
<1>2. o \in Objects /\ o # MainThread
  BY <1>1 DEF Live, Proper
<1>3. x \in Proper
  BY <1>1, <1>2, RefsType DEF StateType, OrNull
<1>4. x \in Refs(s, o)
  <2>1. s.key[o] # NULL => kind[o] \in WeakKinds
    BY <1>1, <1>2 DEF Shape, ShapeOf
  <2>2. s.open[o] # NULL => kind[o] = "upval"
    BY <1>1, <1>2 DEF Shape, ShapeOf
  <2>3. CASE kind[o] = "upval"
    BY <1>2, <2>1, <2>3, RefsUpval DEF WeakKinds
  <2>4. CASE kind[o] = "thread"
    <3>1. x = s.val[o]
      BY <2>1, <2>2, <2>4 DEF WeakKinds, UpvalValue
    <3> QED BY <1>2, <2>4, <3>1, RefsThread DEF Stack
  <2>5. CASE kind[o] # "upval" /\ kind[o] # "thread"
    <3>1. x \in {s.key[o], s.val[o]}
      BY <2>2, <2>5 DEF UpvalValue
    <3> QED BY <1>2, <2>5, <3>1, RefsOther
  <2> QED BY <2>3, <2>4, <2>5
<1>5. x \in Live(s)
  BY <1>1, <1>2, <1>4 DEF Base, Closed
<1>6. s.stack \cup {x} \subseteq Proper /\ s.stack \cup {x} \subseteq Live(s)
  BY <1>1, <1>3, <1>5
<1> QED BY <1>6, OnStackInv

\* The action Drop.
LEMMA DropInv ==
  ASSUME NEW s, Runs(s), KindOK, NEW o
  PROVE  Stepped(s, [s EXCEPT !.stack = @ \ {o}])
<1>1. Base(s)
  BY DEF Runs, Inv
<1>2. s.stack \ {o} \subseteq Proper /\ s.stack \ {o} \subseteq Live(s)
  BY <1>1, StackLive
<1> QED BY <1>2, OnStackInv

(* An object at the head of a list moves no pointer.  *)
LEMMA PushFrom ==
  ASSUME NEW L \in Seq(Objects), IsInjective(L), NEW o \in Objects, o \notin In(L)
  PROVE  LET M == <<o>> \o L
         IN  /\ M \in Seq(Objects) /\ IsInjective(M) /\ In(M) = {o} \cup In(L)
             /\ \A p \in Pointers(L) : /\ p \in Pointers(M) /\ From(M, p) = From(L, p)
                                       /\ In(Prefix(M, p)) \subseteq {o} \cup In(Prefix(L, p))
             /\ \A p, q, r : Divided(L, p, q, r) => Divided(M, p, q, r)
<1> DEFINE h == <<o>>
           M == h \o L
<1>1. M \in Seq(Objects) /\ IsInjective(M) /\ In(M) = {o} \cup In(L)
  BY PushOnce
<1>2. h \in Seq(Objects)
  OBVIOUS
<1> HIDE DEF h
<1>3. \A p \in Pointers(L) : From(M, p) = From(L, p)
  BY <1>1, <1>2, FromConcat
<1> HIDE DEF M
<1>4. ASSUME NEW p \in Pointers(L)
      PROVE  p \in Pointers(M) /\ In(Prefix(M, p)) \subseteq {o} \cup In(Prefix(L, p))
  <2>1. p \in Pointers(M)
    BY <1>1 DEF Pointers
  <2>2. CASE p = NULL
    <3>1. Prefix(M, p) = << >> /\ Prefix(L, p) = << >>
      BY <2>2 DEF Prefix
    <3> QED BY <2>1, <3>1
  <2>3. CASE p # NULL
    <3>1. /\ In(Before(M, p)) = In(M) \ In(From(M, p)) /\ Before(M, p) \in Seq(Objects)
          /\ In(Before(L, p)) = In(L) \ In(From(L, p)) /\ Before(L, p) \in Seq(Objects)
      BY <1>1, <2>1, BeforeFrom
    <3>2. In(Before(M, p)) \subseteq {o} \cup In(Before(L, p))
      BY <1>1, <1>3, <3>1
    <3> DEFINE c == <<p>>
    <3>3. p \in In(L) /\ In(L) \subseteq Objects
      BY <2>3, InType DEF Pointers
    <3>4. c \in Seq(Objects) /\ In(c) = {p}
      BY <3>3 DEF In
    <3>5. Prefix(M, p) = Before(M, p) \o c /\ Prefix(L, p) = Before(L, p) \o c
      BY <2>3 DEF Prefix
    <3> HIDE DEF c
    <3>6. In(Prefix(M, p)) = In(Before(M, p)) \cup In(c) /\ In(Prefix(L, p)) = In(Before(L, p)) \cup In(c)
      BY <3>1, <3>4, <3>5, InConcat
    <3> QED BY <2>1, <3>2, <3>6
  <2> QED BY <2>2, <2>3
<1>5. ASSUME NEW p, NEW q, NEW r, Divided(L, p, q, r) PROVE Divided(M, p, q, r)
  <2>1. p \in Pointers(L) /\ q \in Pointers(L) /\ q \in Pointers(From(L, p)) /\ r \in Pointers(From(L, q))
    BY <1>5, FromSubset DEF Divided
  <2> QED BY <1>3, <1>4, <2>1 DEF Divided
<1> QED BY <1>1, <1>3, <1>4, <1>5 DEF M, h

(* What luaC_newobj does; th is the thread of an open upvalue.  *)
Made(s, t, o, th) ==
  /\ t \in StateType /\ Same(s, t, {"color", "allgc", "stack", "open", "twups"})
  /\ o \in Proper /\ s.color[o] = "free"
  /\ th = NULL \/ (kind[o] = "upval" /\ kind[th] = "thread" /\ th \in s.stack /\ OpenUpvals(s, th) = {})
  /\ t.color = [s.color EXCEPT ![o] = "white"] /\ t.allgc = <<o>> \o s.allgc
  /\ t.stack = s.stack \cup {o} /\ t.open = [s.open EXCEPT ![o] = th]
  /\ t.twups = IF th = NULL THEN s.twups ELSE s.twups \cup {th}

\* luaC_newobj makes a white object at the head of allgc; an open upvalue is linked to its
\* thread.
LEMMA MadeIs ==
  ASSUME NEW s, Base(s), KindOK, NEW o \in Objects, s.color[o] = "free", NEW th,
         th = NULL \/ (kind[o] = "upval" /\ kind[th] = "thread" /\ th \in s.stack /\ OpenUpvals(s, th) = {})
  PROVE  Made(s, [s EXCEPT !.color[o] = "white", !.allgc = <<o>> \o @,
                           !.stack = @ \cup {o}, !.open[o] = th,
                           !.twups = IF th = NULL THEN @ ELSE @ \cup {th}], o, th)
<1>1. s \in StateType /\ Lists(s) /\ s.stack \subseteq Proper
  BY DEF Base, StateType
<1>2. o \in Proper
  BY Null DEF Base, Closed, Live, Proper
<1>3. th \in OrNull(Proper)
  BY <1>1 DEF OrNull
<1> DEFINE A == <<o>> \o s.allgc
           W == IF th = NULL THEN s.twups ELSE s.twups \cup {th}
           C == [s.color EXCEPT ![o] = "white"]
           P == [s.open EXCEPT ![o] = th]
           S == s.stack \cup {o}
           t == [s EXCEPT !.color = C, !.allgc = A, !.stack = S, !.open = P, !.twups = W]
<1>4. A \in Seq(Objects)
  BY <1>1 DEF StateType
<1>5. W \in SUBSET Objects /\ C \in [Objects -> Colors] /\ P \in [Objects -> OrNull(Proper)] /\ S \in SUBSET Proper
  BY <1>1, <1>2, <1>3 DEF StateType, OrNull, Proper, Colors
<1>6. [s EXCEPT !.color[o] = "white", !.allgc = <<o>> \o @,
                           !.stack = @ \cup {o}, !.open[o] = th,
                           !.twups = IF th = NULL THEN @ ELSE @ \cup {th}] = t
  BY <1>1 DEF StateType
<1> HIDE DEF A, W, C, P, S
<1>7. /\ t \in StateType /\ Same(s, t, {"color", "allgc", "stack", "open", "twups"})
      /\ t.color = C /\ t.allgc = A /\ t.stack = S /\ t.open = P /\ t.twups = W
  BY <1>1, <1>4, <1>5 DEF StateType, Same, Fields
<1> HIDE DEF t
<1> QED BY <1>2, <1>6, <1>7 DEF Made, A, W, C, P, S

\* A new object keeps the structure of the heap.
LEMMA MadeBase ==
  ASSUME NEW s, Base(s), KindOK, NEW t, NEW o, NEW th, Made(s, t, o, th)
  PROVE  /\ Base(t) /\ Live(t) = Live(s) \cup {o} /\ InUse(t) = InUse(s) \cup {o} /\ Marked(t) = Marked(s)
         /\ o \notin InUse(s) /\ o \in Objects /\ t.color[o] = "white" /\ s.age[o] = "new"
         /\ \A x \in Objects : x # o => t.color[x] = s.color[x] /\ t.open[x] = s.open[x]
         /\ \A x \in Objects : x # o /\ kind[x] # "thread" => Refs(t, x) = Refs(s, x)
         /\ t.age = s.age /\ t.val = s.val /\ t.key = s.key /\ t.finobj = s.finobj
         /\ t.tobefnz = s.tobefnz /\ t.gray = s.gray /\ t.grayagain = s.grayagain
         /\ t.weak = s.weak /\ t.allweak = s.allweak /\ t.ephemeron = s.ephemeron
         /\ t.survival = s.survival /\ t.old1 = s.old1 /\ t.reallyold = s.reallyold
         /\ t.firstold1 = s.firstold1 /\ t.finobjsur = s.finobjsur
         /\ t.finobjold1 = s.finobjold1 /\ t.finobjrold = s.finobjrold
         /\ t.gcstate = s.gcstate /\ t.gckind = s.gckind /\ t.sweepgc = s.sweepgc
         /\ t.infin = s.infin /\ t.open[o] = th /\ (th # NULL => th \in Objects /\ th # o)
         /\ s.twups \subseteq t.twups /\ (th # NULL => th \in t.twups)
<1>1. s \in StateType /\ Lists(s) /\ Shape(s) /\ Closed(s) /\ t \in StateType /\ o \in Objects /\ o # MainThread
  BY DEF Base, Made, Proper
<1>2. /\ t.age = s.age /\ t.val = s.val /\ t.key = s.key /\ t.finobj = s.finobj
      /\ t.tobefnz = s.tobefnz /\ t.gray = s.gray /\ t.grayagain = s.grayagain
      /\ t.weak = s.weak /\ t.allweak = s.allweak /\ t.ephemeron = s.ephemeron
      /\ t.survival = s.survival /\ t.old1 = s.old1 /\ t.reallyold = s.reallyold
      /\ t.firstold1 = s.firstold1 /\ t.finobjsur = s.finobjsur
      /\ t.finobjold1 = s.finobjold1 /\ t.finobjrold = s.finobjrold
      /\ t.gcstate = s.gcstate /\ t.gckind = s.gckind /\ t.sweepgc = s.sweepgc
      /\ t.infin = s.infin
  BY DEF Made, Same, Fields
<1>3. /\ t.color[o] = "white" /\ t.open[o] = th
      /\ \A x \in Objects : x # o => t.color[x] = s.color[x] /\ t.open[x] = s.open[x]
  BY <1>1 DEF Made, StateType
<1>4. /\ Live(t) = Live(s) \cup {o} /\ InUse(t) = InUse(s) \cup {o} /\ Marked(t) = Marked(s)
      /\ o \notin InUse(s) /\ o \notin Live(s)
  BY <1>1, <1>3 DEF Live, InUse, Marked, Made
<1>5. s.age[o] = "new" /\ s.val[o] = NULL /\ s.key[o] = NULL /\ s.open[o] = NULL
  BY <1>1, <1>4 DEF Shape, ShapeOf
<1>6. \A x \in Objects : s.open[x] # o
  BY <1>1, <1>4, Null DEF Shape, ShapeOf
<1>7. s.stack \subseteq Live(s) /\ s.stack \subseteq Proper
  BY StackLive
<1>8. th # NULL => th \in Live(s) /\ th \in Objects /\ th # o /\ kind[th] = "thread" /\ kind[o] = "upval"
                   /\ th # MainThread /\ \A x \in Objects : s.open[x] # th
  BY <1>4, <1>7 DEF Made, Live, Proper, OpenUpvals
<1>9. s.twups \subseteq t.twups /\ (th # NULL => th \in t.twups) /\ t.twups \subseteq s.twups \cup ({th} \ {NULL})
  BY DEF Made
<1>10. ASSUME NEW x \in Objects PROVE UpvalValue(t, x) = IF x # o THEN UpvalValue(s, x) ELSE IF th = NULL THEN NULL ELSE s.val[th]
  BY <1>1, <1>2, <1>3, <1>5 DEF UpvalValue
<1>11. ASSUME NEW x \in Objects, x # o, kind[x] # "thread" PROVE Refs(t, x) = Refs(s, x)
  <2>1. CASE kind[x] = "upval"
    BY <1>10, <1>11, <2>1, RefsUpval
  <2>2. CASE kind[x] # "upval"
    BY <1>2, <1>11, <2>2, RefsOther
  <2> QED BY <2>1, <2>2
<1>12. ASSUME NEW x \in Objects, x \in Live(s), kind[x] = "thread" PROVE Refs(t, x) \subseteq Live(t)
  <2>1. Refs(t, x) = Stack(t, x) \cup OpenUpvals(t, x) /\ Refs(s, x) = Stack(s, x) \cup OpenUpvals(s, x)
    BY <1>12, RefsThread
  <2>2. Refs(s, x) \subseteq Live(s)
    BY <1>1, <1>12 DEF Closed
  <2>3. OpenUpvals(t, x) \subseteq OpenUpvals(s, x) \cup {o}
    BY <1>3 DEF OpenUpvals
  <2>4. Stack(t, x) \subseteq Stack(s, x) \cup {o}
    BY <1>2 DEF Stack, Made
  <2> QED BY <1>4, <2>1, <2>2, <2>3, <2>4
<1>13. Refs(t, o) \subseteq Live(t)
  <2>1. CASE kind[o] = "upval"
    <3>1. Refs(t, o) = {UpvalValue(t, o)} \ {NULL}
      BY <1>1, <2>1, RefsUpval
    <3>2. th # NULL => s.val[th] \in Refs(s, th) \cup {NULL}
      BY <1>8, RefsThread DEF Stack
    <3>3. th # NULL => s.val[th] \in Live(s) \cup {NULL}
      BY <1>1, <1>8, <3>2 DEF Closed
    <3> QED BY <1>1, <1>4, <1>10, <3>1, <3>3
  <2>2. CASE kind[o] = "thread"
    <3>1. Refs(t, o) = Stack(t, o) \cup OpenUpvals(t, o)
      BY <1>1, <2>2, RefsThread
    <3>2. OpenUpvals(t, o) = {}
      BY <1>1, <1>3, <1>6, <1>8, <2>2, Null DEF OpenUpvals
    <3> QED BY <1>1, <1>2, <1>5, <3>1, <3>2 DEF Stack
  <2>3. CASE kind[o] # "thread" /\ kind[o] # "upval"
    <3>1. Refs(t, o) = {t.val[o], t.key[o]} \ {NULL}
      BY <1>1, <2>3, RefsOther
    <3> QED BY <1>2, <1>5, <3>1
  <2> QED BY <2>1, <2>2, <2>3
<1>14. ASSUME NEW x \in Objects, x \in Live(t) PROVE Refs(t, x) \subseteq Live(t)
  <2>1. CASE x = o
    BY <1>13, <2>1
  <2>2. CASE x # o /\ kind[x] = "thread"
    BY <1>4, <1>12, <1>14, <2>2
  <2>3. CASE x # o /\ kind[x] # "thread"
    BY <1>1, <1>4, <1>11, <1>14, <2>3 DEF Closed
  <2> QED BY <2>1, <2>2, <2>3
<1>15. Closed(t)
  <2>1. {MainThread} \cup In(t.tobefnz) \cup t.twups \subseteq Live(t)
    BY <1>1, <1>2, <1>4, <1>8, <1>9 DEF Closed
  <2>2. ASSUME NEW x \in Objects, t.open[x] \in Live(t) PROVE t.open[x] \in t.twups
    <3>1. CASE x = o
      BY <1>3, <1>9, <2>2, <3>1, Null DEF Live
    <3>2. CASE x # o
      BY <1>1, <1>3, <1>4, <1>6, <1>9, <2>2, <3>2 DEF Closed
    <3> QED BY <3>1, <3>2
  <2> QED BY <1>14, <2>1, <2>2 DEF Closed
<1>16. ASSUME NEW x \in Objects PROVE ShapeOf(t, x)
  <2>1. ShapeOf(s, x)
    BY <1>1 DEF Shape
  <2>2. CASE x = o
    <3>1. th # NULL => th \in InUse(t)
      BY <1>4, <1>8 DEF Live, InUse
    <3> QED BY <1>2, <1>3, <1>4, <1>5, <1>8, <2>2, <3>1 DEF ShapeOf
  <2>3. CASE x # o
    BY <1>2, <1>3, <1>4, <2>1, <2>3 DEF ShapeOf
  <2> QED BY <2>2, <2>3
<1>17. Shape(t)
  <2>1. ASSUME NEW u \in Objects, NEW w \in Objects, t.open[u] # NULL, t.open[u] = t.open[w] PROVE u = w
    BY <1>1, <1>3, <1>8, <2>1 DEF Shape
  <2>2. \A x \in t.twups : kind[x] = "thread"
    BY <1>1, <1>8, <1>9 DEF Shape
  <2> QED BY <1>16, <2>1, <2>2 DEF Shape
<1>18. Lists(t)
  <2>1. s.allgc \in Seq(Objects) /\ IsInjective(s.allgc) /\ o \notin In(s.allgc)
    BY <1>1, <1>4 DEF StateType, Lists
  <2>2. IsInjective(t.allgc) /\ In(t.allgc) = {o} \cup In(s.allgc)
    BY <1>1, <2>1, PushOnce DEF Made
  <2> QED BY <1>1, <1>2, <1>4, <2>2 DEF Lists
<1> QED BY <1>1, <1>2, <1>3, <1>4, <1>5, <1>8, <1>9, <1>11, <1>15, <1>17, <1>18 DEF Base

\* A new object keeps the trace: it is white, and only the stack and a thread in twups refer
\* to it.
LEMMA MadeReady ==
  ASSUME NEW s, Base(s), KindOK, NEW t, NEW o, NEW th, Made(s, t, o, th), NEW X, Ready(s, X),
         s.gcstate # "atomic"
  PROVE  Ready(t, X)
<1>1. s \in StateType /\ Shape(s) /\ Closed(s) /\ Trace(s, X, FALSE)
  BY DEF Base, Ready
<1>2. /\ Marked(t) = Marked(s) /\ o \in Objects /\ t.color[o] = "white" /\ o \notin InUse(s)
      /\ \A x \in Objects : x # o => t.color[x] = s.color[x] /\ t.open[x] = s.open[x]
      /\ \A x \in Objects : x # o /\ kind[x] # "thread" => Refs(t, x) = Refs(s, x)
      /\ t.age = s.age /\ t.gray = s.gray /\ t.grayagain = s.grayagain
      /\ t.weak = s.weak /\ t.allweak = s.allweak /\ t.ephemeron = s.ephemeron
      /\ t.gcstate = s.gcstate /\ t.sweepgc = s.sweepgc /\ t.open[o] = th /\ s.age[o] = "new"
      /\ s.twups \subseteq t.twups /\ (th # NULL => th \in t.twups)
  BY MadeBase
<1>3. Pending(t) = Pending(s) /\ Later(t) = Later(s)
  BY <1>2 DEF Pending, Later
<1>4. ASSUME NEW x \in Objects PROVE TraceOf(t, X, FALSE, x)
  <2>1. TraceOf(s, X, FALSE, x)
    BY <1>1 DEF Trace
  <2>2. CASE x = o
    <3>1. x \notin Marked(t) /\ ~IsGray(t, x) /\ t.age[x] = "new"
      BY <1>2, <2>2 DEF Marked, IsGray
    <3> QED BY <1>2, <2>2, <3>1 DEF TraceOf
  <2>3. CASE x # o
    <3>1. x \in Marked(s) /\ x \notin s.gray \cup X \cup Later(s) => Visited(t, x, FALSE)
      <4> SUFFICES ASSUME x \in Marked(s), x \notin s.gray \cup X \cup Later(s) PROVE Visited(t, x, FALSE)
        OBVIOUS
      <4>1. kind[x] # "thread"
        BY <2>1 DEF TraceOf, Later
      <4>2. Refs(t, x) = Refs(s, x) /\ t.open[x] = s.open[x]
        BY <1>2, <2>3, <4>1
      <4>3. Refs(s, x) \subseteq Live(s)
        BY <1>1 DEF Closed, Marked, Live
      <4>4. o \notin Live(s) /\ Live(s) \subseteq Objects
        BY <1>2 DEF Live, InUse
      <4>5. s.weak = {} /\ s.allweak = {} /\ s.ephemeron = {}
        BY DEF Ready
      <4>6. Full(s, x) => Full(t, x)
        BY <1>2, <4>2, <4>3, <4>4 DEF Full, IsWhite
      <4> QED BY <2>1, <4>2, <4>5, <4>6 DEF TraceOf, Visited
    <3>2. t.open[x] = s.open[x] /\ t.color[x] = s.color[x]
      BY <1>2, <2>3
    <3> QED BY <1>2, <1>3, <2>1, <3>1, <3>2 DEF TraceOf, IsGray, IsOld
  <2> QED BY <2>2, <2>3
<1>5. Trace(t, X, FALSE)
  BY <1>1, <1>2, <1>3, <1>4 DEF Trace
<1>6. NoDead(t)
  BY <1>2 DEF NoDead, Ready
<1> QED BY <1>2, <1>5, <1>6 DEF Ready

\* A new object has a color that the sweep allows, and stands before the cursor.
LEMMA MadeSweeping ==
  ASSUME NEW s, Base(s), KindOK, NEW t, NEW o, NEW th, Made(s, t, o, th), Sweeping(s)
  PROVE  Sweeping(t)
<1>1. s \in StateType /\ Lists(s) /\ s.allgc \in Seq(Objects) /\ IsInjective(s.allgc)
  BY DEF Base, StateType, Lists
<1>2. /\ o \in Objects /\ t.color[o] = "white" /\ o \notin InUse(s) /\ s.age[o] = "new"
      /\ \A x \in Objects : x # o => t.color[x] = s.color[x]
      /\ t.age = s.age /\ t.finobj = s.finobj /\ t.tobefnz = s.tobefnz
      /\ t.gcstate = s.gcstate /\ t.sweepgc = s.sweepgc
  BY MadeBase
<1>3. t.allgc = <<o>> \o s.allgc /\ o \notin In(s.allgc)
  BY <1>1, <1>2 DEF Made, Lists
<1>4. In(t.allgc) = {o} \cup In(s.allgc)
      /\ \A p \in Pointers(s.allgc) : /\ p \in Pointers(t.allgc)
                                      /\ In(Prefix(t.allgc, p)) \subseteq {o} \cup In(Prefix(s.allgc, p))
  BY <1>1, <1>2, <1>3, PushFrom
<1>5. ASSUME NEW S, NEW S1, Fresh(s, S), S1 \subseteq S \cup {o}, S \subseteq Objects PROVE Fresh(t, S1)
  BY <1>2, <1>5 DEF Fresh
<1>6. Cur(t) = Cur(s) /\ Passed(t) \subseteq Passed(s) \cup {o}
  BY <1>2, <1>4 DEF Cur, Passed
<1>7. /\ In(t[Cur(t)]) \subseteq In(s[Cur(s)]) \cup {o}
      /\ \A p \in Pointers(s[Cur(s)]) : /\ p \in Pointers(t[Cur(t)])
                                        /\ In(Prefix(t[Cur(t)], p)) \subseteq In(Prefix(s[Cur(s)], p)) \cup {o}
  <2>1. CASE s.gcstate = "swpallgc"
    BY <1>2, <1>4, <1>6, <2>1 DEF Cur
  <2>2. CASE s.gcstate # "swpallgc"
    <3>1. t[Cur(t)] = s[Cur(s)]
      BY <1>2, <1>6, <2>2 DEF Cur
    <3> QED BY <3>1
  <2> QED BY <2>1, <2>2
<1>8. Passed(s) \subseteq Objects /\ s[Cur(s)] \in Seq(Objects) /\ IsInjective(s[Cur(s)])
  <2>1. Passed(s) \subseteq InUse(s) /\ InUse(s) \subseteq Objects
    BY <1>1 DEF Passed, Lists, InUse
  <2> QED BY <2>1, CurIs
<1>9. In(s[Cur(s)]) \subseteq Objects
  BY <1>8, InType
<1>10. s.sweepgc.after \in Pointers(s[Cur(s)]) => In(Prefix(s[Cur(s)], s.sweepgc.after)) \subseteq Objects
  BY <1>8, RestIs, InType
<1>11. Cursor(s) => Cursor(t)
  <2> SUFFICES ASSUME Cursor(s) PROVE Cursor(t)
    OBVIOUS
  <2>1. /\ s.sweepgc.after \in Pointers(s[Cur(s)]) /\ s.sweepgc.list = Cur(s)
        /\ Fresh(s, In(Prefix(s[Cur(s)], s.sweepgc.after)))
    BY DEF Cursor
  <2>2. Fresh(t, In(Prefix(t[Cur(t)], s.sweepgc.after)))
    BY <1>5, <1>7, <1>10, <2>1
  <2> QED BY <1>2, <1>6, <1>7, <2>1, <2>2 DEF Cursor
<1>12. Fresh(t, Passed(t))
  BY <1>5, <1>6, <1>8 DEF Sweeping
<1>13. Fresh(s, In(s[Cur(s)])) => Fresh(t, In(t[Cur(t)]))
  BY <1>5, <1>7, <1>9
<1> QED BY <1>2, <1>11, <1>12, <1>13 DEF Sweeping

\* luaC_newobj keeps the invariant.
LEMMA MadeInv ==
  ASSUME NEW s, Runs(s), KindOK, NEW t, NEW o, NEW th, Made(s, t, o, th)
  PROVE  Stepped(s, t)
<1>1. Base(s) /\ s.gcstate # "atomic" /\ s \in StateType
  BY DEF Runs, Inv, Base
<1>2. /\ Base(t) /\ InUse(t) = InUse(s) \cup {o} /\ Marked(t) = Marked(s)
      /\ o \notin InUse(s) /\ o \in Objects /\ t.color[o] = "white" /\ s.age[o] = "new"
      /\ \A x \in Objects : x # o => t.color[x] = s.color[x] /\ t.open[x] = s.open[x]
      /\ \A x \in Objects : x # o /\ kind[x] # "thread" => Refs(t, x) = Refs(s, x)
      /\ t.age = s.age /\ t.finobj = s.finobj
      /\ t.survival = s.survival /\ t.old1 = s.old1 /\ t.reallyold = s.reallyold
      /\ t.firstold1 = s.firstold1 /\ t.finobjsur = s.finobjsur
      /\ t.finobjold1 = s.finobjold1 /\ t.finobjrold = s.finobjrold
      /\ t.gcstate = s.gcstate /\ t.gckind = s.gckind /\ t.sweepgc = s.sweepgc
      /\ t.infin = s.infin
  BY <1>1, MadeBase
<1>3. \A X : Ready(s, X) => Ready(t, X)
  BY <1>1, MadeReady
<1>4. Sweeping(s) => Sweeping(t)
  BY <1>1, MadeSweeping
<1>5. Fresh(s, InUse(s)) => Fresh(t, InUse(t))
  BY <1>2 DEF Fresh, InUse
<1>6. IncInv(s) => IncInv(t)
  BY <1>1, <1>2, <1>3, <1>4, <1>5 DEF IncInv
<1>7. ASSUME GenInv(s) PROVE GenInv(t)
  <2>1. BlackOld1(t) = BlackOld1(s)
    BY <1>2 DEF BlackOld1, IsBlack
  <2>2. ASSUME NEW x \in Objects PROVE AgesOf(t, x)
    <3>1. AgesOf(s, x)
      BY <1>7 DEF GenInv, GenAges
    <3>2. \A y : IsOld(t, y) <=> IsOld(s, y)
      BY <1>2 DEF IsOld
    <3>3. CASE x = o
      <4>1. ~IsOld(t, x) /\ x \notin Marked(t) /\ t.age[x] = "new" /\ ~IsGray(t, x)
        BY <1>2, <3>3 DEF IsOld, Marked, IsGray
      <4> QED BY <4>1 DEF AgesOf
    <3>4. CASE x # o
      <4>1. t.color[x] = s.color[x] /\ t.open[x] = s.open[x] /\ (kind[x] # "thread" => Refs(t, x) = Refs(s, x))
        BY <1>2, <3>4
      <4> QED BY <1>2, <3>1, <3>2, <4>1 DEF AgesOf, IsGray
    <3> QED BY <3>3, <3>4
  <2>3. GenLists(t)
    <3>1. s.allgc \in Seq(Objects) /\ IsInjective(s.allgc) /\ o \notin In(s.allgc)
      BY <1>1, <1>2 DEF Base, StateType, Lists
    <3>2. t.allgc = <<o>> \o s.allgc
      BY DEF Made
    <3>3. /\ In(t.allgc) = {o} \cup In(s.allgc)
          /\ \A p \in Pointers(s.allgc) : p \in Pointers(t.allgc) /\ From(t.allgc, p) = From(s.allgc, p)
          /\ \A p, q, r : Divided(s.allgc, p, q, r) => Divided(t.allgc, p, q, r)
      BY <1>2, <3>1, <3>2, PushFrom
    <3>4. GenLists(s)
      BY <1>7 DEF GenInv
    <3>5. s.survival \in Pointers(s.allgc) /\ s.old1 \in Pointers(s.allgc) /\ s.firstold1 \in Pointers(s.allgc)
      BY <3>1, <3>4, FromSubset DEF GenLists, Divided
    <3>6. s.reallyold \in Pointers(s.allgc)
      <4>1. In(From(s.allgc, s.old1)) \subseteq In(From(s.allgc, s.survival))
            /\ In(From(s.allgc, s.survival)) \subseteq In(s.allgc)
        BY <3>1, <3>4, FromSubset DEF GenLists
      <4> QED BY <3>4, <4>1 DEF GenLists, Divided, Pointers
    <3>7. /\ From(t.allgc, s.survival) = From(s.allgc, s.survival) /\ From(t.allgc, s.old1) = From(s.allgc, s.old1)
          /\ From(t.allgc, s.firstold1) = From(s.allgc, s.firstold1)
          /\ From(t.allgc, s.reallyold) = From(s.allgc, s.reallyold)
          /\ s.firstold1 \in Pointers(t.allgc)
      BY <3>3, <3>5, <3>6
    <3> QED BY <1>2, <3>3, <3>4, <3>7 DEF GenLists, AgedFrom
  <2> QED BY <1>2, <1>3, <1>7, <2>1, <2>2, <2>3 DEF GenInv, GenAges
<1> QED BY <1>1, <1>2, <1>6, <1>7 DEF Stepped, Runs, Inv

(* The upvalue u is closed, and has colour c after.  *)
Shut(s, u, v, c) == [s EXCEPT !.val[u] = v, !.open[u] = NULL, !.color[u] = c]

MayShut(s, u, v, c) ==
  \/ c = s.color[u] /\ c = "white"
  \/ IsGray(s, u) /\ c = "black" /\ (v = NULL \/ ~IsWhite(s, v))
  \/ IsGray(s, u) /\ c \in {"white", "black"} /\ s.gcstate \in SweepStates

\* Closing an upvalue keeps the structure of the heap: it holds what it referred to.
LEMMA ShutBase ==
  ASSUME NEW s, Base(s), KindOK, NEW u \in Live(s), s.open[u] # NULL, NEW v, v = UpvalValue(s, u),
         NEW c, MayShut(s, u, v, c)
  PROVE  LET t == Shut(s, u, v, c)
         IN  /\ Base(t) /\ Same(s, t, {"val", "open", "color"}) /\ Live(t) = Live(s) /\ InUse(t) = InUse(s)
             /\ \A x \in Objects : Refs(t, x) \subseteq Refs(s, x)
             /\ \A x \in Objects : x # u => t.open[x] = s.open[x] /\ t.color[x] = s.color[x]
             /\ t.color[u] = c /\ t.open[u] = NULL /\ Refs(t, u) = {v} \ {NULL} /\ kind[u] = "upval"
             /\ v \in OrNull(Objects)
<1> DEFINE t == Shut(s, u, v, c)
           th == s.open[u]
<1>1. s \in StateType /\ Lists(s) /\ Shape(s) /\ Closed(s) /\ u \in Objects
  BY DEF Base, Live
<1>2. /\ kind[u] = "upval" /\ kind[th] = "thread" /\ th \in Objects /\ th # u /\ v = s.val[th]
      /\ v \in OrNull(Proper) /\ v \in OrNull(Objects)
  BY <1>1 DEF Shape, ShapeOf, StateType, OrNull, Proper, UpvalValue
<1>3. c \in {"white", "gray", "black"} /\ c \in Colors
  BY DEF MayShut, Colors
<1>4. /\ t \in StateType /\ Same(s, t, {"val", "open", "color"})
      /\ t.val = [s.val EXCEPT ![u] = v] /\ t.open = [s.open EXCEPT ![u] = NULL]
      /\ t.color = [s.color EXCEPT ![u] = c]
  BY <1>1, <1>2, <1>3 DEF Shut, StateType, Same, Fields, OrNull
<1> HIDE DEF t, th
<1>5. \A x \in Objects : /\ t.val[x] = IF x = u THEN v ELSE s.val[x]
                         /\ t.open[x] = IF x = u THEN NULL ELSE s.open[x]
                         /\ t.color[x] = IF x = u THEN c ELSE s.color[x]
  BY <1>1, <1>4 DEF StateType
<1>6. /\ t.age = s.age /\ t.key = s.key /\ t.stack = s.stack /\ t.twups = s.twups
      /\ t.allgc = s.allgc /\ t.finobj = s.finobj /\ t.tobefnz = s.tobefnz
  BY <1>4 DEF Same, Fields
<1>7. Live(t) = Live(s) /\ InUse(t) = InUse(s)
  BY <1>1, <1>3, <1>5 DEF Live, InUse
<1>8. \A x \in Objects : s.open[x] # u
  BY <1>1, <1>2, Null DEF Shape, ShapeOf
<1>9. ASSUME NEW x \in Objects PROVE UpvalValue(t, x) = UpvalValue(s, x)
  <2>1. s.open[x] # NULL => s.open[x] \in Objects
    BY <1>1 DEF StateType, OrNull, Proper
  <2> QED BY <1>5, <1>8, <2>1 DEF UpvalValue
<1>10. OpenUpvals(t, th) \subseteq OpenUpvals(s, th) /\ \A x \in Objects : OpenUpvals(t, x) \subseteq OpenUpvals(s, x)
  BY <1>2, <1>5, Null DEF OpenUpvals
<1>11. ASSUME NEW x \in Objects PROVE Refs(t, x) \subseteq Refs(s, x)
  <2>1. CASE kind[x] = "upval"
    BY <1>9, <2>1, RefsUpval
  <2>2. CASE kind[x] = "thread"
    <3>1. x # u
      BY <1>2, <2>2
    <3>2. Stack(t, x) = Stack(s, x)
      BY <1>5, <1>6, <3>1 DEF Stack
    <3> QED BY <1>10, <2>2, <3>2, RefsThread
  <2>3. CASE kind[x] # "upval" /\ kind[x] # "thread"
    <3>1. x # u
      BY <1>2, <2>3
    <3> QED BY <1>5, <1>6, <2>3, <3>1, RefsOther
  <2> QED BY <2>1, <2>2, <2>3
<1>12. Refs(t, u) = {v} \ {NULL}
  BY ZenonT(40), <1>1, <1>2, <1>9, RefsUpval
<1>13. ASSUME NEW x \in Objects PROVE ShapeOf(t, x)
  <2>1. ShapeOf(s, x) /\ ShapeOf(s, th)
    BY <1>1, <1>2 DEF Shape
  <2>2. u \in InUse(t)
    BY <1>1, <1>7 DEF Live, InUse
  <2>3. CASE x = u
    <3>1. v # NULL => kind[v] # "upval"
      BY <1>2, <2>1 DEF ShapeOf
    <3> QED BY <1>2, <1>5, <1>6, <2>1, <2>2, <2>3, <3>1 DEF ShapeOf
  <2>4. CASE x # u
    BY <1>5, <1>6, <1>7, <2>1, <2>4 DEF ShapeOf
  <2> QED BY <2>3, <2>4
<1>14. Shape(t)
  <2>1. \A x, y \in Objects : t.open[x] # NULL /\ t.open[x] = t.open[y] => x = y
    BY <1>1, <1>5 DEF Shape
  <2> QED BY <1>1, <1>6, <1>13, <2>1 DEF Shape
<1>15. Closed(t)
  <2>1. ASSUME NEW x \in Objects
        PROVE  /\ x \in Live(t) => Refs(t, x) \subseteq Live(t)
               /\ t.open[x] \in Live(t) => t.open[x] \in t.twups
    <3>1. NULL \notin Live(t)
      BY Null DEF Live
    <3> QED BY <1>1, <1>5, <1>6, <1>7, <1>11, <3>1 DEF Closed
  <2> QED BY <1>1, <1>6, <1>7, <2>1 DEF Closed
<1>16. Lists(t)
  BY <1>1, <1>6, <1>7 DEF Lists
<1> QED BY <1>1, <1>2, <1>4, <1>5, <1>7, <1>11, <1>12, <1>14, <1>15, <1>16 DEF Base, t

\* Closing an upvalue keeps the trace, as it is black only if its value is marked.
LEMMA ShutReady ==
  ASSUME NEW s, Base(s), KindOK, NEW u \in Live(s), s.open[u] # NULL, NEW v, v = UpvalValue(s, u),
         NEW c, MayShut(s, u, v, c), s.gcstate \notin SweepStates, NEW X, Ready(s, X)
  PROVE  Ready(Shut(s, u, v, c), X)
<1> DEFINE t == Shut(s, u, v, c)
<1>1. s \in StateType /\ Shape(s) /\ Trace(s, X, FALSE) /\ u \in Objects
  BY DEF Base, Ready, Live
<1>2. /\ Same(s, t, {"val", "open", "color"})
      /\ \A x \in Objects : Refs(t, x) \subseteq Refs(s, x)
      /\ \A x \in Objects : x # u => t.open[x] = s.open[x] /\ t.color[x] = s.color[x]
      /\ t.color[u] = c /\ t.open[u] = NULL /\ Refs(t, u) = {v} \ {NULL} /\ kind[u] = "upval"
      /\ v \in OrNull(Objects)
  BY ShutBase
<1> HIDE DEF t
<1>3. /\ t.age = s.age /\ t.gray = s.gray /\ t.grayagain = s.grayagain
      /\ t.weak = s.weak /\ t.allweak = s.allweak /\ t.ephemeron = s.ephemeron
      /\ t.gcstate = s.gcstate /\ t.sweepgc = s.sweepgc /\ t.twups = s.twups
      /\ Pending(t) = Pending(s) /\ Later(t) = Later(s)
  BY <1>2 DEF Same, Fields, Pending, Later
<1>4. \/ c = s.color[u] /\ c = "white"
      \/ IsGray(s, u) /\ c = "black" /\ (v = NULL \/ ~IsWhite(s, v))
  BY DEF MayShut
<1>5. Marked(t) = Marked(s) /\ \A x \in Objects : IsWhite(t, x) <=> IsWhite(s, x)
  BY <1>1, <1>2, <1>4 DEF Marked, IsWhite, IsGray
<1>6. \A x \in Objects : Refs(s, x) \subseteq Objects
  BY <1>1, RefsType
<1>7. ASSUME NEW x \in Objects PROVE TraceOf(t, X, FALSE, x)
  <2>1. TraceOf(s, X, FALSE, x)
    BY <1>1 DEF Trace
  <2>2. CASE x = u
    <3>1. x \in Marked(t) => Full(t, x)
      BY <1>1, <1>2, <1>4, <1>5, <2>2 DEF Full, Marked, OrNull
    <3>2. ~IsGray(t, x)
      BY <1>2, <1>4, <2>2 DEF IsGray
    <3> QED BY <1>2, <1>3, <1>5, <2>1, <2>2, <3>1, <3>2 DEF TraceOf, Visited
  <2>3. CASE x # u
    <3>1. Full(s, x) => Full(t, x)
      BY <1>2, <1>5, <1>6 DEF Full
    <3>2. s.weak = {} /\ s.allweak = {} /\ s.ephemeron = {}
      BY DEF Ready
    <3>3. Visited(s, x, FALSE) => Visited(t, x, FALSE)
      BY <1>2, <2>3, <3>1, <3>2 DEF Visited
    <3>4. t.open[x] = s.open[x] /\ t.color[x] = s.color[x]
      BY <1>2, <2>3
    <3> QED BY <1>3, <1>5, <2>1, <3>3, <3>4 DEF TraceOf, IsGray, IsOld, IsBlack
  <2> QED BY <2>2, <2>3
<1>8. Trace(t, X, FALSE)
  BY <1>1, <1>3, <1>5, <1>7 DEF Trace
<1>9. NoDead(t)
  BY <1>2, <1>4 DEF NoDead, Ready
<1> QED BY <1>3, <1>5, <1>8, <1>9 DEF Ready, t

\* Closing an upvalue whose value is marked, or white as itself, or during the sweep.
LEMMA ShutInv ==
  ASSUME NEW s, Runs(s), KindOK, NEW u \in Live(s), s.open[u] # NULL, NEW v, v = UpvalValue(s, u),
         NEW c, MayShut(s, u, v, c)
  PROVE  LET t == Shut(s, u, v, c) IN Stepped(s, t) /\ Live(t) = Live(s) /\ t.stack = s.stack
<1> DEFINE t == Shut(s, u, v, c)
<1>1. Base(s) /\ s \in StateType /\ u \in Objects /\ s.gcstate # "atomic" /\ Lists(s)
  BY DEF Runs, Inv, Base, Live
<1>2. /\ Base(t) /\ Same(s, t, {"val", "open", "color"}) /\ Live(t) = Live(s) /\ InUse(t) = InUse(s)
      /\ \A x \in Objects : Refs(t, x) \subseteq Refs(s, x)
      /\ \A x \in Objects : x # u => t.open[x] = s.open[x] /\ t.color[x] = s.color[x]
      /\ t.color[u] = c /\ t.open[u] = NULL /\ Refs(t, u) = {v} \ {NULL} /\ kind[u] = "upval"
      /\ v \in OrNull(Objects)
  BY <1>1, ShutBase
<1>3. s.gcstate \notin SweepStates => \A X : Ready(s, X) => Ready(t, X)
  BY <1>1, ShutReady
<1> HIDE DEF t
<1>4. /\ t.age = s.age /\ t.allgc = s.allgc /\ t.finobj = s.finobj /\ t.tobefnz = s.tobefnz
      /\ t.survival = s.survival /\ t.old1 = s.old1 /\ t.reallyold = s.reallyold
      /\ t.firstold1 = s.firstold1 /\ t.finobjsur = s.finobjsur
      /\ t.finobjold1 = s.finobjold1 /\ t.finobjrold = s.finobjrold
      /\ t.gcstate = s.gcstate /\ t.gckind = s.gckind /\ t.sweepgc = s.sweepgc
      /\ t.infin = s.infin /\ t.stack = s.stack
  BY <1>2 DEF Same, Fields
<1>5. ASSUME NEW S, S \subseteq Objects, Fresh(s, S) PROVE Fresh(t, S)
  <2>1. u \in S => c = "white"
    BY <1>5 DEF Fresh, MayShut, IsGray
  <2> QED BY <1>2, <1>4, <1>5, <2>1 DEF Fresh
<1>6. Sweeping(s) => Sweeping(t)
  <2>1. Cur(t) = Cur(s) /\ Passed(t) = Passed(s)
    BY <1>4 DEF Cur, Passed
  <2>2. t[Cur(t)] = s[Cur(s)]
    BY <1>4, <2>1 DEF Cur
  <2>3. Passed(s) \subseteq Objects /\ s[Cur(s)] \in Seq(Objects) /\ IsInjective(s[Cur(s)])
    <3>1. Passed(s) \subseteq InUse(s) /\ InUse(s) \subseteq Objects
      BY <1>1 DEF Passed, Lists, InUse
    <3> QED BY <1>1, <3>1, CurIs
  <2>4. In(s[Cur(s)]) \subseteq Objects
    BY <2>3, InType
  <2>5. s.sweepgc.after \in Pointers(s[Cur(s)]) => In(Prefix(s[Cur(s)], s.sweepgc.after)) \subseteq Objects
    BY <2>3, RestIs, InType
  <2>6. Cursor(s) => Cursor(t)
    BY <1>4, <1>5, <2>1, <2>2, <2>5 DEF Cursor
  <2> QED BY <1>4, <1>5, <2>1, <2>2, <2>3, <2>4, <2>6 DEF Sweeping
<1>7. Fresh(s, InUse(s)) => Fresh(t, InUse(t))
  BY <1>2, <1>5 DEF InUse
<1>8. IncInv(s) => IncInv(t)
  <2>1. s.gcstate \in Marking => s.gcstate \notin SweepStates
    BY DEF Marking, SweepStates
  <2> QED BY <1>1, <1>3, <1>4, <1>6, <1>7, <2>1 DEF IncInv
<1>9. ASSUME GenInv(s) PROVE GenInv(t)
  <2>1. s.gcstate \notin SweepStates
    BY <1>9 DEF GenInv, SweepStates
  <2>2. \/ c = s.color[u] /\ c = "white"
        \/ IsGray(s, u) /\ c = "black" /\ (v = NULL \/ ~IsWhite(s, v))
    BY <2>1 DEF MayShut
  <2>3. Ready(t, BlackOld1(t))
    <3>1. Ready(t, BlackOld1(s))
      BY <1>3, <1>9, <2>1 DEF GenInv
    <3>2. BlackOld1(s) \subseteq BlackOld1(t) /\ BlackOld1(t) \subseteq Marked(t)
      BY <1>2, <1>4, <2>2 DEF BlackOld1, IsBlack, IsGray, Marked
    <3>3. t \in StateType
      BY <1>2 DEF Base
    <3>4. Trace(t, BlackOld1(t), FALSE)
      BY <3>1, <3>2, <3>3, TraceMore DEF Ready
    <3> QED BY <3>1, <3>4 DEF Ready
  <2>4. GenLists(t)
    BY <1>4, <1>9, GenListsSame DEF GenInv
  <2>5. Marked(t) = Marked(s)
    BY <1>1, <1>2, <2>2 DEF Marked, IsGray
  <2>6. ASSUME NEW x \in Objects PROVE AgesOf(t, x)
    <3>1. AgesOf(s, x)
      BY <1>9 DEF GenInv, GenAges
    <3>2. \A y : IsOld(t, y) <=> IsOld(s, y)
      BY <1>4 DEF IsOld
    <3>3. CASE x = u
      <4>1. v # NULL /\ IsOld(s, u) => IsOld(s, v) /\ s.age[v] # "new"
        <5> SUFFICES ASSUME v # NULL, IsOld(s, u) PROVE IsOld(s, v) /\ s.age[v] # "new"
          OBVIOUS
        <5>1. u \in Marked(s)
          BY <3>1, <3>3 DEF AgesOf
        <5>2. IsGray(s, u) /\ ~IsWhite(s, v) /\ v \in Objects
          BY <1>2, <2>2, <5>1 DEF Marked, OrNull
        <5>3. v \in Live(s)
          BY <1>1, <1>2 DEF Base, Closed
        <5>4. v \in Marked(s)
          BY <5>2, <5>3 DEF Live, Marked, IsWhite
        <5>5. IsOld(s, v)
          BY <1>9, <5>2, <5>4 DEF GenInv, GenAges, AgesOf
        <5> QED BY <5>5 DEF IsOld
      <4>2. ~IsGray(t, x)
        BY <1>2, <2>2, <3>3 DEF IsGray
      <4>3. s.age[u] \in {"old", "old1", "touched2"} => IsOld(s, u)
        BY DEF IsOld
      <4> QED BY <1>2, <1>4, <2>5, <3>1, <3>2, <3>3, <4>1, <4>2, <4>3 DEF AgesOf
    <3>4. CASE x # u
      <4>1. t.color[x] = s.color[x] /\ t.open[x] = s.open[x] /\ Refs(t, x) \subseteq Refs(s, x)
        BY <1>2, <3>4
      <4> QED BY <1>4, <2>5, <3>1, <3>2, <4>1 DEF AgesOf, IsGray
    <3> QED BY <3>3, <3>4
  <2> QED BY <1>3, <1>4, <1>9, <2>1, <2>3, <2>4, <2>6 DEF GenInv, GenAges
<1> QED BY <1>1, <1>2, <1>4, <1>8, <1>9 DEF Stepped, Runs, Inv, t

\* Marking the value of an upvalue that is closed, before or after it is.
LEMMA ShutMark ==
  ASSUME NEW s \in StateType, KindOK, Shape(s), NEW v \in Proper, NEW u \in Objects, kind[v] # "upval",
         u # v, ~IsWhite(s, u)
  PROVE  ReallyMark(Shut(s, u, v, "black"), {v}) = Shut(ReallyMark(s, {v}), u, v, "black")
<1> DEFINE p == Shut(s, u, v, "black")
           S == {v}
           C == Painted(s, S)
           G == Greyed(s, S)
           A == [s.val EXCEPT ![u] = v]
           B == [s.open EXCEPT ![u] = NULL]
           C0 == [s.color EXCEPT ![u] = "black"]
           C2 == [C EXCEPT ![u] = "black"]
<1>1. p = [s EXCEPT !.val = A, !.open = B, !.color = C0]
  BY DEF Shut, StateType
<1>2. p.gray = s.gray /\ p.color = C0 /\ p.val = A /\ p.open = B
  BY <1>1 DEF StateType
<1>3. /\ \A x \in Objects : x # u => A[x] = s.val[x] /\ B[x] = s.open[x] /\ C0[x] = s.color[x]
      /\ C0[u] = "black"
  BY DEF StateType
<1>4. v \in Objects /\ S \in SUBSET Objects
  BY DEF Proper
<1> HIDE DEF A, B, C0, p
<1>5. \A x \in Objects : IsWhite(p, x) <=> IsWhite(s, x)
  BY <1>2, <1>3 DEF IsWhite
<1>6. WithHeld(s, S, "upval") = S
  BY DEF WithHeld
<1>7. AlikeIn(p, s, S)
  <2> SUFFICES ASSUME kind[v] = "bareudata"
               PROVE  /\ UpvalValue(p, v) = UpvalValue(s, v)
                      /\ UpvalValue(s, v) # NULL => (IsWhite(p, UpvalValue(s, v)) <=> IsWhite(s, UpvalValue(s, v)))
    BY DEF AlikeIn
  <2>1. s.open[v] = NULL
    BY <1>4 DEF Shape, ShapeOf
  <2>2. UpvalValue(s, v) \in OrNull(Objects)
    BY <1>4, RefsType DEF OrNull, Proper
  <2> QED BY <1>2, <1>3, <1>4, <1>5, <2>1, <2>2 DEF UpvalValue, OrNull
<1>8. Struck0(p, S) = Struck0(s, S) /\ Greyed(p, S) = G
  BY <1>2, <1>6, <1>7, ReallyMarkAlike
<1>9. Struck0(s, S) = Struck(s, S)
  <2> HIDE DEF S
  <2>1. WithHeld(s, S, "upval") = HeldBy(s, S, "upval") /\ HeldBy(s, S, "upval") \in SUBSET Objects
    BY <1>4, HeldIs
  <2> QED BY <2>1, HeldIs DEF Struck0, Struck
<1>10. u \notin Struck0(s, S)
  <2>1. u \notin S
    OBVIOUS
  <2> HIDE DEF S
  <2> QED BY <1>4, <1>9, <2>1, StruckIs
<1>11. Painted(p, S) = C2
  <2>1. \A x \in Objects : x # u => (Done(p, x) <=> Done(s, x))
    BY <1>2, <1>3 DEF Done
  <2>2. Painted(p, S) = [x \in Objects |-> IF x \notin Struck0(s, S) THEN C0[x]
                                          ELSE IF Done(p, x) THEN "black" ELSE "gray"]
    BY <1>2, <1>8 DEF Painted
  <2>3. C2 = [x \in Objects |-> IF x = u THEN "black" ELSE C[x]]
    BY DEF Painted
  <2>4. \A x \in Objects : Painted(p, S)[x] = C2[x]
    <3> HIDE DEF S
    <3> QED BY <1>3, <1>10, <2>1, <2>2, <2>3 DEF Painted
  <2> HIDE DEF C2, S
  <2> QED BY <2>2, <2>3, <2>4
<1>12. ReallyMark(p, S) = [p EXCEPT !.color = Painted(p, S), !.gray = Greyed(p, S)]
       /\ ReallyMark(s, S) = [s EXCEPT !.color = C, !.gray = G]
  BY ReallyMarkFields
<1>13. ReallyMark(p, S) = [p EXCEPT !.color = C2, !.gray = G]
  BY <1>8, <1>11, <1>12
<1> DEFINE q == [s EXCEPT !.color = C, !.gray = G]
<1> HIDE DEF S, C, G, C2
<1>14. q.val = s.val /\ q.open = s.open /\ q.color = C
  BY DEF StateType
<1>15. Shut(q, u, v, "black") = [q EXCEPT !.val = A, !.open = B, !.color = C2]
  BY <1>14 DEF Shut, A, B, C2
<1>16. [p EXCEPT !.color = C2, !.gray = G] = [q EXCEPT !.val = A, !.open = B, !.color = C2]
  BY <1>1 DEF StateType
<1>17. ReallyMark(p, S) = Shut(ReallyMark(s, S), u, v, "black")
  BY <1>12, <1>13, <1>15, <1>16
<1> QED BY <1>17 DEF p, S

\* So with the age that the barrier gives it.
LEMMA ShutAge ==
  ASSUME NEW s \in StateType, NEW v \in Proper, NEW u \in Objects, u # v
  PROVE  SetAge(Shut(s, u, v, "black"), v, "old0") = Shut(SetAge(s, v, "old0"), u, v, "black")
  BY DEF SetAge, Shut, StateType

(* Marking the value of an upvalue that is closed, as the barrier of the collector's mode does.  *)
LEMMA MarkedInv ==
  ASSUME NEW s, Runs(s), KindOK, KeepInvariant(s), NEW u \in Marked(s), NEW v \in Live(s), IsWhite(s, v),
         s.gckind = "genminor" => Alone(s, v)
  PROVE  LET q == IF IsOld(s, u) THEN SetAge(ReallyMark(s, {v}), v, "old0") ELSE ReallyMark(s, {v})
         IN  /\ Stepped(s, q) /\ Live(q) = Live(s) /\ ~IsWhite(q, v) /\ Same(s, q, {"color", "gray", "age"})
             /\ q.color[u] = s.color[u]
<1> DEFINE r == ReallyMark(s, {v})
           t == SetAge(r, v, "old0")
           q == IF IsOld(s, u) THEN t ELSE r
<1>1. Base(s) /\ s \in StateType /\ s.gcstate # "atomic" /\ v \in Objects /\ u \in Objects
  BY DEF Runs, Inv, Base, Live, Marked
<1>4. u # v /\ ~IsWhite(s, u)
  BY DEF Marked, IsWhite
<1>2. CASE IncInv(s)
  <2>1. s.gcstate \in Marking
    BY <1>1 DEF KeepInvariant, Marking
  <2>2. Ready(s, {}) /\ ~IsOld(s, u)
    BY <1>1, <1>2, <2>1 DEF IncInv, IsOld
  <2>3. /\ Base(r) /\ Ready(r, {}) /\ Live(r) = Live(s) /\ InUse(r) = InUse(s)
        /\ Same(s, r, {"color", "gray"}) /\ ~IsWhite(r, v)
        /\ r.color[u] = s.color[u]
    BY <1>1, <1>4, <2>2, ReallyMarkReady
  <2> HIDE DEF r
  <2>4. /\ r.age = s.age /\ r.gcstate = s.gcstate /\ r.gckind = s.gckind /\ r.sweepgc = s.sweepgc
        /\ r.finobjsur = s.finobjsur /\ r.finobjold1 = s.finobjold1 /\ r.finobjrold = s.finobjrold
        /\ r.infin = s.infin
    BY <2>3 DEF Same, Fields
  <2>5. IncInv(r)
    <3>1. s.gcstate \notin SweepStates /\ s.gcstate \notin Resting
      BY <2>1 DEF Marking, SweepStates, Resting
    <3> QED BY <1>1, <1>2, <2>3, <2>4, <3>1 DEF IncInv
  <2>6. Same(s, r, {"color", "gray", "age"}) /\ q = r
    BY <2>2, <2>3 DEF Same
  <2>7. Stepped(s, r)
    BY <1>1, <2>3, <2>4, <2>5 DEF Stepped, Runs, Inv
  <2> HIDE DEF q
  <2> QED BY <2>3, <2>6, <2>7 DEF q, r
<1>3. CASE GenInv(s)
  <2>1. IsOld(s, u) /\ q = t
    BY <1>1, <1>3 DEF GenInv, GenAges, AgesOf
  <2>2. /\ Runs(t) /\ Live(t) = Live(s) /\ ~IsWhite(t, v) /\ Same(s, t, {"color", "gray", "age"})
    <3>1. Alone(s, v)
      BY <1>3 DEF GenInv
    <3> QED BY <1>3, <3>1, Old0Gen
  <2>3. t.color[u] = s.color[u]
    <3>0. Ready(s, BlackOld1(s))
      BY <1>3 DEF GenInv
    <3>1. r \in StateType /\ r.color[u] = s.color[u]
      BY <1>1, <1>4, <3>0, ReallyMarkReady DEF Base
    <3> HIDE DEF r
    <3> QED BY <3>1 DEF SetAge, StateType
  <2> HIDE DEF t, q
  <2>4. Stepped(s, t)
    BY <2>2 DEF Same, Fields, Stepped
  <2> QED BY <2>1, <2>2, <2>3, <2>4 DEF q, t
<1> QED BY <1>2, <1>3 DEF Runs, Inv

\* Painting an upvalue that was just closed.
LEMMA ShutPaint ==
  ASSUME NEW s \in StateType, NEW u \in Objects, NEW v, NEW c, NEW d
  PROVE  Paint(Shut(s, u, v, c), u, d) = Shut(s, u, v, d)
<1> DEFINE p == Shut(s, u, v, c)
           A == [s.val EXCEPT ![u] = v]
           B == [s.open EXCEPT ![u] = NULL]
           C == [s.color EXCEPT ![u] = c]
           D == [s.color EXCEPT ![u] = d]
<1>1. /\ p = [s EXCEPT !.val = A, !.open = B, !.color = C]
      /\ Shut(s, u, v, d) = [s EXCEPT !.val = A, !.open = B, !.color = D]
  BY DEF Shut
<1>2. [C EXCEPT ![u] = d] = D
  BY DEF StateType
<1> HIDE DEF p, A, B, C, D
<1>3. p.color = C
  BY <1>1 DEF StateType
<1>4. Paint(p, u, d) = [p EXCEPT !.color = D]
  BY <1>2, <1>3 DEF Paint
<1>5. [p EXCEPT !.color = D] = [s EXCEPT !.val = A, !.open = B, !.color = D]
  BY <1>1 DEF StateType
<1> QED BY <1>1, <1>4, <1>5 DEF p

\* May u be closed?
ClosesAlone(s, u) ==
  UpvalValue(s, u) # NULL /\ kind[UpvalValue(s, u)] \in {"upval", "bareudata"}
    => Joins(s, u, UpvalValue(s, u))

\* luaF_closethread for one upvalue keeps the invariant.
LEMMA CloseUpvalInv ==
  ASSUME NEW s, Runs(s), KindOK, NEW u \in Live(s), s.open[u] # NULL, s.open[u] \in Live(s),
         ClosesAlone(s, u)
  PROVE  LET t == CloseUpval(s, u) IN Stepped(s, t) /\ t.stack = s.stack
<1> DEFINE v == UpvalValue(s, u)
           t == [s EXCEPT !.val[u] = v, !.open[u] = NULL]
           p == Paint(t, u, "black")
           cu == CloseUpval(s, u)
           th == s.open[u]
<1>0. cu = IF IsWhite(t, u) THEN t ELSE Barrier(p, u, v)
  BY DEF CloseUpval
<1>1. Base(s) /\ s \in StateType /\ u \in Objects /\ s.gcstate # "atomic" /\ Shape(s) /\ Closed(s)
  BY DEF Runs, Inv, Base, Live
<1>2. /\ kind[u] = "upval" /\ kind[th] = "thread" /\ th \in Objects /\ v = s.val[th]
      /\ v \in OrNull(Proper) /\ s.color[u] # "black" /\ th # MainThread
  BY <1>1 DEF Shape, ShapeOf, StateType, OrNull, Proper, UpvalValue
<1>3. v # NULL => v \in Proper /\ v \in Objects /\ v \in Live(s) /\ kind[v] # "upval" /\ v # u
  <2>1. v # NULL => v \in Proper /\ v \in Objects /\ kind[v] # "upval"
    BY <1>1, <1>2 DEF Shape, ShapeOf, OrNull, Proper
  <2>2. v # NULL => v \in Refs(s, th)
    BY <1>2, RefsThread DEF Stack
  <2> QED BY <1>1, <1>2, <2>1, <2>2 DEF Closed
<1>4. t = Shut(s, u, v, s.color[u]) /\ p = Shut(s, u, v, "black")
  <2> HIDE DEF v
  <2>1. [s.color EXCEPT ![u] = s.color[u]] = s.color
    BY <1>1 DEF StateType
  <2>2. t = Shut(s, u, v, s.color[u])
    BY <2>1 DEF Shut
  <2>3. p = Paint(Shut(s, u, v, s.color[u]), u, "black")
    BY <2>2
  <2> QED BY <1>1, <2>2, <2>3, ShutPaint
<1>5. t.color = s.color
  BY <1>1 DEF StateType
<1>6. /\ p.color = [s.color EXCEPT ![u] = "black"] /\ p.gcstate = s.gcstate /\ p.gckind = s.gckind
      /\ p.age = s.age
  BY <1>1 DEF StateType, Paint
<1>7. IsWhite(t, u) <=> IsWhite(s, u)
  BY <1>5 DEF IsWhite
<1>8. IsBlack(p, u) /\ (v # NULL => (IsWhite(p, v) <=> IsWhite(s, v))) /\ (IsOld(p, u) <=> IsOld(s, u))
      /\ (KeepInvariant(p) <=> KeepInvariant(s))
  BY <1>1, <1>3, <1>6 DEF StateType, IsBlack, IsWhite, IsOld, KeepInvariant
<1> HIDE DEF t, p, v
<1>10. CASE IsWhite(s, u)
  <2>1. cu = Shut(s, u, v, s.color[u])
    BY <1>0, <1>4, <1>7, <1>10
  <2>2. MayShut(s, u, v, s.color[u])
    BY <1>10 DEF MayShut, IsWhite, Live
  <2> HIDE DEF cu
  <2>3. LET x == Shut(s, u, v, s.color[u]) IN Stepped(s, x) /\ x.stack = s.stack
    BY <2>2, ShutInv DEF v
  <2> QED BY <2>1, <2>3 DEF cu
<1>11. CASE ~IsWhite(s, u)
  <2>1. IsGray(s, u) /\ u \in Marked(s) /\ cu = Barrier(p, u, v)
    BY <1>0, <1>1, <1>2, <1>7, <1>11 DEF Live, IsWhite, IsGray, Marked
  <2>2. CASE v = NULL \/ ~IsWhite(s, v)
    <3>1. cu = Shut(s, u, v, "black")
      BY <1>4, <1>8, <2>1, <2>2 DEF Barrier
    <3>2. MayShut(s, u, v, "black")
      BY <2>1, <2>2 DEF MayShut
    <3> HIDE DEF cu
    <3>3. LET x == Shut(s, u, v, "black") IN Stepped(s, x) /\ x.stack = s.stack
      BY <3>2, ShutInv DEF v
    <3> QED BY <3>1, <3>3 DEF cu
  <2>3. CASE v # NULL /\ IsWhite(s, v) /\ KeepInvariant(s)
    <3> DEFINE q == IF IsOld(s, u) THEN SetAge(ReallyMark(s, {v}), v, "old0") ELSE ReallyMark(s, {v})
    <3>1. /\ Stepped(s, q) /\ Live(q) = Live(s) /\ ~IsWhite(q, v) /\ Same(s, q, {"color", "gray", "age"})
          /\ q.color[u] = s.color[u]
      <4>1. s.gckind = "genminor" => Alone(s, v)
        BY <2>1, <2>3 DEF ClosesAlone, v, Joins, Alone
      <4> HIDE DEF q
      <4>2. LET w == IF IsOld(s, u) THEN SetAge(ReallyMark(s, {v}), v, "old0") ELSE ReallyMark(s, {v})
            IN  /\ Stepped(s, w) /\ Live(w) = Live(s) /\ ~IsWhite(w, v) /\ Same(s, w, {"color", "gray", "age"})
                /\ w.color[u] = s.color[u]
        BY <1>3, <2>1, <2>3, <4>1, MarkedInv
      <4> QED BY <4>2 DEF q
    <3>2. cu = IF IsOld(s, u) THEN SetAge(ReallyMark(p, {v}), v, "old0") ELSE ReallyMark(p, {v})
      BY <1>8, <2>1, <2>3 DEF Barrier
    <3>3. ReallyMark(p, {v}) = Shut(ReallyMark(s, {v}), u, v, "black")
      BY <1>1, <1>3, <1>4, <1>11, <2>3, ShutMark
    <3>4. SetAge(Shut(ReallyMark(s, {v}), u, v, "black"), v, "old0") = Shut(SetAge(ReallyMark(s, {v}), v, "old0"), u, v, "black")
      <4> DEFINE r == ReallyMark(s, {v})
      <4>1. r \in StateType
        BY <1>1, <1>3, <2>3, ReallyMarkIs
      <4> HIDE DEF r
      <4>2. SetAge(Shut(r, u, v, "black"), v, "old0") = Shut(SetAge(r, v, "old0"), u, v, "black")
        BY <1>1, <1>3, <2>3, <4>1, ShutAge
      <4> QED BY <4>2 DEF r
    <3>5. cu = Shut(q, u, v, "black")
      BY <3>2, <3>3, <3>4
    <3> HIDE DEF q, cu
    <3>6. Runs(q) /\ q.open = s.open /\ q.val = s.val /\ q.stack = s.stack
      BY <3>1 DEF Stepped, Same, Fields
    <3>7. v = UpvalValue(q, u)
      BY <3>6 DEF UpvalValue, v
    <3>8. MayShut(q, u, v, "black")
      BY <1>1, <1>3, <2>1, <2>3, <3>1 DEF MayShut, IsGray
    <3>9. LET x == Shut(q, u, v, "black") IN Stepped(q, x) /\ x.stack = q.stack
      BY <3>1, <3>6, <3>7, <3>8, ShutInv
    <3> QED BY <3>1, <3>5, <3>6, <3>9 DEF Stepped, cu
  <2>4. CASE v # NULL /\ IsWhite(s, v) /\ ~KeepInvariant(s)
    <3>1. IncInv(s) /\ s.gckind # "genminor"
      BY <2>4 DEF Runs, Inv, GenInv, IncInv, KeepInvariant
    <3>2. s.gcstate \notin Resting
      <4>1. u \in InUse(s) /\ s.color[u] # "white"
        BY <1>1, <2>1 DEF IsGray, InUse
      <4> QED BY <3>1, <4>1 DEF IncInv, Fresh
    <3>3. s.gcstate \in SweepStates
      BY <1>1, <2>4, <3>2 DEF StateType, Phases, Resting, SweepStates, KeepInvariant
    <3>4. cu = Paint(p, u, "white")
      BY <1>6, <1>8, <2>1, <2>4, <3>1 DEF Barrier
    <3>5. cu = Shut(s, u, v, "white")
      <4>1. Paint(Shut(s, u, v, "black"), u, "white") = Shut(s, u, v, "white")
        BY <1>1, ShutPaint
      <4> QED BY <1>4, <3>4, <4>1
    <3>6. MayShut(s, u, v, "white")
      BY <2>1, <3>3 DEF MayShut
    <3> HIDE DEF cu
    <3>7. LET x == Shut(s, u, v, "white") IN Stepped(s, x) /\ x.stack = s.stack
      BY <3>6, ShutInv DEF v
    <3> QED BY <3>5, <3>7 DEF cu
  <2> QED BY <2>2, <2>3, <2>4
<1> QED BY <1>10, <1>11

\* The action CloseThread: luaF_close and the end of the coroutine.
LEMMA CloseThreadInv ==
  ASSUME NEW s, Runs(s), KindOK, NEW th \in s.stack, kind[th] = "thread", OpenUpvals(s, th) # {},
         \A u \in OpenUpvals(s, th) : ClosesAlone(s, u)
  PROVE  Stepped(s, [CloseUpvals(s, th) EXCEPT !.val[th] = NULL])
<1> DEFINE u == CHOOSE u \in OpenUpvals(s, th) : TRUE
           t == CloseUpval(s, u)
<1>1. Base(s) /\ th \in Live(s) /\ th \in Proper
  BY StackLive DEF Runs, Inv
<1>2. u \in OpenUpvals(s, th)
  OBVIOUS
<1> HIDE DEF u
<1>3. u \in Live(s) /\ s.open[u] = th /\ th # NULL
  BY <1>1, <1>2, RefsThread, Null DEF Base, Closed, OpenUpvals, Live
<1>4. Stepped(s, t) /\ t.stack = s.stack
  <2>1. ClosesAlone(s, u)
    BY <1>2
  <2> QED BY <1>1, <1>3, <2>1, CloseUpvalInv
<1>5. CloseUpvals(s, th) = t
  BY DEF CloseUpvals, u
<1> HIDE DEF t
<1>6. NULL \in Storable(t) /\ Runs(t)
  BY <1>4 DEF Storable, Stepped
<1>7. Stepped(t, [t EXCEPT !.val[th] = NULL])
  BY <1>1, <1>4, <1>6, SetSlotInv DEF Proper
<1>8. Stepped(s, [t EXCEPT !.val[th] = NULL])
  BY <1>4, <1>7 DEF Stepped
<1> QED BY <1>5, <1>8

(* What a pointer to o points to once o is no longer in the list.  *)
NextAfter(L, p, o) == IF p # o THEN p ELSE First(Tail(From(L, o)))

\* Where a part of a list begins.
LEMMA FromEarlier ==
  ASSUME NEW a \in Seq(Objects), NEW b \in Seq(Objects), IsInjective(a \o b), NEW p \in In(a)
  PROVE  In(From(a \o b, p)) = In(From(a, p)) \cup In(b)
<1> DEFINE x == Before(a, p)
           y == From(a, p)
<1>1. IsInjective(a) /\ IsInjective(b)
  BY OnceConcat
<1>2. /\ x \in Seq(Objects) /\ y \in Seq(Objects) /\ a = x \o y /\ y # << >> /\ First(y) = p
  <2>1. p \in Pointers(a) /\ p # NULL
    BY InType, Null DEF Pointers
  <2> QED BY <1>1, <2>1, BeforeFrom
<1> HIDE DEF x, y
<1>3. a \o b = x \o (y \o b) /\ y \o b \in Seq(Objects) /\ First(y \o b) = p
  <2>1. x \in Seq(Objects) /\ y \in Seq(Objects) /\ b \in Seq(Objects) => (x \o y) \o b = x \o (y \o b)
    OBVIOUS
  <2>2. y \o b \in Seq(Objects) /\ y \o b # << >> /\ (y \o b)[1] = y[1]
    BY <1>2
  <2> QED BY <1>2, <2>1, <2>2 DEF First
<1> DEFINE z == y \o b
<1>4. z \in Seq(Objects) /\ In(z) = In(y) \cup In(b)
  BY <1>2, <1>3, InConcat
<1>5. IsInjective(x \o z) /\ First(z) = p /\ a \o b = x \o z
  BY <1>3
<1> HIDE DEF z
<1>6. From(x \o z, First(z)) = z
  BY <1>2, <1>4, <1>5, FromConcat
<1> QED BY <1>4, <1>5, <1>6 DEF y

\* An object taken out of a list, and a pointer corrected past it.
LEMMA UnlinkFrom ==
  ASSUME NEW L \in Seq(Objects), IsInjective(L), NEW o \in In(L), NEW p \in Pointers(L)
  PROVE  LET M == Unlink(L, o)
             n == NextAfter(L, p, o)
         IN  /\ M \in Seq(Objects) /\ IsInjective(M) /\ In(M) = In(L) \ {o}
             /\ n \in Pointers(M) /\ In(From(M, n)) = In(From(L, p)) \ {o}
             /\ p # o => In(Prefix(M, p)) \subseteq In(Prefix(L, p))
<1> DEFINE a == Before(L, o)
           f == From(L, o)
           b == Tail(f)
           M == Unlink(L, o)
           n == NextAfter(L, p, o)
<1>1. /\ M \in Seq(Objects) /\ In(M) = In(L) \ {o} /\ IsInjective(M)
      /\ f # << >> /\ b \in Seq(Objects) /\ In(b) = In(f) \ {o} /\ o \in In(f)
      /\ L = a \o f /\ M = a \o b /\ a \in Seq(Objects)
  BY UnlinkIs
<1>2. o \in Pointers(L) /\ o # NULL
  BY InType, Null DEF Pointers
<1>3. f \in Seq(Objects) /\ IsInjective(f) /\ First(f) = o /\ In(a) = In(L) \ In(f)
      /\ In(L) = In(a) \cup In(f)
  BY <1>2, BeforeFrom
<1> DEFINE h == <<o>>
<1>4. h \in Seq(Objects) /\ f = h \o b /\ In(h) = {o}
  <2> HIDE DEF f
  <2> QED BY <1>1, <1>3 DEF First, In
<1> HIDE DEF h, b, f, a, M
<1>5. n \in Pointers(M) /\ In(From(M, n)) = In(From(L, p)) \ {o}
  <2>1. CASE p = o
    <3>1. n = First(b)
      BY <2>1 DEF NextAfter, b, f
    <3>2. From(a \o b, First(b)) = b /\ First(b) \in Pointers(a \o b)
      BY <1>1, FromConcat
    <3> QED BY <1>1, <2>1, <3>1, <3>2 DEF f
  <2>2. CASE p = NULL
    <3>1. n = NULL /\ NULL \in Pointers(M) /\ NULL \in Pointers(L)
      BY <1>2, <2>2 DEF NextAfter, Pointers
    <3>2. From(M, NULL) = << >> /\ From(L, NULL) = << >>
      BY <1>1, <3>1, BeforeFrom
    <3> QED BY <2>2, <3>1, <3>2 DEF In
  <2>3. CASE p \in In(b)
    <3>1. p # o /\ n = p /\ p \in Pointers(b) /\ p \in In(M)
      BY <1>1, <1>3, <2>3 DEF NextAfter, Pointers
    <3>2. From(a \o b, p) = From(b, p)
      BY <1>1, <3>1, FromConcat
    <3>3. p \in Pointers(f)
      BY <1>1, <2>3 DEF Pointers
    <3>4. From(a \o f, p) = From(f, p)
      BY <1>1, <1>3, <3>3, FromConcat
    <3>5. From(h \o b, p) = From(b, p)
      BY <1>1, <1>3, <1>4, <3>1, FromConcat
    <3>6. In(From(b, p)) \subseteq In(b)
      <4>1. IsInjective(b)
        BY <1>1, <1>3, <1>4, OnceConcat
      <4> QED BY <1>1, <3>1, <4>1, BeforeFrom
    <3>7. o \notin In(From(b, p))
      BY <1>1, <3>6
    <3>8. From(M, n) = From(b, p) /\ From(L, p) = From(b, p)
      BY <1>1, <1>4, <3>1, <3>2, <3>4, <3>5
    <3> QED BY <3>1, <3>7, <3>8 DEF Pointers
  <2>4. CASE p \in In(a)
    <3>1. p # o /\ n = p /\ p \in In(M)
      BY <1>1, <1>3, <2>4 DEF NextAfter
    <3>2. In(From(a \o b, p)) = In(From(a, p)) \cup In(b) /\ In(From(a \o f, p)) = In(From(a, p)) \cup In(f)
      BY <1>1, <1>3, <2>4, FromEarlier
    <3>3. In(From(a, p)) \subseteq In(a)
      <4>1. IsInjective(a) /\ p \in Pointers(a)
        BY <1>1, <1>3, <2>4, OnceConcat DEF Pointers
      <4> QED BY <1>1, <4>1, BeforeFrom
    <3>4. o \notin In(From(a, p))
      BY <1>1, <1>3, <3>3
    <3> QED BY <1>1, <3>1, <3>2, <3>4 DEF Pointers
  <2>5. p \in In(a) \/ p \in In(b) \/ p = o \/ p = NULL
    BY <1>1, <1>3 DEF Pointers
  <2> QED BY <2>1, <2>2, <2>3, <2>4, <2>5
<1>6. p # o => In(Prefix(M, p)) \subseteq In(Prefix(L, p))
  <2> SUFFICES ASSUME p # o PROVE In(Prefix(M, p)) \subseteq In(Prefix(L, p))
    OBVIOUS
  <2>1. CASE p = NULL
    BY <2>1 DEF Prefix
  <2>2. CASE p # NULL
    <3>1. n = p /\ p \in Pointers(M)
      BY <1>5 DEF NextAfter
    <3>2. /\ In(Before(M, p)) = In(M) \ In(From(M, p)) /\ Before(M, p) \in Seq(Objects)
          /\ In(Before(L, p)) = In(L) \ In(From(L, p)) /\ Before(L, p) \in Seq(Objects)
      BY <1>1, <3>1, BeforeFrom
    <3>3. In(Before(M, p)) \subseteq In(Before(L, p))
      BY <1>1, <1>5, <3>1, <3>2
    <3> DEFINE c == <<p>>
    <3>4. p \in In(L) /\ In(L) \subseteq Objects
      BY <2>2, InType DEF Pointers
    <3>5. c \in Seq(Objects)
      BY <3>4
    <3>6. Prefix(M, p) = Before(M, p) \o c /\ Prefix(L, p) = Before(L, p) \o c
      BY <2>2 DEF Prefix
    <3> HIDE DEF c
    <3>7. In(Prefix(M, p)) = In(Before(M, p)) \cup In(c) /\ In(Prefix(L, p)) = In(Before(L, p)) \cup In(c)
      BY <3>2, <3>5, <3>6, InConcat
    <3> QED BY <3>3, <3>7
  <2> QED BY <2>1, <2>2
<1> HIDE DEF n
<1> QED BY <1>1, <1>5, <1>6 DEF M, n

\* A list without an object is divided by the pointers corrected past it.
LEMMA UnlinkDivided ==
  ASSUME NEW L \in Seq(Objects), IsInjective(L), NEW o \in In(L), NEW p, NEW q, NEW r, Divided(L, p, q, r)
  PROVE  Divided(Unlink(L, o), NextAfter(L, p, o), NextAfter(L, q, o), NextAfter(L, r, o))
<1> DEFINE M == Unlink(L, o)
<1>1. /\ p \in Pointers(L) /\ q \in Pointers(From(L, p)) /\ r \in Pointers(From(L, q)) /\ q \in Pointers(L)
      /\ In(From(L, p)) \subseteq In(L) /\ In(From(L, q)) \subseteq In(L)
  BY FromSubset DEF Divided
<1>2. /\ NextAfter(L, p, o) \in Pointers(M) /\ In(From(M, NextAfter(L, p, o))) = In(From(L, p)) \ {o}
      /\ In(From(M, NextAfter(L, q, o))) = In(From(L, q)) \ {o}
  BY <1>1, UnlinkFrom
<1>3. ASSUME NEW x \in Pointers(L), NEW y \in Pointers(From(L, x))
      PROVE  NextAfter(L, y, o) \in (In(From(L, x)) \ {o}) \cup {NULL}
  <2>1. CASE y # o
    BY <1>3, <2>1 DEF NextAfter, Pointers
  <2>2. CASE y = o
    <3> DEFINE b == Tail(From(L, o))
    <3>1. b \in Seq(Objects) /\ In(b) = In(From(L, o)) \ {o}
      BY UnlinkIs
    <3>2. First(b) \in In(b) \cup {NULL}
      BY <3>1, FirstIs DEF Pointers
    <3>3. In(From(L, o)) \subseteq In(From(L, x))
      <4>1. NULL \in Pointers(From(L, o))
        BY DEF Pointers
      <4>2. Divided(L, x, o, NULL)
        BY <1>3, <2>2, <4>1 DEF Divided
      <4> QED BY <4>2, FromSubset
    <3>4. NextAfter(L, y, o) = First(b)
      BY <2>2 DEF NextAfter
    <3> QED BY <3>1, <3>2, <3>3, <3>4
  <2> QED BY <2>1, <2>2
<1>4. NextAfter(L, q, o) \in Pointers(From(M, NextAfter(L, p, o)))
  BY <1>1, <1>2, <1>3 DEF Pointers
<1>5. NextAfter(L, r, o) \in Pointers(From(M, NextAfter(L, q, o)))
  BY <1>1, <1>2, <1>3 DEF Pointers
<1> QED BY <1>2, <1>4, <1>5 DEF Divided

Pointed == {"survival", "old1", "reallyold", "firstold1"}
(* The object goes from allgc to finobj.  *)
Moved(s, t, o) ==
  /\ t \in StateType /\ Same(s, t, {"allgc", "finobj"} \cup Pointed) /\ o \in In(s.allgc) /\ o \in Proper
  /\ o \in Live(s) /\ t.allgc = Unlink(s.allgc, o) /\ t.finobj = <<o>> \o s.finobj

\* Moving an object from allgc to finobj keeps the structure of the heap and the trace.
LEMMA MovedBase ==
  ASSUME NEW s, Base(s), NEW o, NEW t, Moved(s, t, o)
  PROVE  /\ Base(t) /\ Live(t) = Live(s) /\ InUse(t) = InUse(s) /\ Marked(t) = Marked(s)
         /\ \A x \in Objects : Refs(t, x) = Refs(s, x)
         /\ \A X, r : Trace(s, X, r) => Trace(t, X, r)
         /\ t.color = s.color /\ t.age = s.age /\ t.open = s.open
         /\ t.tobefnz = s.tobefnz /\ t.weak = s.weak /\ t.allweak = s.allweak /\ t.ephemeron = s.ephemeron
         /\ t.finobjsur = s.finobjsur /\ t.finobjold1 = s.finobjold1 /\ t.finobjrold = s.finobjrold
         /\ t.gcstate = s.gcstate /\ t.gckind = s.gckind /\ t.sweepgc = s.sweepgc
         /\ t.infin = s.infin /\ o \in Objects /\ o \notin In(s.finobj)
         /\ In(t.allgc) = In(s.allgc) \ {o} /\ In(t.finobj) = In(s.finobj) \cup {o}
<1>1. s \in StateType /\ Lists(s) /\ Shape(s) /\ Closed(s) /\ t \in StateType /\ o \in Objects
  BY DEF Base, Moved, Live
<1>2. Same(s, t, Unseen)
  BY DEF Moved, Same, Unseen, Pointed
<1>3. /\ Shape(t) /\ t.color = s.color /\ t.age = s.age /\ t.open = s.open /\ t.twups = s.twups
      /\ \A x \in Objects : Refs(t, x) = Refs(s, x)
      /\ \A X, r : Trace(s, X, r) => Trace(t, X, r)
      /\ t.gcstate = s.gcstate /\ t.weak = s.weak /\ t.allweak = s.allweak /\ t.ephemeron = s.ephemeron
  BY <1>1, <1>2, UnseenTrace
<1>4. /\ t.tobefnz = s.tobefnz
      /\ t.finobjsur = s.finobjsur /\ t.finobjold1 = s.finobjold1 /\ t.finobjrold = s.finobjrold
      /\ t.gckind = s.gckind /\ t.sweepgc = s.sweepgc /\ t.infin = s.infin
  BY DEF Moved, Same, Fields, Pointed
<1>5. Live(t) = Live(s) /\ InUse(t) = InUse(s) /\ Marked(t) = Marked(s)
  BY <1>3 DEF Live, InUse, Marked
<1>6. /\ s.allgc \in Seq(Objects) /\ IsInjective(s.allgc) /\ o \in In(s.allgc)
      /\ s.finobj \in Seq(Objects) /\ IsInjective(s.finobj) /\ o \notin In(s.finobj)
  BY <1>1 DEF StateType, Lists, Moved, Proper
<1>7. IsInjective(t.allgc) /\ In(t.allgc) = In(s.allgc) \ {o}
  BY <1>6, UnlinkIs DEF Moved
<1>8. IsInjective(t.finobj) /\ In(t.finobj) = In(s.finobj) \cup {o}
  BY <1>1, <1>6, PushOnce DEF Moved
<1>9. Lists(t)
  BY <1>1, <1>4, <1>5, <1>6, <1>7, <1>8 DEF Lists
<1>10. Closed(t)
  BY <1>1, <1>3, <1>4, <1>5 DEF Closed
<1> QED BY <1>1, <1>3, <1>4, <1>5, <1>6, <1>7, <1>8, <1>9, <1>10 DEF Base

\* It keeps the sweep when the cursor does not stand at the object.
LEMMA MovedSweeping ==
  ASSUME NEW s, Base(s), NEW o, NEW t, Moved(s, t, o), Sweeping(s),
         s.sweepgc.list = "allgc" => s.sweepgc.after # o
  PROVE  Sweeping(t)
<1>1. /\ t.color = s.color /\ t.age = s.age /\ t.tobefnz = s.tobefnz
      /\ t.gcstate = s.gcstate /\ t.sweepgc = s.sweepgc /\ o \in Objects
      /\ In(t.allgc) = In(s.allgc) \ {o} /\ In(t.finobj) = In(s.finobj) \cup {o}
      /\ o \notin In(s.finobj)
  BY MovedBase
<1>9. o \in In(s.allgc)
  BY DEF Moved
<1>2. /\ s.allgc \in Seq(Objects) /\ IsInjective(s.allgc)
      /\ s.finobj \in Seq(Objects) /\ IsInjective(s.finobj)
  BY DEF Base, StateType, Lists, Proper
<1>3. Cur(t) = Cur(s) /\ Passed(t) \subseteq Passed(s) /\ (s.gcstate # "swpallgc" => o \in Passed(s))
  BY <1>1, <1>9 DEF Cur, Passed
<1>4. ASSUME NEW S, Fresh(s, S), NEW S1, S1 \subseteq S PROVE Fresh(t, S1)
  BY <1>1, <1>4 DEF Fresh
<1>5. Fresh(t, Passed(t))
  BY <1>3, <1>4 DEF Sweeping
<1>6. s.gcstate # "swpallgc" => s.color[o] = "white" /\ s.age[o] = "new"
  BY <1>3 DEF Sweeping, Fresh
<1>7. Fresh(s, In(s[Cur(s)])) => Fresh(t, In(t[Cur(t)]))
  <2>1. CASE s.gcstate = "swpallgc"
    BY <1>1, <1>3, <2>1 DEF Cur, Fresh
  <2>2. CASE s.gcstate = "swpfinobj"
    BY <1>1, <1>3, <1>6, <2>2 DEF Cur, Fresh
  <2>3. CASE s.gcstate = "swptobefnz"
    BY <1>1, <1>3, <2>3 DEF Cur, Fresh
  <2> QED BY <2>1, <2>2, <2>3 DEF Sweeping, SweepStates
<1>8. Cursor(s) => Cursor(t)
  <2> SUFFICES ASSUME Cursor(s) PROVE Cursor(t)
    OBVIOUS
  <2> DEFINE p == s.sweepgc.after
  <2>1. p \in Pointers(s[Cur(s)]) /\ s.sweepgc.list = Cur(s) /\ Fresh(s, In(Prefix(s[Cur(s)], p)))
    BY DEF Cursor
  <2>2. CASE s.gcstate = "swpallgc"
    <3>1. s[Cur(s)] = s.allgc /\ t[Cur(t)] = t.allgc /\ p # o
      BY <1>1, <1>3, <2>1, <2>2 DEF Cur
    <3> HIDE DEF p
    <3>2. p \in Pointers(Unlink(s.allgc, o)) /\ In(Prefix(Unlink(s.allgc, o), p)) \subseteq In(Prefix(s.allgc, p))
      BY <1>2, <1>9, <2>1, <3>1, UnlinkFrom DEF NextAfter
    <3>3. p \in Pointers(t.allgc) /\ Fresh(t, In(Prefix(t.allgc, p)))
      BY <1>4, <2>1, <3>1, <3>2 DEF Moved
    <3> QED BY <1>1, <1>3, <2>1, <3>1, <3>3 DEF Cursor, p
  <2>3. CASE s.gcstate = "swpfinobj"
    <3>1. s[Cur(s)] = s.finobj /\ t[Cur(t)] = t.finobj
      BY <1>1, <1>3, <2>1, <2>3 DEF Cur
    <3> HIDE DEF p
    <3>2. p \in Pointers(<<o>> \o s.finobj) /\ In(Prefix(<<o>> \o s.finobj, p)) \subseteq {o} \cup In(Prefix(s.finobj, p))
      BY <1>1, <1>2, <2>1, <3>1, PushFrom
    <3>3. p \in Pointers(t.finobj) /\ In(Prefix(t.finobj, p)) \subseteq {o} \cup In(Prefix(s.finobj, p))
      BY <3>2 DEF Moved
    <3>4. Fresh(t, In(Prefix(t.finobj, p)))
      BY <1>1, <1>6, <2>1, <2>3, <3>1, <3>3 DEF Fresh
    <3> QED BY <1>1, <1>3, <2>1, <3>1, <3>3, <3>4 DEF Cursor, p
  <2>4. CASE s.gcstate = "swptobefnz"
    <3>1. t[Cur(t)] = s[Cur(s)]
      BY <1>1, <1>3, <2>4 DEF Cur
    <3> QED BY <1>1, <1>3, <1>4, <2>1, <3>1 DEF Cursor
  <2> QED BY <2>2, <2>3, <2>4 DEF Sweeping, SweepStates
<1> QED BY <1>1, <1>5, <1>7, <1>8 DEF Sweeping

\* It keeps the invariant of the incremental mode.
LEMMA MovedInc ==
  ASSUME NEW s, Base(s), IncInv(s), s.gcstate # "atomic", NEW o, NEW t, Moved(s, t, o),
         s.sweepgc.list = "allgc" => s.sweepgc.after # o
  PROVE  Stepped(s, t)
<1>1. /\ Base(t) /\ InUse(t) = InUse(s) /\ Marked(t) = Marked(s)
      /\ \A X, r : Trace(s, X, r) => Trace(t, X, r)
      /\ t.color = s.color /\ t.age = s.age
      /\ t.weak = s.weak /\ t.allweak = s.allweak /\ t.ephemeron = s.ephemeron
      /\ t.finobjsur = s.finobjsur /\ t.finobjold1 = s.finobjold1 /\ t.finobjrold = s.finobjrold
      /\ t.gcstate = s.gcstate /\ t.gckind = s.gckind /\ t.sweepgc = s.sweepgc /\ t.infin = s.infin
  BY MovedBase
<1>2. Sweeping(s) => Sweeping(t)
  BY MovedSweeping
<1>3. Ready(s, {}) => Ready(t, {})
  BY <1>1 DEF Ready, NoDead
<1>4. Fresh(s, InUse(s)) => Fresh(t, InUse(t))
  BY <1>1 DEF Fresh
<1>5. IncInv(t)
  BY <1>1, <1>2, <1>3, <1>4 DEF IncInv
<1> QED BY <1>1, <1>5 DEF Stepped, Runs, Inv

\* It keeps the invariant of the generational mode, as correctpointers moves the four
\* pointers past the object.
LEMMA MovedGen ==
  ASSUME NEW s, Base(s), GenInv(s), NEW o, NEW t, Moved(s, t, o),
         t.survival = NextAfter(s.allgc, s.survival, o), t.old1 = NextAfter(s.allgc, s.old1, o),
         t.reallyold = NextAfter(s.allgc, s.reallyold, o), t.firstold1 = NextAfter(s.allgc, s.firstold1, o)
  PROVE  Stepped(s, t)
<1>1. /\ Base(t) /\ InUse(t) = InUse(s) /\ Marked(t) = Marked(s)
      /\ \A X, r : Trace(s, X, r) => Trace(t, X, r)
      /\ \A x \in Objects : Refs(t, x) = Refs(s, x)
      /\ t.color = s.color /\ t.age = s.age /\ t.open = s.open
      /\ t.weak = s.weak /\ t.allweak = s.allweak /\ t.ephemeron = s.ephemeron
      /\ t.finobjsur = s.finobjsur /\ t.finobjold1 = s.finobjold1 /\ t.finobjrold = s.finobjrold
      /\ t.gcstate = s.gcstate /\ t.gckind = s.gckind /\ t.sweepgc = s.sweepgc /\ t.infin = s.infin
      /\ In(t.allgc) = In(s.allgc) \ {o} /\ In(t.finobj) = In(s.finobj) \cup {o}
      /\ o \in Objects /\ o \notin In(s.finobj)
  BY MovedBase
<1>2. /\ s.allgc \in Seq(Objects) /\ IsInjective(s.allgc) /\ o \in In(s.allgc)
      /\ s.finobj \in Seq(Objects) /\ IsInjective(s.finobj)
      /\ t.allgc = Unlink(s.allgc, o) /\ t.finobj = <<o>> \o s.finobj
  BY DEF Base, StateType, Lists, Moved, Proper
<1>3. Ready(t, BlackOld1(t))
  <2>1. BlackOld1(t) = BlackOld1(s)
    BY <1>1 DEF BlackOld1, IsBlack
  <2> QED BY <1>1, <2>1 DEF GenInv, Ready, NoDead
<1>4. GenAges(t)
  <2>1. ASSUME NEW x \in Objects PROVE AgesOf(t, x)
    <3>1. AgesOf(s, x)
      BY DEF GenInv, GenAges
    <3> QED BY <1>1, <3>1 DEF AgesOf, IsOld, IsGray
  <2> QED BY <2>1 DEF GenAges
<1>5. GenLists(s)
  BY DEF GenInv
<1>6. /\ Divided(t.allgc, t.survival, t.old1, t.reallyold)
  BY <1>2, <1>5, UnlinkDivided DEF GenLists
<1>7. /\ \A p, q, r : Divided(s.finobj, p, q, r) => Divided(t.finobj, p, q, r)
      /\ \A p \in Pointers(s.finobj) : From(t.finobj, p) = From(s.finobj, p)
  BY <1>1, <1>2, PushFrom
<1>8. /\ s.finobjsur \in Pointers(s.finobj) /\ s.finobjold1 \in Pointers(s.finobj)
      /\ s.finobjrold \in Pointers(s.finobj) /\ In(From(s.finobj, s.finobjrold)) \subseteq In(s.finobj)
  <2>1. /\ s.finobjold1 \in Pointers(s.finobj) /\ In(From(s.finobj, s.finobjold1)) \subseteq In(From(s.finobj, s.finobjsur))
        /\ In(From(s.finobj, s.finobjsur)) \subseteq In(s.finobj)
    BY <1>2, <1>5, FromSubset DEF GenLists
  <2>2. s.finobjsur \in Pointers(s.finobj) /\ s.finobjrold \in Pointers(s.finobj)
    BY <1>5, <2>1 DEF GenLists, Divided, Pointers
  <2> QED BY <1>2, <2>1, <2>2, BeforeFrom
<1>9. /\ s.survival \in Pointers(s.allgc) /\ s.old1 \in Pointers(s.allgc)
      /\ s.reallyold \in Pointers(s.allgc) /\ s.firstold1 \in Pointers(s.allgc)
  <2>1. /\ s.old1 \in Pointers(s.allgc) /\ In(From(s.allgc, s.old1)) \subseteq In(From(s.allgc, s.survival))
        /\ In(From(s.allgc, s.survival)) \subseteq In(s.allgc)
    BY <1>2, <1>5, FromSubset DEF GenLists
  <2> QED BY <1>5, <2>1 DEF GenLists, Divided, Pointers
<1>10. /\ t.firstold1 \in Pointers(t.allgc)
       /\ In(From(t.allgc, t.survival)) = In(From(s.allgc, s.survival)) \ {o}
       /\ In(From(t.allgc, t.old1)) = In(From(s.allgc, s.old1)) \ {o}
       /\ In(From(t.allgc, t.reallyold)) = In(From(s.allgc, s.reallyold)) \ {o}
       /\ In(From(t.allgc, t.firstold1)) = In(From(s.allgc, s.firstold1)) \ {o}
  BY <1>2, <1>9, UnlinkFrom
<1>11. AgedFrom(t, t.allgc, t.survival, t.old1) /\ AgedFrom(t, t.finobj, t.finobjsur, t.finobjold1)
  BY <1>1, <1>5, <1>7, <1>8, <1>10 DEF GenLists, AgedFrom
<1>12. \A x \in In(t.allgc) : t.age[x] = "old1" =>
         x \in In(From(t.allgc, t.firstold1)) /\ x \notin In(From(t.allgc, t.reallyold))
  BY <1>1, <1>5, <1>10 DEF GenLists
<1>13. \A x \in In(t.finobj) : t.age[x] = "old1" => x \notin In(From(t.finobj, t.finobjrold))
  BY <1>1, <1>5, <1>7, <1>8 DEF GenLists
<1>14. Divided(t.finobj, t.finobjsur, t.finobjold1, t.finobjrold)
  BY <1>1, <1>5, <1>7 DEF GenLists
<1>15. GenLists(t)
  BY <1>6, <1>10, <1>11, <1>12, <1>13, <1>14 DEF GenLists
<1>16. GenInv(t) /\ t.gcstate # "atomic"
  BY <1>1, <1>3, <1>4, <1>15 DEF GenInv
<1> QED BY <1>1, <1>16 DEF Stepped, Runs, Inv

Relisted(s, o) == [s EXCEPT !.allgc = Unlink(@, o), !.finobj = <<o>> \o @]

\* The move that luaC_checkfinalizer makes.
LEMMA RelistedIs ==
  ASSUME NEW s, Base(s), NEW o, o \in Proper, o \in In(s.allgc), o \in Live(s)
  PROVE  Moved(s, Relisted(s, o), o)
<1>1. s \in StateType /\ s.allgc \in Seq(Objects) /\ s.finobj \in Seq(Proper) /\ IsInjective(s.allgc)
  BY DEF Base, StateType, Lists
<1> DEFINE L == Unlink(s.allgc, o)
<1> DEFINE M == <<o>> \o s.finobj
<1>2. L \in Seq(Objects)
  BY <1>1, UnlinkIs
<1>3. M \in Seq(Proper)
  BY <1>1
<1> HIDE DEF L, M
<1> DEFINE t == [s EXCEPT !.allgc = L, !.finobj = M]
<1>4. t \in StateType /\ Same(s, t, {"allgc", "finobj"} \cup Pointed) /\ t.allgc = L /\ t.finobj = M
  BY <1>1, <1>2, <1>3 DEF StateType, Same, Fields
<1>5. Relisted(s, o) = t
  BY <1>1 DEF Relisted, StateType, L, M
<1> HIDE DEF t
<1> QED BY <1>4, <1>5 DEF Moved, L, M

\* What is on the stack is a live object that is not the main thread.
LEMMA OnStackIn ==
  ASSUME NEW s, Base(s), KindOK, NEW o \in s.stack
  PROVE  o \in Live(s) /\ o \in Proper /\ o \in Objects
<1>1. s.stack \subseteq Live(s) /\ s.stack \subseteq Proper
  BY StackLive
<1> QED BY <1>1 DEF Proper

\* luaC_checkfinalizer outside of the sweep.
LEMMA CheckOutside ==
  ASSUME NEW s, Runs(s), KindOK, NEW o \in s.stack, o \in In(s.allgc), ~IsSweepPhase(s)
  PROVE  Stepped(s, CheckFinalizer(s, o))
<1> DEFINE n(p) == NextAfter(s.allgc, p, o)
<1> DEFINE L == Unlink(s.allgc, o)
<1> DEFINE M == <<o>> \o s.finobj
<1> DEFINE a == n(s.survival)
<1> DEFINE b == n(s.old1)
<1> DEFINE c == n(s.reallyold)
<1> DEFINE d == n(s.firstold1)
<1> DEFINE t == [s EXCEPT !.survival = a, !.old1 = b, !.reallyold = c, !.firstold1 = d, !.allgc = L, !.finobj = M]
<1>1. Base(s) /\ s \in StateType /\ s.gcstate # "atomic"
  BY DEF Runs, Inv, Base
<1>2. /\ s.allgc \in Seq(Objects) /\ s.finobj \in Seq(Proper) /\ IsInjective(s.allgc)
      /\ s.survival \in OrNull(Objects) /\ s.old1 \in OrNull(Objects)
      /\ s.reallyold \in OrNull(Objects) /\ s.firstold1 \in OrNull(Objects)
  BY <1>1 DEF Base, StateType, Lists
<1>3. o \in Live(s) /\ o \in Proper /\ o \in Objects
  BY <1>1, OnStackIn
<1>4. CheckFinalizer(s, o) = t
  BY <1>1 DEF CheckFinalizer, NextAfter, StateType
<1>5. L \in Seq(Objects)
  BY <1>2, UnlinkIs
<1>6. M \in Seq(Proper)
  BY <1>2, <1>3
<1>7. ASSUME NEW p, p \in OrNull(Objects) PROVE n(p) \in OrNull(Objects)
  <2>1. Tail(From(s.allgc, o)) \in Seq(Objects)
    BY <1>2, UnlinkIs
  <2>2. First(Tail(From(s.allgc, o))) \in Pointers(Tail(From(s.allgc, o)))
    BY <2>1, FirstIs
  <2>3. In(Tail(From(s.allgc, o))) \subseteq Objects
    BY <2>1, InType
  <2> QED BY <1>7, <2>2, <2>3 DEF NextAfter, Pointers, OrNull
<1>8. a \in OrNull(Objects) /\ b \in OrNull(Objects) /\ c \in OrNull(Objects) /\ d \in OrNull(Objects)
  BY <1>2, <1>7
<1>9. /\ a = NextAfter(s.allgc, s.survival, o) /\ b = NextAfter(s.allgc, s.old1, o)
      /\ c = NextAfter(s.allgc, s.reallyold, o) /\ d = NextAfter(s.allgc, s.firstold1, o)
  OBVIOUS
<1> HIDE DEF L, M, a, b, c, d, n
<1>10. t \in StateType /\ Same(s, t, {"allgc", "finobj"} \cup Pointed)
       /\ t.allgc = L /\ t.finobj = M /\ t.survival = a /\ t.old1 = b /\ t.reallyold = c /\ t.firstold1 = d
  BY <1>1, <1>5, <1>6, <1>8 DEF StateType, Same, Fields, Pointed
<1> HIDE DEF t
<1>11. Moved(s, t, o)
  BY <1>3, <1>10 DEF Moved, L, M
<1>12. CASE GenInv(s)
  <2>1. Stepped(s, t)
    BY <1>1, <1>9, <1>10, <1>11, <1>12, MovedGen
  <2> QED BY <1>4, <2>1
<1>13. CASE IncInv(s)
  <2>1. s.sweepgc = Nowhere
    BY <1>1, <1>13, CurIs DEF IncInv, Ready, Resting, Marking, SweepStates, IsSweepPhase, StateType, Phases
  <2>2. Stepped(s, t)
    BY <1>1, <1>11, <1>13, <2>1, MovedInc DEF Nowhere
  <2> QED BY <1>4, <2>2
<1> QED BY <1>12, <1>13 DEF Runs, Inv

\* The move, after the cursor was put past the object.
LEMMA RelistedStep ==
  ASSUME NEW s, NEW w, KindOK, Base(w), IncInv(w), NEW o, o \in Proper, o \in In(w.allgc), o \in Live(w),
         s.gcstate # "atomic", w.gcstate = s.gcstate, w.gckind = s.gckind, w.infin = s.infin,
         w.sweepgc.list = "allgc" => w.sweepgc.after # o
  PROVE  Stepped(s, Relisted(w, o))
<1>1. Moved(w, Relisted(w, o), o)
  BY RelistedIs
<1> DEFINE t == Relisted(w, o)
<1> HIDE DEF t
<1>2. Moved(w, t, o)
  BY <1>1 DEF t
<1>3. Stepped(w, t)
  BY <1>2, MovedInc
<1>4. Stepped(s, t)
  BY <1>3 DEF Stepped
<1> QED BY <1>4 DEF t

\* luaC_checkfinalizer in the sweep: the object is swept first, and the cursor steps past it.
LEMMA CheckInSweep ==
  ASSUME NEW s, Runs(s), KindOK, NEW o \in s.stack, o \in In(s.allgc), IsSweepPhase(s)
  PROVE  Stepped(s, CheckFinalizer(s, o))
<1> DEFINE w == Paint(s, o, "white")
<1>1. Base(s) /\ s \in StateType /\ s.gcstate # "atomic"
  BY DEF Runs, Inv, Base
<1>2. IncInv(s)
  BY DEF Runs, Inv, GenInv, IsSweepPhase
<1>3. o \in Live(s) /\ o \in Proper /\ o \in Objects
  BY <1>1, OnStackIn
<1>4. CheckFinalizer(s, o) = IF s.sweepgc = [list |-> "allgc", after |-> o]
                             THEN Relisted(SweepToLive(w), o) ELSE Relisted(w, o)
  BY DEF CheckFinalizer, Relisted
<1>5. CASE s.gcstate = "swpend"
  <2>1. s.sweepgc = Nowhere /\ s.color[o] = "white"
    BY <1>1, <1>2, <1>3, <1>5 DEF IncInv, Resting, Fresh, Live, InUse
  <2>2. w = s
    BY <1>1, <2>1 DEF Paint, StateType
  <2>3. Nowhere # [list |-> "allgc", after |-> o] /\ s.sweepgc.list # "allgc"
    BY <2>1 DEF Nowhere
  <2>4. Stepped(s, Relisted(s, o))
    BY <1>1, <1>2, <1>3, <2>3, RelistedStep
  <2> QED BY <1>4, <2>1, <2>2, <2>3, <2>4
<1>6. CASE s.gcstate \in SweepStates
  <2>1. Sweeping(s)
    BY <1>2, <1>6 DEF IncInv
  <2>2. Base(w) /\ Sweeping(w) /\ Live(w) = Live(s) /\ Same(s, w, {"color"})
    BY <1>1, <1>3, <2>1, Repainted
  <2>3. /\ w.gcstate = s.gcstate /\ w.gckind = s.gckind /\ w.infin = s.infin /\ w.sweepgc = s.sweepgc
        /\ w.allgc = s.allgc /\ w.finobj = s.finobj /\ w.tobefnz = s.tobefnz
        /\ w.finobjsur = s.finobjsur /\ w.finobjold1 = s.finobjold1 /\ w.finobjrold = s.finobjrold
    BY <2>2 DEF Same, Fields
  <2> HIDE DEF w
  <2>4. NoPointers(w) /\ w.gcstate \in SweepStates
    BY <1>2, <1>6, <2>3 DEF NoPointers, IncInv
  <2>5. ASSUME s.sweepgc # [list |-> "allgc", after |-> o] PROVE Stepped(s, Relisted(w, o))
    <3>1. Sweeps(w, w)
      BY <2>2, SweepsRefl
    <3>2. IncInv(w)
      BY <2>4, <3>1, SweepsCycle DEF Cycle
    <3>3. w.sweepgc.list = "allgc" => w.sweepgc.after # o
      <4>1. w.sweepgc \in [list : ObjectLists \cup {"none"}, after : OrNull(Objects)]
        BY <2>2 DEF Base, StateType
      <4> QED BY <2>3, <2>5, <4>1
    <3>4. o \in In(w.allgc) /\ o \in Live(w)
      BY <1>3, <2>2, <2>3
    <3> QED BY <1>1, <1>3, <2>2, <2>3, <3>2, <3>3, <3>4, RelistedStep
  <2>6. ASSUME s.sweepgc = [list |-> "allgc", after |-> o] PROVE Stepped(s, Relisted(SweepToLive(w), o))
    <3> DEFINE x == SweepToLive(w)
    <3>1. w.sweepgc # Nowhere /\ w.sweepgc.list = "allgc" /\ w.sweepgc.after = o
      BY <2>3, <2>6 DEF Nowhere
    <3>2. Cur(w) = "allgc"
      BY <2>2, <3>1 DEF Sweeping, Cursor
    <3>3. Sweeps(w, x) /\ x.sweepgc # w.sweepgc
      BY <2>2, <3>1, SweepToLiveIs
    <3> HIDE DEF x
    <3>4. Base(x) /\ Live(x) = Live(w) /\ Same(w, x, Touches("allgc"))
      BY <3>2, <3>3 DEF Sweeps
    <3>5. /\ x.gcstate = w.gcstate /\ x.gckind = w.gckind /\ x.infin = w.infin
          /\ x.finobj = w.finobj /\ x.tobefnz = w.tobefnz
      BY <3>4 DEF Same, Fields, Touches
    <3>6. IncInv(x)
      BY <2>4, <3>3, SweepsCycle DEF Cycle
    <3>7. x.sweepgc.list = "allgc" => x.sweepgc.after # o
      <4>1. x.sweepgc \in [list : ObjectLists \cup {"none"}, after : OrNull(Objects)]
        BY <3>4 DEF Base, StateType
      <4>2. w.sweepgc = [list |-> "allgc", after |-> o]
        BY <2>3, <2>6
      <4> QED BY <3>3, <4>1, <4>2
    <3>8. o \in Live(x) /\ o \in InUse(x)
      BY <1>3, <2>2, <3>4 DEF Live, InUse
    <3>9. o \in In(x.allgc)
      <4>1. o \notin In(s.finobj) /\ o \notin In(s.tobefnz)
        BY <1>1 DEF Base, Lists
      <4>2. InUse(x) = In(x.allgc) \cup In(x.finobj) \cup In(x.tobefnz)
        BY <3>4 DEF Base, Lists
      <4> QED BY <2>3, <3>5, <3>8, <4>1, <4>2
    <3>10. Stepped(s, Relisted(x, o))
      BY <1>1, <1>3, <2>3, <3>4, <3>5, <3>6, <3>7, <3>8, <3>9, RelistedStep
    <3> QED BY <3>10 DEF x
  <2> QED BY <1>4, <2>5, <2>6
<1> QED BY <1>5, <1>6 DEF IsSweepPhase, SweepStates

\* luaC_checkfinalizer keeps the invariant.
LEMMA CheckFinalizerInv ==
  ASSUME NEW s, Runs(s), KindOK, NEW o \in s.stack, o \in In(s.allgc)
  PROVE  Stepped(s, CheckFinalizer(s, o))
BY CheckOutside, CheckInSweep

(****************************************************************************)
(* Entering the generational mode                                           *)
(****************************************************************************)

NoWhite(s) == \A o \in Objects : s.color[o] # "white"

OldOf(s, o) ==
  s.age[o] = "old" /\ s.color[o] = IF kind[o] = "thread" \/ s.open[o] # NULL THEN "gray" ELSE "black"
(* The objects S are old.  *)
Olden(s, S) ==
  /\ Base(s) /\ NoWhite(s) /\ s.gray = {} /\ s.weak = {} /\ s.allweak = {} /\ s.ephemeron = {}
  /\ S \subseteq InUse(s) /\ \A o \in S : OldOf(s, o)
  /\ s.grayagain = { o \in S : kind[o] = "thread" }

\* Freeing the dead when nothing is white: what lives keeps its references.
LEMMA FreedNoWhite ==
  ASSUME NEW s, Base(s), KindOK, NoWhite(s), NEW S, S \subseteq Objects, S \cap Live(s) = {},
         NEW f, f = FreeObj(s, S)
  PROVE  /\ Freed(s, f, S) /\ Closed(f) /\ Live(f) = Live(s) /\ NoWhite(f)
         /\ \A o \in Objects \ S : s.open[o] \in S /\ ~IsWhite(s, o) => f.color[o] = "black" /\ f.open[o] = NULL
<1>1. s \in StateType /\ Shape(s) /\ Closed(s)
  BY DEF Base
<1>2. Freed(s, f, S)
  BY <1>1, FreeObjIs
<1>3. Closed(f) /\ Live(f) = Live(s)
  BY <1>1, <1>2, FreedClosed
<1>4. ASSUME NEW o \in Objects, o \notin S, s.open[o] \in S, ~IsWhite(s, o)
      PROVE  f.color[o] = "black" /\ f.open[o] = NULL
  <2>1. kind[o] = "upval" /\ o \in InUse(s)
    BY <1>1, <1>4, Null DEF Shape, ShapeOf
  <2>2. o \in Live(s)
    BY <1>1, <1>4, <2>1, MarkedWhite DEF Live, Marked
  <2>3. UpvalValue(s, o) = s.val[s.open[o]]
    BY <1>4, Null DEF UpvalValue
  <2>4. s.val[s.open[o]] # NULL => s.val[s.open[o]] \in Live(s)
    BY <1>1, <2>1, <2>2, <2>3, RefsUpval DEF Closed
  <2>5. s.val[s.open[o]] # NULL => ~IsWhite(s, s.val[s.open[o]])
    BY <2>4 DEF Live, IsWhite, NoWhite
  <2> QED BY <1>2, <1>4, <2>5 DEF Freed, FreedOf
<1>5. ASSUME NEW o \in Objects PROVE f.color[o] # "white"
  <2>1. FreedOf(s, f, S, o)
    BY <1>2 DEF Freed
  <2>2. CASE o \in S
    BY <2>1, <2>2 DEF FreedOf
  <2>3. CASE o \notin S /\ s.open[o] \in S /\ ~IsWhite(s, o)
    BY <1>4, <2>3
  <2>4. CASE o \notin S /\ ~(s.open[o] \in S /\ ~IsWhite(s, o))
    BY <2>1, <2>4 DEF FreedOf, NoWhite
  <2> QED BY <2>2, <2>3, <2>4
<1> QED BY <1>2, <1>3, <1>4, <1>5 DEF NoWhite

AgedIn(l) == {l, "grayagain", "color", "age"}

Aged(f, l, v, G, C, A) == [f EXCEPT ![l] = v, !.grayagain = G, !.color = C, !.age = A]

\* A list swept to old, with the fields that this changes.
LEMMA AgedIs ==
  ASSUME NEW s \in StateType, NEW l \in ObjectLists, NEW v \in Seq(Objects), In(v) \subseteq In(s[l]),
         NEW G \in SUBSET Objects, NEW C \in [Objects -> Colors], NEW A \in [Objects -> Ages],
         NEW a, a = Aged(s, l, v, G, C, A)
  PROVE  /\ a \in StateType /\ Same(s, a, AgedIn(l)) /\ a[l] = v
         /\ a.grayagain = G /\ a.color = C /\ a.age = A
<1> DEFINE u == [s EXCEPT !.grayagain = G, !.color = C, !.age = A]
<1>1. /\ u \in StateType /\ Same(s, u, {"grayagain", "color", "age"})
      /\ u.grayagain = G /\ u.color = C /\ u.age = A
  BY DEF StateType, Same, Fields
<1>2. u[l] = s[l]
  BY <1>1 DEF ObjectLists, Same, Fields
<1>3. Aged(s, l, v, G, C, A) = [u EXCEPT ![l] = v]
  <2>1. CASE l = "allgc"
    BY <2>1 DEF StateType, Aged
  <2>2. CASE l = "finobj"
    BY <2>2 DEF StateType, Aged
  <2>3. CASE l = "tobefnz"
    BY <2>3 DEF StateType, Aged
  <2> QED BY <2>1, <2>2, <2>3 DEF ObjectLists
<1> HIDE DEF u
<1> DEFINE t == [u EXCEPT ![l] = v]
<1>0. In(v) \subseteq In(u[l]) /\ u \in StateType
  BY <1>1, <1>2
<1>4. t \in StateType /\ Same(u, t, {l}) /\ t[l] = v
  BY ZenonT(40), <1>0, SetList
<1> HIDE DEF t
<1>5. t.grayagain = G /\ t.color = C /\ t.age = A
  BY <1>1, <1>4 DEF Same, Fields, ObjectLists
<1>6. Same(s, t, AgedIn(l))
  BY <1>1, <1>4 DEF Same, AgedIn
<1> QED BY <1>3, <1>4, <1>5, <1>6 DEF t

\* sweep2old: what a list keeps is old, and its threads are gray and listed.
LEMMA Sweep2OldIs ==
  ASSUME NEW s, NEW S, Olden(s, S), KindOK, NEW l \in ObjectLists, S \cap In(s[l]) = {}
  PROVE  LET t == Sweep2Old(s, l)
         IN  /\ Olden(t, S \cup In(t[l])) /\ In(t[l]) \subseteq In(s[l])
             /\ Same(s, t, {"color", "age", "val", "key", "open", "grayagain", l})
<1> DEFINE old == { o \in In(s[l]) : ~IsWhite(s, o) }
<1> DEFINE threads == { o \in old : kind[o] = "thread" }
<1> DEFINE F == In(s[l]) \ old
<1> DEFINE f == FreeObj(s, F)
<1> DEFINE v == Keep(f[l], old)
<1> DEFINE G == f.grayagain \cup threads
<1> DEFINE C == [o \in Objects |-> IF o \notin old THEN f.color[o]
                     ELSE IF o \in threads \/ f.open[o] # NULL THEN "gray" ELSE "black"]
<1> DEFINE A == [o \in Objects |-> IF o \in old THEN "old" ELSE f.age[o]]
<1> DEFINE t == Aged(f, l, v, G, C, A)
<1>1. Base(s) /\ NoWhite(s) /\ s \in StateType /\ Lists(s) /\ Shape(s) /\ Closed(s)
  BY DEF Olden, Base
<1>2. s[l] \in Seq(Objects) /\ IsInjective(s[l]) /\ In(s[l]) \subseteq InUse(s) /\ In(s[l]) \subseteq Objects
  <2>1. CASE l = "allgc"
    BY <1>1, <2>1, InType DEF StateType, Lists
  <2>2. CASE l = "finobj"
    BY <1>1, <2>2, InType DEF StateType, Lists, Proper
  <2>3. CASE l = "tobefnz"
    BY <1>1, <2>3, InType DEF StateType, Lists, Proper
  <2> QED BY <2>1, <2>2, <2>3 DEF ObjectLists
<1>3. F \cap Live(s) = {} /\ F \subseteq Objects /\ old \subseteq Objects /\ old \subseteq Marked(s)
      /\ In(s[l]) = F \cup old /\ F \cap old = {}
  <2>1. \A o \in F : IsWhite(s, o) /\ s.color[o] # "white"
    BY <1>1, <1>2 DEF NoWhite
  <2>2. F \cap Live(s) = {}
    BY <2>1 DEF IsWhite, Live
  <2>3. old \subseteq Marked(s)
    BY <1>1, <1>2, MarkedWhite
  <2> QED BY <1>2, <2>2, <2>3
<1> HIDE DEF F, f
<1>4. /\ Freed(s, f, F) /\ Closed(f) /\ Live(f) = Live(s) /\ NoWhite(f)
      /\ \A o \in Objects \ F : s.open[o] \in F /\ ~IsWhite(s, o) => f.color[o] = "black" /\ f.open[o] = NULL
  BY <1>1, <1>3, FreedNoWhite DEF f
<1>5. /\ f \in StateType /\ Same(s, f, {"color", "age", "val", "key", "open"}) /\ Shape(f)
      /\ InUse(f) = InUse(s) \ F
  BY <1>4 DEF Freed
<1>6. f[l] = s[l] /\ f.grayagain = s.grayagain
  BY <1>5 DEF Same, Fields, ObjectLists
<1> HIDE DEF old, threads
<1>7. v \in Seq(Objects) /\ In(v) = old /\ IsInjective(v)
  BY <1>2, <1>3, <1>6, OnceKeep
<1>8. G \in SUBSET Objects /\ threads = { o \in old : kind[o] = "thread" }
  BY <1>1, <1>3, <1>6 DEF StateType, threads
<1>9. C \in [Objects -> Colors] /\ A \in [Objects -> Ages]
  <2>1. f.color \in [Objects -> Colors] /\ f.age \in [Objects -> Ages]
    BY <1>5 DEF StateType
  <2>2. "gray" \in Colors /\ "black" \in Colors /\ "old" \in Ages
    BY DEF Colors, Ages
  <2> QED BY <2>1, <2>2
<1>10. Sweep2Old(s, l) = t
  BY DEF Sweep2Old, Aged, old, threads, F, f
<1> HIDE DEF v, G, C, A
<1>0. In(v) \subseteq In(f[l]) /\ f \in StateType /\ v \in Seq(Objects)
  BY <1>3, <1>5, <1>6, <1>7
<1>t. t = Aged(f, l, v, G, C, A)
  OBVIOUS
<1> HIDE DEF t
<1>11. /\ t \in StateType /\ Same(f, t, AgedIn(l)) /\ t[l] = v
       /\ t.grayagain = G /\ t.color = C /\ t.age = A
  BY <1>0, <1>8, <1>9, <1>t, AgedIs
<1>12. /\ t.val = f.val /\ t.key = f.key /\ t.open = f.open /\ t.stack = s.stack /\ t.twups = s.twups
       /\ t.gray = s.gray /\ t.weak = s.weak /\ t.allweak = s.allweak /\ t.ephemeron = s.ephemeron
  BY <1>5, <1>11 DEF Same, Fields, ObjectLists, AgedIn
<1>13. /\ \A k \in ObjectLists : k # l => t[k] = s[k]
       /\ Same(s, t, {"color", "age", "val", "key", "open", "grayagain", l})
  <2>1. Same(s, t, {"color", "age", "val", "key", "open", "grayagain", l})
    BY <1>5, <1>11 DEF Same, AgedIn
  <2> QED BY <2>1 DEF Same, Fields, ObjectLists
<1>14. ASSUME NEW o \in Objects
       PROVE  /\ t.color[o] = IF o \notin old THEN f.color[o]
                              ELSE IF kind[o] = "thread" \/ f.open[o] # NULL THEN "gray" ELSE "black"
              /\ t.age[o] = IF o \in old THEN "old" ELSE f.age[o]
  BY <1>8, <1>11 DEF C, A
<1>15. \A o \in old : o \in InUse(f) /\ o \in Live(f) /\ o \notin F
  BY <1>3, <1>4, <1>5 DEF Marked, Live, InUse
<1>16. InUse(t) = InUse(f) /\ Live(t) = Live(f) /\ NoWhite(t)
  BY <1>4, <1>14, <1>15 DEF InUse, Live, NoWhite
<1>17. \A o \in Objects : Refs(t, o) = Refs(f, o)
  BY <1>5, <1>12 DEF Refs, Stack, OpenUpvals, UpvalValue, Same, Fields
<1>18. Lists(t)
  <2>1. In(t[l]) = In(s[l]) \ F
    BY <1>3, <1>7, <1>11
  <2> QED BY <1>1, <1>3, <1>5, <1>7, <1>11, <1>13, <1>16, <2>1, ListsLess
<1>19. Shape(t)
  <2>1. ASSUME NEW o \in Objects PROVE ShapeOf(t, o)
    <3>1. ShapeOf(f, o)
      BY <1>5 DEF Shape
    <3>2. t.open[o] # NULL => t.color[o] # "black"
      BY <1>12, <1>14, <3>1 DEF ShapeOf
    <3>3. o \notin InUse(t) => t.age[o] = f.age[o]
      BY <1>14, <1>15, <1>16
    <3> QED BY <1>12, <1>16, <3>1, <3>2, <3>3 DEF ShapeOf
  <2>2. f.twups = t.twups
    BY <1>5, <1>12 DEF Same, Fields
  <2> QED BY <1>5, <1>12, <2>1, <2>2 DEF Shape
<1>20. Closed(t)
  <2>1. In(t.tobefnz) \subseteq In(f.tobefnz) /\ f.twups = t.twups
    <3>1. f.twups = t.twups /\ f.tobefnz = s.tobefnz
      BY <1>5, <1>12 DEF Same, Fields
    <3>2. l = "tobefnz" => In(t.tobefnz) \subseteq In(s.tobefnz)
      BY <1>3, <1>7, <1>11
    <3>3. l # "tobefnz" => t.tobefnz = s.tobefnz
      BY <1>13 DEF ObjectLists
    <3> QED BY <3>1, <3>2, <3>3
  <2> QED BY <1>4, <1>12, <1>16, <1>17, <2>1 DEF Closed
<1>21. ASSUME NEW o \in S PROVE OldOf(t, o) /\ o \in InUse(t)
  <2>1. OldOf(s, o) /\ o \in InUse(s) /\ o \notin In(s[l]) /\ o \in Objects
    BY DEF Olden, InUse
  <2>2. FreedOf(s, f, F, o) /\ o \notin F /\ o \notin old
    BY <1>3, <1>4, <2>1 DEF Freed
  <2>3. f.age[o] = s.age[o]
    BY <2>2 DEF FreedOf
  <2>4. CASE s.open[o] \in F
    <3>1. kind[o] # "thread" /\ s.open[o] # NULL
      BY <1>1, <1>3, <2>1, <2>4, Null DEF Shape, ShapeOf
    <3>2. ~IsWhite(s, o)
      BY <2>1, <3>1 DEF OldOf, IsWhite
    <3>3. f.color[o] = "black" /\ f.open[o] = NULL
      BY <1>4, <2>1, <2>2, <2>4, <3>2
    <3> QED BY <1>5, <1>12, <1>14, <1>16, <2>1, <2>2, <2>3, <3>1, <3>3 DEF OldOf
  <2>5. CASE s.open[o] \notin F
    <3>1. f.color[o] = s.color[o] /\ f.open[o] = s.open[o]
      BY <2>2, <2>5 DEF FreedOf
    <3> QED BY <1>5, <1>12, <1>14, <1>16, <2>1, <2>2, <2>3, <3>1 DEF OldOf
  <2> QED BY <2>4, <2>5
<1>22. ASSUME NEW o \in In(t[l]) PROVE OldOf(t, o) /\ o \in InUse(t)
  <2>1. o \in old /\ o \in Objects
    BY <1>3, <1>7, <1>11
  <2> QED BY <1>12, <1>14, <1>15, <1>16, <2>1 DEF OldOf
<1>23. t.grayagain = { o \in S \cup In(t[l]) : kind[o] = "thread" }
  BY <1>6, <1>7, <1>8, <1>11 DEF Olden, G
<1>24. Olden(t, S \cup In(t[l]))
  BY <1>11, <1>12, <1>16, <1>18, <1>19, <1>20, <1>21, <1>22, <1>23 DEF Olden, Base
<1>25. In(t[l]) \subseteq In(s[l])
  BY <1>3, <1>7, <1>11
<1> QED BY <1>10, <1>13, <1>24, <1>25 DEF t

Listed(s, o) == o \in Pending(s) /\ ~IsWhite(s, o)
(* What correctgraylists does to an object.  *)
CorrectedOf(s, t, o) ==
  /\ ~Listed(s, o) => t.color[o] = s.color[o] /\ t.age[o] = s.age[o] /\ o \notin t.grayagain
  /\ Listed(s, o) /\ s.age[o] = "touched1" =>
       t.color[o] = "black" /\ t.age[o] = "touched2" /\ o \in t.grayagain
  /\ Listed(s, o) /\ s.age[o] # "touched1" /\ kind[o] = "thread" =>
       t.color[o] = s.color[o] /\ t.age[o] = s.age[o] /\ o \in t.grayagain
  /\ Listed(s, o) /\ s.age[o] # "touched1" /\ kind[o] # "thread" =>
       /\ t.color[o] = "black" /\ o \notin t.grayagain
       /\ t.age[o] = IF s.age[o] = "touched2" THEN "old" ELSE s.age[o]

Corrected(s, t) ==
  /\ t \in StateType
  /\ Same(s, t, {"grayagain", "weak", "allweak", "ephemeron", "color", "age", "gcstate"})
  /\ t.weak = {} /\ t.allweak = {} /\ t.ephemeron = {} /\ t.gcstate = "propagate"
  /\ \A o \in Objects : CorrectedOf(s, t, o)

\* correctgraylists: what was touched goes to the next age and is listed again, threads stay
\* listed.
LEMMA FinishIs ==
  ASSUME NEW s \in StateType, KindOK
  PROVE  Corrected(s, FinishGenCycle(s))
<1> DEFINE listed == s.grayagain \cup s.weak \cup s.allweak \cup s.ephemeron
<1> DEFINE touched == { o \in listed : ~IsWhite(s, o) /\ s.age[o] = "touched1" }
<1> DEFINE threads == { o \in listed \ touched : ~IsWhite(s, o) /\ kind[o] = "thread" }
<1> DEFINE others == { o \in listed \ (touched \cup threads) : ~IsWhite(s, o) }
<1> DEFINE C == [o \in Objects |-> IF o \in touched \cup others THEN "black" ELSE s.color[o]]
<1> DEFINE A == [o \in Objects |-> CASE o \in touched -> "touched2"
                     [] o \in others /\ s.age[o] = "touched2" -> "old"
                     [] OTHER -> s.age[o]]
<1> DEFINE G == touched \cup threads
<1> DEFINE t == [s EXCEPT !.grayagain = G, !.weak = {}, !.allweak = {}, !.ephemeron = {},
                          !.color = C, !.age = A, !.gcstate = "propagate"]
<1>1. listed = Pending(s) /\ listed \subseteq Objects
  BY DEF Pending, StateType
<1>2. C \in [Objects -> Colors] /\ A \in [Objects -> Ages] /\ G \in SUBSET Objects
  <2>1. s.color \in [Objects -> Colors] /\ s.age \in [Objects -> Ages]
    BY DEF StateType
  <2>2. "black" \in Colors /\ "old" \in Ages /\ "touched2" \in Ages
    BY DEF Colors, Ages
  <2>3. A \in [Objects -> Ages]
    <3> HIDE DEF touched, others
    <3> QED BY <2>1, <2>2
  <2>4. C \in [Objects -> Colors]
    <3> HIDE DEF touched, others
    <3> QED BY <2>1, <2>2
  <2> QED BY <1>1, <2>3, <2>4
<1>3. FinishGenCycle(s) = t
  <2> HIDE DEF touched, threads, others, listed
  <2> QED BY DEF FinishGenCycle, CorrectGrayLists, StateType, listed, touched, threads, others
<1>4. ASSUME NEW o \in Objects
      PROVE  /\ o \in touched <=> Listed(s, o) /\ s.age[o] = "touched1"
             /\ o \in threads <=> Listed(s, o) /\ s.age[o] # "touched1" /\ kind[o] = "thread"
             /\ o \in others <=> Listed(s, o) /\ s.age[o] # "touched1" /\ kind[o] # "thread"
             /\ C[o] = IF o \in touched \cup others THEN "black" ELSE s.color[o]
             /\ A[o] = IF o \in touched THEN "touched2"
                       ELSE IF o \in others /\ s.age[o] = "touched2" THEN "old" ELSE s.age[o]
             /\ o \in G <=> o \in touched \/ o \in threads
  <2>1. C[o] = IF o \in touched \cup others THEN "black" ELSE s.color[o]
    <3> HIDE DEF touched, others
    <3> QED OBVIOUS
  <2>2. A[o] = IF o \in touched THEN "touched2"
               ELSE IF o \in others /\ s.age[o] = "touched2" THEN "old" ELSE s.age[o]
    <3>1. o \in touched => o \notin others
      OBVIOUS
    <3> HIDE DEF touched, others
    <3> QED BY <3>1
  <2> QED BY <1>1, <2>1, <2>2 DEF Listed
<1> HIDE DEF touched, threads, others, listed, C, A, G
<1>5. /\ t \in StateType
      /\ Same(s, t, {"grayagain", "weak", "allweak", "ephemeron", "color", "age", "gcstate"})
      /\ t.weak = {} /\ t.allweak = {} /\ t.ephemeron = {} /\ t.gcstate = "propagate"
      /\ t.color = C /\ t.age = A /\ t.grayagain = G
  BY <1>2 DEF StateType, Same, Fields, Phases
<1> HIDE DEF t
<1>6. ASSUME NEW o \in Objects PROVE CorrectedOf(s, t, o)
  BY <1>4, <1>5 DEF CorrectedOf
<1>7. Corrected(s, t)
  BY <1>5, <1>6 DEF Corrected
<1> QED BY <1>3, <1>7

\* correctgraylists keeps the structure of the heap: it only repaints what was listed.
LEMMA CorrectedBase ==
  ASSUME NEW s, Base(s), KindOK, NEW t, Corrected(s, t), Pending(s) \subseteq InUse(s),
         \A o \in Pending(s) : kind[o] # "upval"
  PROVE  /\ Base(t) /\ Live(t) = Live(s) /\ InUse(t) = InUse(s) /\ Marked(t) = Marked(s)
         /\ \A o \in Objects : Refs(t, o) = Refs(s, o) /\ (IsWhite(t, o) <=> IsWhite(s, o))
         /\ \A o \in Objects : IsOld(t, o) <=> IsOld(s, o)
<1>1. /\ t.val = s.val /\ t.key = s.key /\ t.open = s.open /\ t.stack = s.stack /\ t.twups = s.twups
      /\ t.allgc = s.allgc /\ t.finobj = s.finobj /\ t.tobefnz = s.tobefnz
  BY DEF Corrected, Same, Fields
<1>2. ASSUME NEW o \in Objects
      PROVE  /\ t.color[o] = s.color[o] \/ (t.color[o] = "black" /\ s.color[o] \in {"gray", "black"} /\ s.open[o] = NULL)
             /\ IsOld(t, o) <=> IsOld(s, o)
             /\ t.age[o] # s.age[o] => o \in InUse(s)
  <2>1. CorrectedOf(s, t, o) /\ s.color[o] \in Colors
    BY DEF Corrected, Base, StateType
  <2>2. CASE ~Listed(s, o)
    BY <2>1, <2>2 DEF CorrectedOf, IsOld
  <2>3. CASE Listed(s, o)
    <3>1. o \in InUse(s) /\ kind[o] # "upval" /\ ~IsWhite(s, o)
      BY <2>3 DEF Listed
    <3>2. s.color[o] \in {"gray", "black"}
      BY <2>1, <3>1 DEF InUse, IsWhite, Colors
    <3>3. s.open[o] = NULL
      BY <3>1 DEF Base, Shape, ShapeOf
    <3>4. IsOld(t, o) <=> IsOld(s, o)
      BY <2>1, <2>3 DEF CorrectedOf, IsOld
    <3>5. t.color[o] = s.color[o] \/ t.color[o] = "black"
      BY <2>1, <2>3 DEF CorrectedOf
    <3> QED BY <3>1, <3>2, <3>3, <3>4, <3>5
  <2> QED BY <2>2, <2>3
<1>3. /\ Live(t) = Live(s) /\ InUse(t) = InUse(s) /\ Marked(t) = Marked(s)
      /\ \A o \in Objects : IsWhite(t, o) <=> IsWhite(s, o)
  BY <1>2 DEF Live, InUse, Marked, IsWhite
<1>4. \A o \in Objects : Refs(t, o) = Refs(s, o)
  BY <1>1 DEF Refs, Stack, OpenUpvals, UpvalValue
<1>5. Lists(t)
  BY <1>1, <1>3 DEF Base, Lists
<1>6. Shape(t)
  <2>1. ASSUME NEW o \in Objects PROVE ShapeOf(t, o)
    BY <1>1, <1>2, <1>3 DEF Base, Shape, ShapeOf
  <2> QED BY <1>1, <2>1 DEF Base, Shape
<1>7. Closed(t)
  BY <1>1, <1>3, <1>4 DEF Base, Closed
<1> QED BY <1>2, <1>3, <1>4, <1>5, <1>6, <1>7 DEF Base, Corrected

(* Every object of s is old, threads are watched.  *)
AllOld(s) == Olden(s, InUse(s)) /\ s.sweepgc = Nowhere

\* After the three lists are swept to old, everything in use is old.
LEMMA Sweep2OldAll ==
  ASSUME NEW s, Base(s), NoWhite(s), s.sweepgc = Nowhere, KindOK,
         NEW z, z = [s EXCEPT !.gray = {}, !.grayagain = {}, !.weak = {},
                      !.allweak = {}, !.ephemeron = {}, !.gcstate = "swpallgc"]
  PROVE  LET t == Sweep2Old(Sweep2Old(Sweep2Old(z, "allgc"), "finobj"), "tobefnz")
         IN  AllOld(t) /\ t.infin = s.infin /\ t.emergency = s.emergency
<1> DEFINE e == Emptied(s)
<1> DEFINE p == Phase(e, "swpallgc", Nowhere)
<1>1. /\ Base(e) /\ Same(s, e, MarkLists)
      /\ e.gray = {} /\ e.grayagain = {} /\ e.weak = {} /\ e.allweak = {} /\ e.ephemeron = {}
  BY EmptiedIs
<1>2. e.sweepgc = Nowhere /\ e.color = s.color /\ e.infin = s.infin /\ e.emergency = s.emergency
  BY <1>1 DEF Same, Fields, MarkLists
<1>3. z = p
  BY <1>2 DEF Emptied, Phase, Base, StateType
<1> HIDE DEF e
<1>4. Base(p) /\ Same(e, p, {"gcstate", "sweepgc"}) /\ p.sweepgc = Nowhere
  BY <1>1, PhaseBase, CursorType DEF Phases, ObjectLists
<1> HIDE DEF p
<1>5. /\ p.color = s.color /\ p.gray = {} /\ p.grayagain = {} /\ p.weak = {} /\ p.allweak = {}
      /\ p.ephemeron = {} /\ p.infin = s.infin /\ p.emergency = s.emergency
  BY <1>1, <1>2, <1>4 DEF Same, Fields
<1>6. Olden(p, {})
  BY <1>4, <1>5 DEF Olden, NoWhite
<1>7. "allgc" \in ObjectLists /\ "finobj" \in ObjectLists /\ "tobefnz" \in ObjectLists
  BY DEF ObjectLists
<1> DEFINE a == Sweep2Old(p, "allgc")
<1>8. Olden(a, {} \cup In(a.allgc)) /\ Same(p, a, {"color", "age", "val", "key", "open", "grayagain", "allgc"})
  <2>1. {} \cap In(p["allgc"]) = {}
    OBVIOUS
  <2> HIDE DEF a
  <2>2. /\ Olden(a, {} \cup In(a["allgc"]))
        /\ Same(p, a, {"color", "age", "val", "key", "open", "grayagain", "allgc"})
    BY <1>6, <1>7, <2>1, Sweep2OldIs DEF a
  <2> QED BY <2>2
<1> HIDE DEF a
<1>9. Olden(a, In(a.allgc)) /\ a.sweepgc = Nowhere /\ a.infin = p.infin /\ a.emergency = p.emergency
      /\ In(a.allgc) \cap In(a.finobj) = {}
  <2>1. Olden(a, In(a.allgc))
    <3>1. {} \cup In(a.allgc) = In(a.allgc)
      OBVIOUS
    <3> QED BY ONLY <1>8, <3>1
  <2>2. a.sweepgc = Nowhere /\ a.infin = p.infin /\ a.emergency = p.emergency
    BY <1>4, <1>8 DEF Same, Fields
  <2>3. In(a.allgc) \cap In(a.finobj) = {}
    BY <2>1 DEF Olden, Base, Lists
  <2> QED BY <2>1, <2>2, <2>3
<1> DEFINE b == Sweep2Old(a, "finobj")
<1>10. Olden(b, In(a.allgc) \cup In(b.finobj)) /\ Same(a, b, {"color", "age", "val", "key", "open", "grayagain", "finobj"})
  <2> HIDE DEF b
  <2>1. In(a.allgc) \cap In(a["finobj"]) = {}
    BY <1>9
  <2>2. /\ Olden(b, In(a.allgc) \cup In(b["finobj"]))
        /\ Same(a, b, {"color", "age", "val", "key", "open", "grayagain", "finobj"})
    BY <1>7, <1>9, <2>1, Sweep2OldIs DEF b
  <2> QED BY <2>2
<1> HIDE DEF b
<1>11. Olden(b, In(b.allgc) \cup In(b.finobj)) /\ b.sweepgc = Nowhere /\ b.infin = p.infin /\ b.emergency = p.emergency
      /\ (In(b.allgc) \cup In(b.finobj)) \cap In(b.tobefnz) = {}
  <2>0. b.allgc = a.allgc
    BY <1>10 DEF Same, Fields
  <2>1. Olden(b, In(b.allgc) \cup In(b.finobj))
    BY <1>10, <2>0
  <2>2. b.sweepgc = Nowhere /\ b.infin = p.infin /\ b.emergency = p.emergency
    BY <1>9, <1>10 DEF Same, Fields
  <2>3. (In(b.allgc) \cup In(b.finobj)) \cap In(b.tobefnz) = {}
    BY <2>1 DEF Olden, Base, Lists
  <2> QED BY <2>1, <2>2, <2>3
<1> DEFINE c == Sweep2Old(b, "tobefnz")
<1> DEFINE S == In(b.allgc) \cup In(b.finobj)
<1>12. Olden(c, S \cup In(c.tobefnz)) /\ Same(b, c, {"color", "age", "val", "key", "open", "grayagain", "tobefnz"})
  <2>1. S \cap In(b["tobefnz"]) = {} /\ Olden(b, S)
    BY <1>11
  <2> HIDE DEF c, S
  <2>2. /\ Olden(c, S \cup In(c["tobefnz"]))
        /\ Same(b, c, {"color", "age", "val", "key", "open", "grayagain", "tobefnz"})
    BY <1>7, <2>1, Sweep2OldIs DEF c
  <2> QED BY <2>2
<1> HIDE DEF c, S
<1>13. Olden(c, InUse(c)) /\ c.sweepgc = Nowhere /\ c.infin = s.infin /\ c.emergency = s.emergency
  <2>0. c.allgc = b.allgc /\ c.finobj = b.finobj
    BY <1>12 DEF Same, Fields
  <2>1. Lists(c)
    BY <1>12 DEF Olden, Base
  <2>2. InUse(c) = S \cup In(c.tobefnz)
    BY <2>0, <2>1 DEF Lists, S
  <2>3. c.sweepgc = Nowhere /\ c.infin = p.infin /\ c.emergency = p.emergency
    BY <1>11, <1>12 DEF Same, Fields
  <2> QED BY <1>5, <1>12, <2>2, <2>3
<1> QED BY <1>3, <1>13 DEF a, b, c, AllOld

\* The pointers after a full collection in generational mode: every object is really old.
LEMMA AllReallyOldIs ==
  ASSUME NEW s, Base(s)
  PROVE  LET t == AllReallyOld(s)
         IN  /\ t \in StateType
             /\ Same(s, t, {"survival", "old1", "reallyold", "firstold1", "finobjsur",
                            "finobjold1", "finobjrold", "gckind"})
             /\ t.survival = First(s.allgc) /\ t.old1 = First(s.allgc)
             /\ t.reallyold = First(s.allgc) /\ t.firstold1 = NULL
             /\ t.finobjsur = First(s.finobj) /\ t.finobjold1 = First(s.finobj)
             /\ t.finobjrold = First(s.finobj) /\ t.gckind = "genminor"
<1> DEFINE p == First(s.allgc)
<1> DEFINE q == First(s.finobj)
<1> DEFINE t == [s EXCEPT !.survival = p, !.old1 = p, !.reallyold = p, !.firstold1 = NULL,
            !.finobjsur = q, !.finobjold1 = q, !.finobjrold = q, !.gckind = "genminor"]
<1>1. s \in StateType /\ s.allgc \in Seq(Objects) /\ s.finobj \in Seq(Objects)
  <2>1. s \in StateType
    BY DEF Base
  <2>2. s.finobj \in Seq(Proper) /\ s.allgc \in Seq(Objects)
    BY <2>1 DEF StateType
  <2> QED BY <2>1, <2>2 DEF Proper
<1>2. p \in OrNull(Objects) /\ q \in OrNull(Objects) /\ NULL \in OrNull(Objects)
  BY <1>1, FirstIs, InType DEF Pointers, OrNull
<1>3. AllReallyOld(s) = t
  BY DEF AllReallyOld
<1> HIDE DEF p, q
<1>4. /\ t \in StateType
      /\ Same(s, t, {"survival", "old1", "reallyold", "firstold1", "finobjsur",
                            "finobjold1", "finobjrold", "gckind"})
      /\ t.survival = p /\ t.old1 = p /\ t.reallyold = p /\ t.firstold1 = NULL
      /\ t.finobjsur = q /\ t.finobjold1 = q /\ t.finobjrold = q /\ t.gckind = "genminor"
  BY <1>1, <1>2 DEF StateType, Same, Fields
<1> HIDE DEF t
<1> QED BY <1>3, <1>4 DEF p, q

\* A heap of old objects satisfies the invariant of the generational mode.
LEMMA AllOldGen ==
  ASSUME NEW s, AllOld(s), KindOK, s.gcstate = "propagate", s.gckind = "genminor",
         s.survival = First(s.allgc), s.old1 = First(s.allgc),
         s.reallyold = First(s.allgc), s.firstold1 = NULL,
         s.finobjsur = First(s.finobj), s.finobjold1 = First(s.finobj),
         s.finobjrold = First(s.finobj)
  PROVE  GenInv(s)
<1>1. /\ Base(s) /\ NoWhite(s) /\ s.gray = {} /\ s.weak = {} /\ s.allweak = {} /\ s.ephemeron = {}
      /\ s.grayagain = { o \in InUse(s) : kind[o] = "thread" } /\ s.sweepgc = Nowhere
  BY DEF AllOld, Olden
<1>2. \A o \in InUse(s) : OldOf(s, o)
  BY DEF AllOld, Olden
<1>3. s \in StateType /\ Shape(s) /\ Closed(s) /\ Lists(s)
  BY <1>1 DEF Base
<1>4. ASSUME NEW o \in Objects
      PROVE  /\ o \in InUse(s) => o \in Marked(s) /\ s.age[o] = "old"
             /\ o \notin InUse(s) => o \notin Marked(s) /\ s.age[o] = "new" /\ o \notin Live(s)
             /\ s.color[o] # "dead" /\ ~IsWhite(s, o)
  <2>1. o \in InUse(s) => o \in Marked(s) /\ s.age[o] = "old" /\ s.color[o] # "dead" /\ ~IsWhite(s, o)
    BY <1>2 DEF OldOf, Marked, IsWhite
  <2>2. o \notin InUse(s) => o \notin Marked(s) /\ o \notin Live(s) /\ s.color[o] # "dead" /\ ~IsWhite(s, o)
    BY DEF InUse, Marked, Live, IsWhite
  <2>3. o \notin InUse(s) => s.age[o] = "new"
    BY <1>3 DEF Shape, ShapeOf
  <2> QED BY <2>1, <2>2, <2>3
<1>5. BlackOld1(s) = {}
  BY <1>4 DEF BlackOld1
<1>6. Pending(s) = s.grayagain /\ Later(s) = s.grayagain
  BY <1>1 DEF Pending, Later
<1>7. ASSUME NEW o \in Objects PROVE Full(s, o)
  <2>1. Refs(s, o) \subseteq Objects
    BY <1>3, RefsType
  <2> QED BY <1>4, <2>1 DEF Full
<1>8. ASSUME NEW o \in Objects PROVE TraceOf(s, {}, FALSE, o)
  <2>1. Visited(s, o, FALSE)
    BY <1>7 DEF Visited
  <2>2. IsGray(s, o) => s.open[o] # NULL \/ o \in s.grayagain
    <3>1. IsGray(s, o) => o \in InUse(s)
      BY DEF IsGray, InUse
    <3> QED BY <1>1, <1>2, <3>1 DEF OldOf, IsGray
  <2>3. s.age[o] \notin {"touched1", "touched2"}
    BY <1>4
  <2>4. o \in Marked(s) /\ kind[o] = "thread" => o \in s.grayagain
    BY <1>1, <1>4
  <2>5. s.open[o] # NULL => s.open[o] \in s.twups
    <3>1. s.open[o] # NULL => s.open[o] \in InUse(s) /\ s.open[o] \in Objects
      BY <1>3 DEF Shape, ShapeOf, InUse
    <3>2. s.open[o] # NULL => s.open[o] \in Live(s)
      BY <1>4, <3>1 DEF Live, Marked
    <3> QED BY <1>3, <3>2 DEF Closed
  <2> QED BY <1>6, <2>1, <2>2, <2>3, <2>4, <2>5 DEF TraceOf
<1>9. Ready(s, {})
  <2>1. s.grayagain \subseteq { o \in Marked(s) : kind[o] \notin {"string", "upval", "bareudata"} }
    <3>1. InUse(s) \subseteq Objects
      BY DEF InUse
    <3> QED BY <1>1, <1>4, <3>1
  <2>2. Trace(s, {}, FALSE)
    BY <1>1, <1>6, <1>8, <2>1 DEF Trace
  <2>3. MainThread \in Live(s)
    BY <1>3 DEF Closed
  <2>4. MainThread \in Marked(s)
    BY <1>4, <2>3, Null
  <2> QED BY <1>1, <1>4, <2>2, <2>4 DEF Ready, NoDead
<1>10. s.allgc \in Seq(Objects) /\ s.finobj \in Seq(Objects) /\ IsInjective(s.allgc) /\ IsInjective(s.finobj)
       /\ In(s.allgc) \subseteq InUse(s) /\ In(s.finobj) \subseteq InUse(s)
  <2>1. s.finobj \in Seq(Proper) /\ s.allgc \in Seq(Objects)
    BY <1>3 DEF StateType
  <2> QED BY <1>3, <2>1 DEF Proper, Lists
<1>11. ASSUME NEW L \in Seq(Objects), IsInjective(L), In(L) \subseteq InUse(s)
       PROVE  /\ Divided(L, First(L), First(L), First(L))
              /\ AgedFrom(s, L, First(L), First(L))
  <2> DEFINE p == First(L)
  <2>1. p \in Pointers(L) /\ From(L, p) = L
    <3>1. << >> \o L = L /\ << >> \in Seq(Objects)
      BY <1>11
    <3>2. From(<< >> \o L, First(L)) = L
      BY <1>11, <3>1, FromConcat
    <3> QED BY <1>11, <3>1, <3>2, FirstIs
  <2> HIDE DEF p
  <2>2. Divided(L, p, p, p)
    BY <2>1 DEF Divided
  <2>3. In(L) \subseteq Objects
    BY <1>11, InType
  <2>4. AgedFrom(s, L, p, p)
    BY <1>4, <1>11, <2>1, <2>3 DEF AgedFrom, LateAges
  <2> QED BY <2>2, <2>4 DEF p
<1>12. GenLists(s)
  <2>1. In(s.allgc) \subseteq Objects /\ In(s.finobj) \subseteq Objects
    BY <1>10, InType
  <2>2. \A o \in Objects : s.age[o] # "old1"
    BY <1>4
  <2>3. s.firstold1 \in Pointers(s.allgc)
    BY DEF Pointers
  <2> QED BY <1>10, <1>11, <2>1, <2>2, <2>3 DEF GenLists
<1>13. ASSUME NEW o \in Objects PROVE AgesOf(s, o)
  <2>1. IsOld(s, o) <=> o \in Marked(s)
    BY <1>4 DEF IsOld
  <2>2. s.open[o] # NULL => IsOld(s, s.open[o]) /\ s.age[s.open[o]] # "new"
    <3>1. s.open[o] # NULL => s.open[o] \in InUse(s) /\ s.open[o] \in Objects
      BY <1>3 DEF Shape, ShapeOf, InUse
    <3> QED BY <1>4, <3>1 DEF IsOld
  <2>3. o \in InUse(s) => \A x \in Refs(s, o) : IsOld(s, x) /\ s.age[x] # "new"
    <3>1. o \in InUse(s) => Refs(s, o) \subseteq Live(s)
      BY <1>3, <1>4 DEF Closed, Live, Marked
    <3>2. Live(s) \subseteq Objects
      BY DEF Live
    <3> QED BY <1>4, <3>1, <3>2 DEF IsOld
  <2>4. s.age[o] \in {"old", "old1", "touched2"} => o \in InUse(s)
    BY <1>4
  <2>5. kind[o] # "thread" /\ s.open[o] = NULL => ~IsGray(s, o)
    <3>1. IsGray(s, o) => o \in InUse(s)
      BY DEF IsGray, InUse
    <3> QED BY <1>2, <3>1 DEF OldOf, IsGray
  <2> QED BY <2>1, <2>2, <2>3, <2>4, <2>5 DEF AgesOf
<1> QED BY <1>5, <1>9, <1>12, <1>13 DEF GenInv, GenAges

\* atomic2gen: from the atomic step into the generational mode.
LEMMA Atomic2GenIs ==
  ASSUME NEW s, Base(s), NoWhite(s), s.sweepgc = Nowhere, KindOK
  PROVE  LET t == Atomic2Gen(s)
         IN  Base(t) /\ GenInv(t) /\ t.infin = s.infin /\ t.emergency = s.emergency
<1> DEFINE z == [s EXCEPT !.gray = {}, !.grayagain = {}, !.weak = {},
                      !.allweak = {}, !.ephemeron = {}, !.gcstate = "swpallgc"]
<1> DEFINE c == Sweep2Old(Sweep2Old(Sweep2Old(z, "allgc"), "finobj"), "tobefnz")
<1> DEFINE a == AllReallyOld(c)
<1> DEFINE f == FinishGenCycle(a)
<1>1. Atomic2Gen(s) = f
  BY DEF Atomic2Gen
<1> HIDE DEF z
<1>2. AllOld(c) /\ c.infin = s.infin /\ c.emergency = s.emergency
  <2>1. z = [s EXCEPT !.gray = {}, !.grayagain = {}, !.weak = {},
                      !.allweak = {}, !.ephemeron = {}, !.gcstate = "swpallgc"]
    BY DEF z
  <2> QED BY <2>1, Sweep2OldAll
<1> HIDE DEF c
<1>3. Base(c)
  BY <1>2 DEF AllOld, Olden
<1>4. /\ a \in StateType
      /\ Same(c, a, {"survival", "old1", "reallyold", "firstold1", "finobjsur",
                            "finobjold1", "finobjrold", "gckind"})
      /\ a.survival = First(c.allgc) /\ a.old1 = First(c.allgc)
      /\ a.reallyold = First(c.allgc) /\ a.firstold1 = NULL
      /\ a.finobjsur = First(c.finobj) /\ a.finobjold1 = First(c.finobj)
      /\ a.finobjrold = First(c.finobj) /\ a.gckind = "genminor"
  BY <1>3, AllReallyOldIs
<1> HIDE DEF a
<1>5. /\ a.allgc = c.allgc /\ a.finobj = c.finobj /\ a.tobefnz = c.tobefnz /\ Same(c, a, Unseen)
      /\ a.color = c.color /\ a.age = c.age /\ a.open = c.open /\ a.gray = c.gray /\ a.grayagain = c.grayagain
      /\ a.weak = c.weak /\ a.allweak = c.allweak /\ a.ephemeron = c.ephemeron
      /\ a.infin = c.infin /\ a.emergency = c.emergency /\ a.sweepgc = c.sweepgc
  BY <1>4 DEF Same, Fields, Unseen
<1>6. Base(a) /\ InUse(a) = InUse(c)
  BY <1>3, <1>4, <1>5, UnseenBase
<1>7. Pending(a) = { o \in InUse(a) : kind[o] = "thread" } /\ \A o \in InUse(a) : OldOf(a, o)
  BY <1>2, <1>5, <1>6 DEF AllOld, Olden, Pending, OldOf
<1>8. Corrected(a, f)
  BY <1>4, FinishIs
<1> HIDE DEF f
<1>9. /\ Base(f) /\ InUse(f) = InUse(a)
  BY <1>6, <1>7, <1>8, CorrectedBase
<1>10. ASSUME NEW o \in Objects
       PROVE  /\ f.color[o] = a.color[o] /\ f.age[o] = a.age[o]
              /\ o \in f.grayagain <=> o \in InUse(a) /\ kind[o] = "thread"
  <2>1. CorrectedOf(a, f, o)
    BY <1>8 DEF Corrected
  <2>2. Listed(a, o) => kind[o] = "thread" /\ a.age[o] # "touched1" /\ o \in InUse(a)
    BY <1>7 DEF Listed, OldOf
  <2>3. o \in InUse(a) /\ kind[o] = "thread" => Listed(a, o)
    BY <1>7 DEF Listed, OldOf, IsWhite
  <2> QED BY <2>1, <2>2, <2>3 DEF CorrectedOf
<1>11. /\ f.open = a.open /\ f.allgc = a.allgc /\ f.finobj = a.finobj /\ f.sweepgc = a.sweepgc
       /\ f.gray = a.gray /\ f.infin = a.infin /\ f.emergency = a.emergency /\ f.gckind = a.gckind
       /\ f.survival = a.survival /\ f.old1 = a.old1 /\ f.reallyold = a.reallyold
       /\ f.firstold1 = a.firstold1 /\ f.finobjsur = a.finobjsur /\ f.finobjold1 = a.finobjold1
       /\ f.finobjrold = a.finobjrold /\ f.weak = {} /\ f.allweak = {} /\ f.ephemeron = {}
       /\ f.gcstate = "propagate"
  BY <1>8 DEF Corrected, Same, Fields
<1>12. AllOld(f)
  <2>1. NoWhite(f)
    <3>1. NoWhite(a)
      BY <1>2, <1>5 DEF AllOld, Olden, NoWhite
    <3> QED BY <1>10, <3>1 DEF NoWhite
  <2>2. f.grayagain = { o \in InUse(f) : kind[o] = "thread" }
    <3>1. f.grayagain \subseteq Objects /\ InUse(f) \subseteq Objects
      BY <1>9 DEF Base, StateType, InUse
    <3> QED BY <1>9, <1>10, <3>1
  <2>3. \A o \in InUse(f) : OldOf(f, o)
    <3>1. InUse(a) \subseteq Objects
      BY DEF InUse
    <3> QED BY <1>7, <1>9, <1>10, <1>11, <3>1 DEF OldOf
  <2>4. f.gray = {} /\ f.sweepgc = Nowhere
    BY <1>2, <1>5, <1>11 DEF AllOld, Olden
  <2> QED BY <1>9, <1>11, <2>1, <2>2, <2>3, <2>4 DEF AllOld, Olden
<1>13. GenInv(f)
  BY <1>4, <1>5, <1>11, <1>12, AllOldGen
<1> QED BY <1>1, <1>2, <1>5, <1>9, <1>11, <1>13

(****************************************************************************)
(* The minor collection                                                     *)
(****************************************************************************)

(* Every object of age "old1" is old, and nothing else has changed.  *)
Promoted(s, t) ==
  /\ t \in StateType /\ Same(s, t, {"firstold1", "age"}) /\ t.firstold1 = NULL
  /\ \A o \in Objects : t.age[o] = IF s.age[o] = "old1" THEN "old" ELSE s.age[o]

\* markold makes old1 objects old, which keeps the structure of the heap and the trace.
LEMMA PromotedIs ==
  ASSUME NEW s, Base(s), KindOK, NEW t, Promoted(s, t)
  PROVE  /\ Base(t) /\ Live(t) = Live(s) /\ InUse(t) = InUse(s) /\ Marked(t) = Marked(s)
         /\ t.color = s.color /\ t.open = s.open /\ t.gcstate = s.gcstate
         /\ \A o \in Objects : Refs(t, o) = Refs(s, o) /\ (IsOld(t, o) <=> IsOld(s, o))
         /\ \A X, r : Trace(s, X, r) => Trace(t, X, r)
<1>1. /\ t.color = s.color /\ t.val = s.val /\ t.key = s.key /\ t.open = s.open
      /\ t.stack = s.stack /\ t.twups = s.twups /\ t.gcstate = s.gcstate
      /\ t.allgc = s.allgc /\ t.finobj = s.finobj /\ t.tobefnz = s.tobefnz
      /\ t.gray = s.gray /\ t.grayagain = s.grayagain /\ t.weak = s.weak
      /\ t.allweak = s.allweak /\ t.ephemeron = s.ephemeron
  BY DEF Promoted, Same, Fields
<1>2. Live(t) = Live(s) /\ InUse(t) = InUse(s) /\ Marked(t) = Marked(s)
  BY <1>1 DEF Live, InUse, Marked
<1>3. ASSUME NEW o \in Objects
      PROVE  /\ Refs(t, o) = Refs(s, o) /\ (IsOld(t, o) <=> IsOld(s, o))
             /\ t.age[o] \in {"touched1", "touched2"} <=> s.age[o] \in {"touched1", "touched2"}
             /\ o \notin InUse(t) => t.age[o] = "new"
  <2>1. o \notin InUse(t) => s.age[o] = "new"
    BY <1>2 DEF Base, Shape, ShapeOf
  <2>2. Refs(t, o) = Refs(s, o)
    BY <1>1 DEF Refs, Stack, OpenUpvals, UpvalValue
  <2>3. t.age[o] = IF s.age[o] = "old1" THEN "old" ELSE s.age[o]
    BY DEF Promoted
  <2> QED BY <2>1, <2>2, <2>3 DEF IsOld
<1>4. Shape(t)
  <2>1. \A o \in Objects : ShapeOf(t, o)
    BY <1>1, <1>2, <1>3 DEF Base, Shape, ShapeOf
  <2> QED BY <1>1, <2>1 DEF Base, Shape
<1>5. Base(t)
  <2>1. Lists(t)
    BY <1>1, <1>2 DEF Base, Lists
  <2>2. Closed(t)
    BY <1>1, <1>2, <1>3 DEF Base, Closed
  <2> QED BY <1>4, <2>1, <2>2 DEF Base, Promoted
<1>6. ASSUME NEW X, NEW r, Trace(s, X, r) PROVE Trace(t, X, r)
  <2>1. Pending(t) = Pending(s) /\ Later(t) = Later(s)
    BY <1>1 DEF Pending, Later
  <2>2. ASSUME NEW o \in Objects PROVE TraceOf(t, X, r, o)
    <3>1. TraceOf(s, X, r, o)
      BY <1>6 DEF Trace
    <3>2. Full(s, o) => Full(t, o)
      BY <1>1, <1>3 DEF Full, IsWhite
    <3>3. Visited(s, o, r) => Visited(t, o, r)
      BY <1>1, <3>2 DEF Visited, IsWhite
    <3>4. /\ IsGray(t, o) <=> IsGray(s, o)
          /\ IsBlack(t, o) <=> IsBlack(s, o)
          /\ \A x : IsWhite(t, x) <=> IsWhite(s, x)
      BY <1>1 DEF IsGray, IsBlack, IsWhite
    <3> QED BY <1>1, <1>2, <1>3, <2>1, <3>1, <3>3, <3>4 DEF TraceOf
  <2> QED BY <1>1, <1>2, <1>6, <2>1, <2>2 DEF Trace
<1> QED BY <1>1, <1>2, <1>3, <1>5, <1>6

\* Objects that were fully visited, or are gray, need not be left to visit.
LEMMA TraceNone ==
  ASSUME NEW s \in StateType, NEW X, Trace(s, X, FALSE),
         \A o \in X : o \in s.gray \/ (Full(s, o) /\ kind[o] # "thread" /\ IsBlack(s, o)
                                       /\ s.age[o] \notin {"touched1", "touched2"})
  PROVE  Trace(s, {}, FALSE)
<1>1. ASSUME NEW o \in Objects PROVE TraceOf(s, {}, FALSE, o)
  <2>1. TraceOf(s, X, FALSE, o)
    BY DEF Trace
  <2>2. CASE o \notin X \/ o \in s.gray
    BY <2>1, <2>2 DEF TraceOf
  <2>3. CASE o \in X /\ o \notin s.gray
    <3>1. Full(s, o) /\ kind[o] # "thread" /\ IsBlack(s, o) /\ s.age[o] \notin {"touched1", "touched2"}
      BY <2>3
    <3>2. ~IsGray(s, o)
      BY <3>1 DEF IsGray, IsBlack
    <3> QED BY <2>1, <3>1, <3>2 DEF TraceOf, Visited
  <2> QED BY <2>2, <2>3
<1> QED BY <1>1 DEF Trace

(* What markold leaves of a state between two collections.  *)
Olds(s, m) ==
  /\ Base(m) /\ Trace(m, {}, FALSE) /\ NoDead(m) /\ InUse(m) = InUse(s)
  /\ Same(s, m, {"firstold1", "age", "color", "gray"}) /\ m.firstold1 = NULL
  /\ \A o \in Objects :
       /\ m.age[o] = IF s.age[o] = "old1" THEN "old" ELSE s.age[o]
       /\ o \in Marked(s) => o \in Marked(m)
       /\ Refs(m, o) = Refs(s, o)

\* markold from firstold1 reaches every black old1 object, so that the trace holds without
\* them.
LEMMA MarkOldsIs ==
  ASSUME NEW s, Base(s), GenInv(s), KindOK
  PROVE  Olds(s, MarkOlds(s))
<1> DEFINE e == [s EXCEPT !.firstold1 = NULL]
<1> DEFINE S == (In(From(s.allgc, s.firstold1)) \ In(From(s.allgc, s.reallyold)))
                \cup In(Before(s.finobj, s.finobjrold)) \cup In(s.tobefnz)
<1> DEFINE old1 == { o \in S : e.age[o] = "old1" }
<1> DEFINE A == [o \in Objects |-> IF o \in old1 THEN "old" ELSE e.age[o]]
<1> DEFINE t == [e EXCEPT !.age = A]
<1> DEFINE X == BlackOld1(s)
<1> DEFINE m == ReallyMark(t, X)
<1>1. s \in StateType /\ Shape(s) /\ Lists(s) /\ GenLists(s) /\ Ready(s, X) /\ s.gcstate = "propagate"
  BY DEF Base, GenInv
<1>2. e.age = s.age /\ e.color = s.color
  BY <1>1 DEF StateType
<1>3. S \subseteq Objects /\ \A o \in Objects : s.age[o] = "old1" => o \in S
  <2>1. /\ s.allgc \in Seq(Objects) /\ s.finobj \in Seq(Objects) /\ In(s.tobefnz) \subseteq Objects
        /\ IsInjective(s.allgc) /\ IsInjective(s.finobj)
    <3>1. s.allgc \in Seq(Objects) /\ s.finobj \in Seq(Proper) /\ s.tobefnz \in Seq(Proper)
      BY <1>1 DEF StateType
    <3>2. In(s.tobefnz) \subseteq Proper
      BY <3>1, InType
    <3> QED BY <1>1, <3>1, <3>2 DEF Proper, Lists
  <2>2. s.finobjrold \in Pointers(s.finobj)
    <3>1. /\ s.finobjsur \in Pointers(s.finobj)
          /\ s.finobjold1 \in Pointers(From(s.finobj, s.finobjsur))
          /\ s.finobjrold \in Pointers(From(s.finobj, s.finobjold1))
      BY <1>1 DEF GenLists, Divided
    <3>2. Divided(s.finobj, s.finobjsur, s.finobjold1, s.finobjrold)
      BY <1>1 DEF GenLists
    <3>4. s.finobjold1 \in Pointers(s.finobj)
          /\ In(From(s.finobj, s.finobjold1)) \subseteq In(s.finobj)
      BY <2>1, <3>2, FromSubset
    <3> QED BY <3>1, <3>4 DEF Pointers
  <2>3. In(Before(s.finobj, s.finobjrold)) = In(s.finobj) \ In(From(s.finobj, s.finobjrold))
    BY <2>1, <2>2, BeforeFrom
  <2>4. s.firstold1 \in Pointers(s.allgc)
    BY <1>1 DEF GenLists
  <2>5. In(From(s.allgc, s.firstold1)) \subseteq In(s.allgc)
    BY <2>1, <2>4, BeforeFrom
  <2>6. In(s.allgc) \subseteq Objects /\ In(s.finobj) \subseteq Objects
    BY <2>1, InType
  <2>7. ASSUME NEW o \in Objects, s.age[o] = "old1" PROVE o \in S
    <3>1. o \in InUse(s)
      BY <1>1, <2>7 DEF Shape, ShapeOf
    <3>2. o \in In(s.allgc) \cup In(s.finobj) \cup In(s.tobefnz)
      BY <1>1, <3>1 DEF Lists
    <3> QED BY <1>1, <2>3, <2>7, <3>2 DEF GenLists
  <2> QED BY <2>1, <2>3, <2>5, <2>6, <2>7
<1>4. MarkOlds(s) = m
  <2>1. { o \in old1 : IsBlack(e, o) } = X
    BY <1>2, <1>3 DEF BlackOld1, IsBlack
  <2>2. MarkOlds(s) = ReallyMark(t, { o \in old1 : IsBlack(e, o) })
    <3>1. MarkOlds(s) = MarkOld(e, S)
      BY DEF MarkOlds
    <3> HIDE DEF S, e
    <3>2. MarkOld(e, S) = ReallyMark(t, { o \in old1 : IsBlack(e, o) })
      BY DEF MarkOld, t
    <3> QED BY <3>1, <3>2
  <2> QED BY <2>1, <2>2
<1>5. Promoted(s, t)
  <2> HIDE DEF S
  <2>1. \A o \in Objects : A[o] = IF s.age[o] = "old1" THEN "old" ELSE s.age[o]
    BY <1>2, <1>3
  <2>2. A \in [Objects -> Ages]
    <3>1. s.age \in [Objects -> Ages] /\ "old" \in Ages
      BY <1>1 DEF StateType, Ages
    <3> QED BY <1>2, <2>1, <3>1
  <2> HIDE DEF A
  <2>3. t \in StateType /\ Same(s, t, {"firstold1", "age"}) /\ t.firstold1 = NULL /\ t.age = A
    BY <1>1, <2>2 DEF StateType, Same, Fields, OrNull
  <2> QED BY <2>1, <2>3 DEF Promoted
<1> HIDE DEF t, X
<1>6. /\ Base(t) /\ InUse(t) = InUse(s) /\ Marked(t) = Marked(s)
      /\ t.color = s.color /\ t.open = s.open /\ t.gcstate = s.gcstate
      /\ \A o \in Objects : Refs(t, o) = Refs(s, o)
      /\ Trace(t, X, FALSE)
  BY <1>1, <1>5, PromotedIs DEF Ready
<1>7. t \in StateType /\ Shape(t) /\ X \in SUBSET InUse(t) /\ NoDead(t)
  <2>1. X \subseteq InUse(s)
    BY DEF X, BlackOld1, IsBlack, InUse
  <2>2. NoDead(t)
    BY <1>1, <1>6 DEF NoDead, Ready
  <2> QED BY <1>6, <2>1, <2>2 DEF Base
<1>8. /\ Marks(t, m) /\ Shape(m) /\ Marked(m) = Marked(t) \cup Struck(t, X)
      /\ Same(t, m, {"color", "gray"})
      /\ \A o \in Objects : o \notin Struck(t, X) => m.color[o] = t.color[o]
      /\ m.gray = t.gray \cup { o \in Struck(t, X) : kind[o] \notin {"string", "upval", "bareudata"} }
  BY <1>7, ReallyMarkMarks DEF m
<1>9. Trace(m, X, FALSE)
  BY <1>6, <1>7, ReallyMarkTrace DEF m
<1>10. m.color = [o \in Objects |-> IF o \notin Struck(t, X) THEN t.color[o]
                             ELSE IF Done(t, o) THEN "black" ELSE "gray"]
  <2>1. X \in SUBSET Objects
    BY DEF X, BlackOld1
  <2> QED BY <1>7, <2>1, ReallyMarkIs DEF m
<1> HIDE DEF m
<1>11. /\ m.age = t.age /\ m.val = t.val /\ m.key = t.key /\ m.open = t.open /\ m.stack = t.stack
       /\ m.twups = t.twups /\ m \in StateType
  BY <1>8 DEF Same, Fields, Marks
<1>12. Base(m) /\ NoDead(m) /\ InUse(m) = InUse(t)
  BY <1>6, <1>7, <1>8, <1>11, MarksBase
<1>13. \A o \in Objects : Refs(m, o) = Refs(s, o)
  BY ZenonT(40), <1>6, <1>11 DEF Refs, Stack, OpenUpvals, UpvalValue
<1>14. Trace(m, {}, FALSE)
  <2>1. ASSUME NEW o \in X, o \notin m.gray
        PROVE  Full(m, o) /\ kind[o] # "thread" /\ IsBlack(m, o)
               /\ m.age[o] \notin {"touched1", "touched2"}
    <3>1. o \in Objects /\ IsBlack(s, o) /\ s.age[o] = "old1"
      BY DEF X, BlackOld1
    <3>2. o \in Struck(t, X)
      <4>1. X \in SUBSET Objects
        BY DEF X, BlackOld1
      <4> QED BY <1>7, <4>1, StruckIs
    <3>3. kind[o] \in {"string", "upval", "bareudata"}
      BY <1>8, <2>1, <3>1, <3>2
    <3>4. s.open[o] = NULL
      BY <1>1, <3>1 DEF Shape, ShapeOf, IsBlack
    <3>5. Done(t, o)
      BY <1>6, <3>3, <3>4 DEF Done
    <3>6. IsBlack(m, o)
      BY <1>10, <3>1, <3>2, <3>5 DEF IsBlack
    <3>7. m.age[o] = "old"
      BY <1>5, <1>11, <3>1 DEF Promoted
    <3>8. Full(m, o)
      <4>1. CASE kind[o] = "string"
        <5>1. m.val[o] = NULL /\ m.key[o] = NULL
          BY <1>8, <3>1, <4>1 DEF Shape, ShapeOf, WeakKinds
        <5>2. Refs(m, o) = {}
          BY <3>1, <4>1, <5>1, RefsOther
        <5> QED BY <5>2 DEF Full
      <4>2. CASE kind[o] \in {"upval", "bareudata"}
        <5>0. ASSUME kind[o] = "bareudata" PROVE Refs(m, o) = {UpvalValue(m, o)} \ {NULL}
          <6>1. m.key[o] = NULL /\ m.open[o] = NULL
            BY <1>8, <3>1, <5>0 DEF Shape, ShapeOf, WeakKinds
          <6>2. UpvalValue(m, o) = m.val[o]
            BY <6>1 DEF UpvalValue
          <6> QED BY <3>1, <5>0, <6>1, <6>2, RefsOther
        <5>1. Refs(m, o) = {UpvalValue(m, o)} \ {NULL}
          BY <3>1, <4>2, <5>0, RefsUpval
        <5>2. UpvalValue(m, o) = UpvalValue(t, o)
          BY <1>11 DEF UpvalValue
        <5>3. UpvalValue(t, o) \in OrNull(Proper)
          BY <1>7, <3>1, RefsType
        <5>4. ASSUME NEW v \in Objects, v = UpvalValue(t, o) PROVE ~IsWhite(m, v)
          <6>1. IsWhite(t, v) => v \in Struck(t, X)
            <7>1. X \in SUBSET Objects /\ v # NULL
              BY <5>4, Null DEF X, BlackOld1
            <7> QED BY <1>7, <3>2, <4>2, <5>4, <7>1, StruckIs
          <6>2. v \in Struck(t, X) => ~IsWhite(m, v)
            BY <1>10 DEF IsWhite
          <6>3. v \notin Struck(t, X) => m.color[v] = t.color[v]
            BY <1>8
          <6> QED BY <6>1, <6>2, <6>3 DEF IsWhite
        <5> QED BY <5>1, <5>2, <5>3, <5>4 DEF Full, OrNull, Proper
      <4> QED BY <3>3, <4>1, <4>2
    <3> QED BY <3>3, <3>6, <3>7, <3>8
  <2> QED BY <1>9, <1>11, <2>1, TraceNone
<1>15. Same(s, m, {"firstold1", "age", "color", "gray"}) /\ m.firstold1 = NULL
  BY <1>5, <1>8 DEF Promoted, Same, Fields
<1>16. \A o \in Objects : /\ m.age[o] = IF s.age[o] = "old1" THEN "old" ELSE s.age[o]
                          /\ o \in Marked(s) => o \in Marked(m)
  BY <1>5, <1>6, <1>8, <1>11 DEF Promoted
<1> QED BY <1>4, <1>6, <1>12, <1>13, <1>14, <1>15, <1>16 DEF Olds

YoungFields == {"color", "age", "val", "key", "open", "gcstate", "allgc", "finobj", "survival", "old1",
                "reallyold", "firstold1", "finobjsur", "finobjold1", "finobjrold"}
(* What the sweep of the objects S leaves of a live object o of the state a.  *)
SweptOf(a, t, S, o) ==
  /\ t.age[o] = IF o \in S THEN NextAge(a.age[o]) ELSE a.age[o]
  /\ IF o \in S /\ a.age[o] = "new" THEN t.color[o] = "white"
     ELSE \/ t.color[o] = a.color[o] /\ t.open[o] = a.open[o]
          \/ t.color[o] = "black" /\ t.open[o] = NULL /\ a.open[o] # NULL
  /\ t.open[o] # a.open[o] => t.open[o] = NULL /\ a.open[o] \notin Live(a)
  /\ Refs(t, o) \subseteq Refs(a, o)

Swept(a, t, S) ==
  /\ t \in StateType /\ Same(a, t, YoungFields) /\ Shape(t) /\ Closed(t) /\ Live(t) = Live(a)
  /\ InUse(t) = InUse(a) \ (S \ Live(a))
  /\ \A o \in Live(a) : SweptOf(a, t, S, o)
(* A state as an atomic phase leaves it in generational mode.  *)
MarkingDone(a) == Base(a) /\ Live(a) = Marked(a) /\ a.gckind = "genminor"

\* sweepgen frees what is dead and ages what it keeps, a set of objects at a time.
LEMMA SweepGenIs ==
  ASSUME NEW a, MarkingDone(a), KindOK, NEW t, NEW S, Swept(a, t, S), NEW T, T \subseteq InUse(t),
         T \cap S = {}, NEW u, u = SweepGen(t, T)
  PROVE  Swept(a, u, S \cup T) /\ Same(t, u, {"color", "age", "val", "key", "open"})
<1> DEFINE lives == { o \in T : ~IsWhite(t, o) }
<1> DEFINE F == T \ lives
<1> DEFINE f == FreeObj(t, F)
<1> DEFINE C == [o \in Objects |-> IF o \in lives /\ t.age[o] = "new" THEN "white" ELSE f.color[o]]
<1> DEFINE A == [o \in Objects |-> IF o \in lives THEN NextAge(f.age[o]) ELSE f.age[o]]
<1>1. /\ t \in StateType /\ Same(a, t, YoungFields) /\ Shape(t) /\ Closed(t) /\ Live(t) = Live(a)
      /\ InUse(t) = InUse(a) \ (S \ Live(a)) /\ Live(a) = Marked(a)
  BY DEF Swept, MarkingDone
<1>2. \A o \in Live(a) : SweptOf(a, t, S, o)
  BY DEF Swept
<1>3. T \subseteq Objects
  BY DEF InUse
<1>4. lives = T \cap Live(a) /\ F = T \ Live(a) /\ F \subseteq Objects /\ F \cap Live(t) = {}
  <2>1. ASSUME NEW o \in T PROVE IsWhite(t, o) <=> o \notin Live(a)
    <3>1. CASE o \in Live(a)
      <4>1. a.color[o] \in {"gray", "black"} /\ o \notin S
        BY <1>1, <3>1 DEF Marked
      <4>2. t.color[o] \in {"gray", "black"}
        BY <1>2, <3>1, <4>1 DEF SweptOf
      <4> QED BY <3>1, <4>2 DEF IsWhite
    <3>2. CASE o \notin Live(a)
      <4>1. o \in InUse(t) /\ o \notin Live(t) /\ o \in Objects
        BY <1>1, <1>3, <3>2
      <4>2. t.color[o] \in Colors
        BY <1>1, <4>1 DEF StateType
      <4> QED BY <3>2, <4>1, <4>2 DEF InUse, Live, IsWhite, Colors
    <3> QED BY <3>1, <3>2
  <2> QED BY <1>1, <1>3, <2>1
<1> HIDE DEF lives, F
<1>5. u = [f EXCEPT !.color = C, !.age = A]
  <2>1. SweepGen(t, T) = [FreeObj(t, F) EXCEPT
        !.color = [o \in Objects |->
                     IF o \in lives /\ t.age[o] = "new" THEN "white" ELSE @[o]],
        !.age = [o \in Objects |-> IF o \in lives THEN NextAge(@[o]) ELSE @[o]]]
    BY DEF SweepGen, lives, F
  <2> QED BY <2>1
<1> HIDE DEF f
<1>6. Freed(t, f, F)
  BY <1>1, <1>4, FreeObjIs DEF f
<1>7. Closed(f) /\ Live(f) = Live(t)
  BY <1>1, <1>4, <1>6, FreedClosed
<1>8. /\ f \in StateType /\ Same(t, f, {"color", "age", "val", "key", "open"}) /\ Shape(f)
      /\ InUse(f) = InUse(t) \ F /\ \A o \in Objects : FreedOf(t, f, F, o)
  BY <1>6 DEF Freed
<1>9. C \in [Objects -> Colors] /\ A \in [Objects -> Ages]
  <2>1. f.color \in [Objects -> Colors] /\ f.age \in [Objects -> Ages]
    BY <1>8 DEF StateType
  <2>2. "white" \in Colors /\ \A x \in Ages : NextAge(x) \in Ages
    BY DEF Colors, Ages, NextAge
  <2> QED BY <2>1, <2>2
<1>10. \A o \in Objects : /\ C[o] = IF o \in lives /\ t.age[o] = "new" THEN "white" ELSE f.color[o]
                          /\ A[o] = IF o \in lives THEN NextAge(f.age[o]) ELSE f.age[o]
  OBVIOUS
<1> HIDE DEF C, A
<1>11. u \in StateType /\ Same(f, u, {"color", "age"}) /\ u.color = C /\ u.age = A
  BY ZenonT(40), <1>5, <1>8, <1>9 DEF StateType, Same, Fields
<1>12. /\ u.val = f.val /\ u.key = f.key /\ u.open = f.open /\ u.stack = f.stack /\ u.twups = f.twups
       /\ u.tobefnz = f.tobefnz
  BY <1>11 DEF Same, Fields
<1>13. \A o \in Objects : Refs(u, o) = Refs(f, o)
  BY <1>12 DEF Refs, Stack, OpenUpvals, UpvalValue
<1>14. \A o \in lives : o \in Live(f) /\ o \in InUse(f) /\ o \in Objects
  BY <1>1, <1>3, <1>4, <1>7, <1>8 DEF Live, InUse
<1>15. Live(u) = Live(f) /\ InUse(u) = InUse(f)
  BY <1>10, <1>11, <1>14 DEF Live, InUse
<1>16. Shape(u)
  <2>1. ASSUME NEW o \in Objects PROVE ShapeOf(u, o)
    <3>1. ShapeOf(f, o)
      BY <1>8 DEF Shape
    <3>2. o \notin InUse(f) => u.age[o] = f.age[o]
      BY <1>10, <1>11, <1>14
    <3>3. u.color[o] = "black" => f.color[o] = "black"
      BY <1>10, <1>11
    <3> QED BY <1>12, <1>15, <3>1, <3>2, <3>3 DEF ShapeOf
  <2> QED BY <1>8, <1>12, <2>1 DEF Shape
<1>17. Closed(u)
  BY <1>7, <1>12, <1>13, <1>15 DEF Closed
<1>18. InUse(u) = InUse(a) \ ((S \cup T) \ Live(a))
  BY <1>1, <1>4, <1>8, <1>15
<1>19. ASSUME NEW o \in Live(a) PROVE SweptOf(a, u, S \cup T, o)
  <2>1. o \in Objects /\ o \notin F /\ SweptOf(a, t, S, o) /\ FreedOf(t, f, F, o) /\ (o \in lives <=> o \in T)
    BY <1>2, <1>4, <1>8 DEF Live
  <2>2. a.color[o] \in {"gray", "black"} /\ t.gckind = "genminor"
    <3>1. t.gckind = a.gckind
      BY <1>1 DEF Same, Fields, YoungFields
    <3> QED BY <1>1, <3>1 DEF Marked, MarkingDone
  <2>3. f.age[o] = t.age[o]
    BY <2>1 DEF FreedOf
  <2>4. u.age[o] = IF o \in S \cup T THEN NextAge(a.age[o]) ELSE a.age[o]
    <3>1. t.age[o] = IF o \in S THEN NextAge(a.age[o]) ELSE a.age[o]
      BY <2>1 DEF SweptOf
    <3>2. u.age[o] = IF o \in T THEN NextAge(t.age[o]) ELSE t.age[o]
      BY <1>10, <1>11, <2>1, <2>3
    <3> QED BY <3>1, <3>2
  <2>5. Refs(u, o) \subseteq Refs(a, o)
    <3>1. Refs(f, o) \subseteq Refs(t, o)
      BY <2>1 DEF FreedOf
    <3>2. Refs(t, o) \subseteq Refs(a, o)
      BY <2>1 DEF SweptOf
    <3> QED BY <1>13, <2>1, <3>1, <3>2
  <2>6. t.open[o] \in F => t.open[o] \notin Live(a) /\ t.open[o] # NULL /\ f.open[o] = NULL
    BY <1>1, <1>4, <2>1, Null DEF FreedOf
  <2>7. t.open[o] \notin F => f.open[o] = t.open[o] /\ f.color[o] = t.color[o]
    BY <2>1 DEF FreedOf
  <2>8. u.open[o] # a.open[o] => u.open[o] = NULL /\ a.open[o] \notin Live(a)
    BY <1>12, <2>1, <2>6, <2>7 DEF SweptOf
  <2>9. u.color[o] = IF o \in T /\ t.age[o] = "new" THEN "white" ELSE f.color[o]
    BY <1>10, <1>11, <2>1
  <2>10. CASE o \in S
    <3>1. o \notin T
      BY <2>10
    <3>2. CASE a.age[o] = "new"
      <4>1. t.color[o] = "white"
        BY <2>1, <2>10, <3>2 DEF SweptOf
      <4>2. f.color[o] = "white"
        BY <2>1, <2>6, <2>7, <4>1 DEF FreedOf, IsWhite
      <4> QED BY <2>4, <2>5, <2>8, <2>9, <2>10, <3>1, <3>2, <4>2 DEF SweptOf
    <3>3. CASE a.age[o] # "new"
      <4>1. \/ t.color[o] = a.color[o] /\ t.open[o] = a.open[o]
            \/ t.color[o] = "black" /\ t.open[o] = NULL /\ a.open[o] # NULL
        BY <2>1, <3>3 DEF SweptOf
      <4>2. t.open[o] \in F => f.color[o] = "black"
        BY <2>1, <2>2, <4>1 DEF FreedOf, IsWhite
      <4>3. \/ u.color[o] = a.color[o] /\ u.open[o] = a.open[o]
            \/ u.color[o] = "black" /\ u.open[o] = NULL /\ a.open[o] # NULL
        BY <1>12, <2>6, <2>7, <2>9, <3>1, <4>1, <4>2
      <4> QED BY <2>4, <2>5, <2>8, <3>3, <4>3 DEF SweptOf
    <3> QED BY <3>2, <3>3
  <2>11. CASE o \notin S
    <3>1. t.age[o] = a.age[o]
      BY <2>1, <2>11 DEF SweptOf
    <3>2. CASE o \in T /\ a.age[o] = "new"
      BY <2>4, <2>5, <2>8, <2>9, <3>1, <3>2 DEF SweptOf
    <3>3. CASE ~(o \in T /\ a.age[o] = "new")
      <4>1. \/ t.color[o] = a.color[o] /\ t.open[o] = a.open[o]
            \/ t.color[o] = "black" /\ t.open[o] = NULL /\ a.open[o] # NULL
        BY <2>1, <2>11 DEF SweptOf
      <4>2. t.open[o] \in F => f.color[o] = "black"
        BY <2>1, <2>2, <4>1 DEF FreedOf, IsWhite
      <4>3. \/ u.color[o] = a.color[o] /\ u.open[o] = a.open[o]
            \/ u.color[o] = "black" /\ u.open[o] = NULL /\ a.open[o] # NULL
        BY <1>12, <2>6, <2>7, <2>9, <3>1, <3>3, <4>1, <4>2
      <4> QED BY <2>4, <2>5, <2>8, <2>11, <3>3, <4>3 DEF SweptOf
    <3> QED BY <3>2, <3>3
  <2> QED BY <2>10, <2>11
<1>20. Same(t, u, {"color", "age", "val", "key", "open"}) /\ Same(a, u, YoungFields)
  BY <1>1, <1>8, <1>11 DEF Same, Fields, YoungFields
<1> QED BY <1>1, <1>7, <1>11, <1>15, <1>16, <1>17, <1>18, <1>19, <1>20 DEF Swept

(* The list M that a young collection leaves of L, of which K lives, with its pointers.  *)
ListSwept(L, p, q, M, p1, q1, r1, K) ==
  /\ M \in Seq(Objects) /\ IsInjective(M) /\ In(M) = In(L) \cap K
  /\ Divided(M, p1, q1, r1) /\ From(M, p1) = M
  /\ In(From(M, q1)) \subseteq In(From(L, p)) /\ From(M, r1) = From(L, q)

Second(L, p, q, K) == Keep(Before(From(L, p), q), K) \o From(L, q)

Whole(L, p, q, K) == Keep(Before(L, p), K) \o Second(L, p, q, K)

\* sweepgen on a divided list: the parts move up by one age.
LEMMA ListSweptIs ==
  ASSUME NEW L \in Seq(Objects), IsInjective(L), NEW p, NEW q, NEW r, Divided(L, p, q, r),
         NEW K, In(From(L, q)) \subseteq K
  PROVE  LET M == Whole(L, p, q, K)
         IN  ListSwept(L, p, q, M, First(M), First(Second(L, p, q, K)), q, K)
<1> DEFINE A == Before(L, p)
<1> DEFINE B == Before(From(L, p), q)
<1> DEFINE c == From(L, q)
<1> DEFINE x == Keep(A, K)
<1> DEFINE y == Keep(B, K)
<1> DEFINE n == Second(L, p, q, K)
<1> DEFINE M == Whole(L, p, q, K)
<1>1. p \in Pointers(L) /\ q \in Pointers(From(L, p))
  BY DEF Divided
<1>2. /\ A \in Seq(Objects) /\ B \in Seq(Objects) /\ c \in Seq(Objects)
      /\ IsInjective(A) /\ IsInjective(B) /\ IsInjective(c) /\ First(c) = q
      /\ In(A) \cap In(B) = {} /\ In(A) \cap In(c) = {} /\ In(B) \cap In(c) = {}
      /\ In(L) = In(A) \cup In(B) \cup In(c) /\ In(From(L, p)) = In(B) \cup In(c)
  BY <1>1, ThreeParts
<1>3. c = From(L, q)
  OBVIOUS
<1>4. n = y \o c /\ M = x \o n
  BY DEF Second, Whole
<1> HIDE DEF A, B, c
<1>5. /\ x \in Seq(Objects) /\ In(x) = In(A) \cap K /\ IsInjective(x)
      /\ y \in Seq(Objects) /\ In(y) = In(B) \cap K /\ IsInjective(y)
  BY <1>2, OnceKeep
<1> HIDE DEF x, y, n, M
<1>6. n \in Seq(Objects) /\ In(n) = In(y) \cup In(c) /\ IsInjective(n)
  <2>1. y \o c \in Seq(Objects)
    BY <1>2, <1>5
  <2>2. In(y \o c) = In(y) \cup In(c)
    BY <1>2, <1>5, InConcat
  <2>3. IsInjective(y \o c)
    <3>1. In(y) \cap In(c) = {}
      BY <1>2, <1>5
    <3> QED BY <1>2, <1>5, <3>1, OnceConcat
  <2> QED BY <1>4, <2>1, <2>2, <2>3
<1>7. M \in Seq(Objects) /\ In(M) = In(x) \cup In(n) /\ IsInjective(M)
  <2>1. x \o n \in Seq(Objects)
    BY <1>6, <1>5
  <2>2. In(x \o n) = In(x) \cup In(n)
    BY <1>6, <1>5, InConcat
  <2>3. IsInjective(x \o n)
    <3>1. In(x) \cap In(n) = {}
      BY <1>2, <1>5, <1>6
    <3> QED BY <1>6, <1>5, <3>1, OnceConcat
  <2> QED BY <1>4, <2>1, <2>2, <2>3
<1>8. In(M) = In(L) \cap K
  BY <1>2, <1>3, <1>5, <1>6, <1>7
<1>9. From(M, First(M)) = M /\ First(M) \in Pointers(M)
  <2>1. << >> \o M = M /\ << >> \in Seq(Objects)
    BY <1>7
  <2>2. From(<< >> \o M, First(M)) = M
    BY <1>7, <2>1, FromConcat
  <2> QED BY <1>7, <2>1, <2>2, FirstIs
<1>10. From(M, First(n)) = n /\ First(n) \in Pointers(M)
  <2>1. IsInjective(x \o n)
    BY <1>4, <1>7
  <2> QED BY <1>4, <1>5, <1>6, <2>1, FromConcat
<1>11. From(M, q) = c /\ q \in Pointers(n)
  <2>1. IsInjective(y \o c) /\ IsInjective(x \o n)
    BY <1>4, <1>6, <1>7
  <2>2. From(y \o c, First(c)) = c /\ First(c) \in Pointers(y \o c)
    BY <1>2, <1>5, <2>1, FromConcat
  <2>3. From(n, q) = c /\ q \in Pointers(n)
    BY <1>2, <1>4, <2>2
  <2>4. From(x \o n, q) = From(n, q)
    BY <1>5, <1>6, <2>1, <2>3, FromConcat
  <2> QED BY <1>4, <2>3, <2>4
<1>12. In(n) \subseteq In(From(L, p))
  BY <1>2, <1>5, <1>6
<1> QED BY <1>3, <1>7, <1>8, <1>9, <1>10, <1>11, <1>12 DEF ListSwept, Divided, M, n

\* The parts of a sorted list are sorted, and so are elements of one before those of the
\* other.
LEMMA SortedParts ==
  ASSUME NEW s \in Seq(Objects), NEW t \in Seq(Objects), NEW R, Sorted(s \o t, R)
  PROVE  Sorted(s, R) /\ Sorted(t, R) /\ In(s) \X In(t) \subseteq R
<1> DEFINE c == s \o t
<1>1. /\ c \in Seq(Objects) /\ Len(c) = Len(s) + Len(t) /\ DOMAIN c = 1..(Len(s) + Len(t))
      /\ DOMAIN s = 1..Len(s) /\ DOMAIN t = 1..Len(t) /\ Len(s) \in Nat /\ Len(t) \in Nat
      /\ \A i \in 1..Len(s) : c[i] = s[i]
      /\ \A i \in 1..Len(t) : c[Len(s) + i] = t[i]
  OBVIOUS
<1>2. \A i, j \in DOMAIN c : i < j => <<c[i], c[j]>> \in R
  BY DEF Sorted
<1> HIDE DEF c
<1>3. Sorted(s, R)
  BY <1>1, <1>2 DEF Sorted
<1>4. Sorted(t, R)
  <2>1. ASSUME NEW i \in DOMAIN t, NEW j \in DOMAIN t, i < j PROVE <<t[i], t[j]>> \in R
    <3>1. Len(s) + i \in DOMAIN c /\ Len(s) + j \in DOMAIN c /\ Len(s) + i < Len(s) + j
      BY <1>1, <2>1
    <3>2. <<c[Len(s) + i], c[Len(s) + j]>> \in R
      BY <1>2, <3>1
    <3> QED BY <1>1, <3>2
  <2> QED BY <2>1 DEF Sorted
<1>5. ASSUME NEW x \in In(s), NEW y \in In(t) PROVE <<x, y>> \in R
  <2>1. PICK i \in DOMAIN s : s[i] = x
    BY DEF In
  <2>2. PICK j \in DOMAIN t : t[j] = y
    BY DEF In
  <2>3. i \in DOMAIN c /\ Len(s) + j \in DOMAIN c /\ i < Len(s) + j
    BY <1>1
  <2>4. <<c[i], c[Len(s) + j]>> \in R
    BY <1>2, <2>3
  <2> QED BY <1>1, <2>1, <2>2, <2>4
<1> QED BY <1>3, <1>4, <1>5

\* The first element kept has nothing kept before it.
LEMMA KeptOrder ==
  ASSUME NEW Y \in Seq(Objects), IsInjective(Y), NEW O, NEW p, p = First(Keep(Y, O)), p # NULL,
         NEW R, R = { e \in Objects \X Objects : ~(e[2] = p /\ e[1] \in O) }
  PROVE  Sorted(Y, R) /\ p \in In(Y)
<1> DEFINE k == Keep(Y, O)
<1>1. k \in Seq(Objects) /\ In(k) = In(Y) \cap O /\ Follows(k, Y, Len(Y)) /\ IsInjective(k)
  BY KeepFacts, OnceKeep
<1> HIDE DEF k
<1>2. k # << >> /\ k[1] = p /\ p \in In(k)
  <2>1. k # << >> /\ k[1] = p
    BY DEF First, k
  <2>2. 1 \in DOMAIN k
    BY <1>1, <2>1
  <2> QED BY <2>1, <2>2 DEF In
<1>3. ASSUME NEW i \in DOMAIN Y, NEW j \in DOMAIN Y, i < j, Y[j] = p, Y[i] \in O PROVE FALSE
  <2>1. Y[i] \in In(k)
    <3>1. Y[i] \in In(Y)
      BY DEF In
    <3> QED BY <1>1, <1>3, <3>1
  <2>2. PICK n \in DOMAIN k : k[n] = Y[i]
    BY <2>1 DEF In
  <2>3. DOMAIN k = 1..Len(k) /\ DOMAIN Y = 1..Len(Y) /\ Len(Y) \in Nat /\ Len(k) \in Nat
    BY <1>1
  <2>4. Y[i] # Y[j]
    BY <1>3, <2>3 DEF IsInjective
  <2>5. n # 1
    BY <1>2, <1>3, <2>2, <2>4
  <2>6. 1 \in DOMAIN k /\ 1 < n
    BY <2>3, <2>5
  <2>7. PICK x, y \in 1..Len(Y) : x < y /\ k[1] = Y[x] /\ k[n] = Y[y]
    BY <1>1, <2>2, <2>6 DEF Follows
  <2>8. x = j /\ y = i
    BY <1>2, <1>3, <2>2, <2>3, <2>7 DEF IsInjective
  <2> QED BY <1>3, <2>3, <2>7, <2>8
<1>4. ASSUME NEW i \in DOMAIN Y, NEW j \in DOMAIN Y, i < j PROVE <<Y[i], Y[j]>> \in R
  <2>1. Y[i] \in Objects /\ Y[j] \in Objects
    OBVIOUS
  <2> QED BY <1>3, <1>4, <2>1
<1> QED BY <1>1, <1>2, <1>4 DEF Sorted

\* The first object that became old1 (firstold1) has every other one after it.
LEMMA FirstKept ==
  ASSUME NEW L \in Seq(Objects), IsInjective(L), NEW p, NEW q, NEW r, Divided(L, p, q, r),
         NEW K, In(From(L, q)) \subseteq K, NEW O, O \cap In(From(L, q)) = {},
         O \cap In(L) \subseteq K,
         NEW n, n = First(Keep(Before(L, q), O)), NEW M, M = Whole(L, p, q, K)
  PROVE  n \in Pointers(M) /\ \A o \in In(M) \cap O : o \in In(From(M, n))
<1> DEFINE A == Before(L, p)
<1> DEFINE B == Before(From(L, p), q)
<1> DEFINE c == From(L, q)
<1> DEFINE Y == Before(L, q)
<1> DEFINE x == Keep(A, K)
<1> DEFINE y == Keep(B, K)
<1> DEFINE z == y \o c
<1>1. p \in Pointers(L) /\ q \in Pointers(From(L, p))
  BY DEF Divided
<1>2. /\ A \in Seq(Objects) /\ B \in Seq(Objects) /\ c \in Seq(Objects)
      /\ IsInjective(A) /\ IsInjective(B) /\ IsInjective(c) /\ First(c) = q
      /\ In(A) \cap In(B) = {} /\ In(A) \cap In(c) = {} /\ In(B) \cap In(c) = {}
      /\ In(L) = In(A) \cup In(B) \cup In(c) /\ q \in Pointers(L) /\ L = A \o (B \o c)
  BY <1>1, ThreeParts
<1>3. Y \in Seq(Objects) /\ IsInjective(Y) /\ In(Y) = In(L) \ In(c)
  BY <1>2, BeforeFrom
<1>4. M = x \o z /\ c = From(L, q)
  BY DEF Whole, Second
<1>5. Y = A \o B
  <2> HIDE DEF A, B, c
  <2>1. A \in Seq(Objects) /\ B \in Seq(Objects) /\ c \in Seq(Objects) => A \o (B \o c) = (A \o B) \o c
    OBVIOUS
  <2> DEFINE w == A \o B
  <2>2. w \in Seq(Objects) /\ L = w \o c
    BY <1>2, <2>1
  <2> HIDE DEF w
  <2>3. Before(w \o c, First(c)) = w
    BY <1>2, <2>2, FromConcat
  <2> QED BY <1>2, <2>2, <2>3 DEF w
<1>6. ListSwept(L, p, q, M, First(M), First(Second(L, p, q, K)), q, K)
  BY ListSweptIs
<1>7. M \in Seq(Objects) /\ IsInjective(M) /\ In(M) = In(L) \cap K
  BY <1>6 DEF ListSwept
<1> HIDE DEF A, B, c
<1>8. /\ x \in Seq(Objects) /\ In(x) = In(A) \cap K /\ IsInjective(x)
      /\ y \in Seq(Objects) /\ In(y) = In(B) \cap K /\ IsInjective(y)
  BY <1>2, OnceKeep
<1>9. CASE n = NULL
  <2>1. Keep(Y, O) \in Seq(Objects) /\ In(Keep(Y, O)) = In(Y) \cap O
    BY <1>3, OnceKeep
  <2>2. Keep(Y, O) = << >>
    BY <1>9, <2>1, FirstIs
  <2>3. In(Y) \cap O = {}
    BY <2>1, <2>2, InEmpty
  <2>4. In(M) \cap O = {}
    BY <1>3, <1>4, <1>7, <2>3
  <2> QED BY <1>9, <2>4 DEF Pointers
<1>10. CASE n # NULL
  <2> DEFINE R == { e \in Objects \X Objects : ~(e[2] = n /\ e[1] \in O) }
  <2>1. Sorted(Y, R) /\ n \in In(Y) /\ n \in O
    <3>1. Sorted(Y, R) /\ n \in In(Y)
      BY <1>3, <1>10, KeptOrder
    <3>2. Keep(Y, O) \in Seq(Objects) /\ In(Keep(Y, O)) = In(Y) \cap O
      BY <1>3, OnceKeep
    <3>3. n \in In(Keep(Y, O))
      BY <1>10, <3>2, FirstIs DEF Pointers
    <3> QED BY <3>1, <3>2, <3>3
  <2> HIDE DEF Y
  <2>2. Sorted(A, R) /\ Sorted(B, R) /\ In(A) \X In(B) \subseteq R
    <3>1. Sorted(A \o B, R)
      BY <1>5, <2>1
    <3> HIDE DEF R
    <3> QED BY <1>2, <3>1, SortedParts
  <2>3. n \notin In(c) /\ In(c) \subseteq Objects /\ In(A) \subseteq Objects /\ In(B) \subseteq Objects
    <3>1. In(c) \subseteq Objects /\ In(A) \subseteq Objects /\ In(B) \subseteq Objects
      BY <1>2, InType
    <3> QED BY <1>3, <2>1, <3>1
  <2>4. Sorted(c, R)
    <3>1. DOMAIN c = 1..Len(c)
      BY <1>2
    <3>2. ASSUME NEW i \in DOMAIN c, NEW j \in DOMAIN c PROVE <<c[i], c[j]>> \in R
      <4>1. c[i] \in In(c) /\ c[j] \in In(c)
        BY DEF In
      <4> QED BY <2>3, <4>1
    <3> QED BY <3>2 DEF Sorted
  <2>5. In(y) \X In(c) \subseteq R /\ In(x) \X In(c) \subseteq R /\ In(x) \X In(y) \subseteq R
    BY <1>8, <2>2, <2>3
  <2> HIDE DEF R
  <2>6. Sorted(x, R) /\ Sorted(y, R)
    BY <1>2, <2>2, SortedKeep
  <2> HIDE DEF x, y
  <2>7. z \in Seq(Objects) /\ In(z) = In(y) \cup In(c) /\ Sorted(z, R)
    <3>1. z \in Seq(Objects)
      BY <1>2, <1>8
    <3>2. In(z) = In(y) \cup In(c)
      BY <1>2, <1>8, InConcat
    <3>3. Sorted(z, R)
      BY <1>2, <1>8, <2>4, <2>5, <2>6, SortedConcat
    <3> QED BY <3>1, <3>2, <3>3
  <2> HIDE DEF z
  <2>8. Sorted(M, R)
    <3>1. In(x) \X In(z) \subseteq R
      BY <2>5, <2>7
    <3>2. Sorted(x \o z, R)
      BY <1>8, <2>6, <2>7, <3>1, SortedConcat
    <3> QED BY <1>4, <3>2
  <2>9. n \in Pointers(M) /\ n \in In(M)
    BY <1>3, <1>7, <2>1 DEF Pointers
  <2>10. ASSUME NEW o \in In(M) \cap O, o \notin In(From(M, n)) PROVE FALSE
    <3> DEFINE b == Before(M, n)
    <3> DEFINE f == From(M, n)
    <3>1. b \in Seq(Objects) /\ f \in Seq(Objects) /\ M = b \o f /\ In(M) = In(b) \cup In(f) /\ First(f) = n
      BY ZenonT(40), <1>7, <2>9, BeforeFrom
    <3> HIDE DEF b, f
    <3>2. o \in In(b) /\ n \in In(f)
      <4>1. n \in In(f)
        BY <1>10, <3>1, FirstIs DEF Pointers
      <4> QED BY <2>10, <3>1, <4>1 DEF f
    <3>3. In(b) \X In(f) \subseteq R
      <4>1. Sorted(b \o f, R)
        BY <2>8, <3>1
      <4> QED BY <3>1, <4>1, SortedParts
    <3>4. <<o, n>> \in R
      BY <3>2, <3>3
    <3> QED BY <2>10, <3>4 DEF R
  <2> QED BY <2>9, <2>10
<1> QED BY <1>9, <1>10

\* A list of objects of X is a sequence over X.
LEMMA SeqWithin ==
  ASSUME NEW L \in Seq(Objects), NEW X, In(L) \subseteq X
  PROVE  L \in Seq(X)
<1>1. \A i \in DOMAIN L : L[i] \in In(L)
  BY DEF In
<1> QED BY <1>1

\* Among what the sweep has not reached, white objects are the dead ones.
LEMMA WhiteSwept ==
  ASSUME NEW a, MarkingDone(a), NEW t, NEW S, Swept(a, t, S), NEW o \in InUse(a) \ S
  PROVE  IsWhite(t, o) <=> o \notin Live(a)
<1>1. CASE o \in Live(a)
  <2>1. a.color[o] \in {"gray", "black"} /\ SweptOf(a, t, S, o)
    BY <1>1 DEF MarkingDone, Marked, Swept
  <2>2. t.color[o] \in {"gray", "black"}
    BY <2>1 DEF SweptOf
  <2> QED BY <1>1, <2>2 DEF IsWhite
<1>2. CASE o \notin Live(a)
  <2>1. o \in InUse(t) /\ o \notin Live(t) /\ o \in Objects
    BY <1>2 DEF Swept, InUse
  <2>2. t.color[o] \in Colors
    BY <2>1 DEF Swept, StateType
  <2> QED BY <1>2, <2>1, <2>2 DEF InUse, Live, IsWhite, Colors
<1> QED BY <1>1, <1>2

Moves == {"allgc", "finobj", "survival", "old1", "reallyold", "firstold1", "finobjsur",
          "finobjold1", "finobjrold", "gcstate"}

\* What a sweep does to the objects does not depend on the lists.
LEMMA SweptSame ==
  ASSUME NEW a, NEW t, NEW S, Swept(a, t, S), NEW v \in StateType, Same(t, v, Moves)
  PROVE  Swept(a, v, S) /\ InUse(v) = InUse(t)
<1>1. /\ v.color = t.color /\ v.age = t.age /\ v.val = t.val /\ v.key = t.key /\ v.open = t.open
      /\ v.stack = t.stack /\ v.twups = t.twups /\ v.tobefnz = t.tobefnz
  BY DEF Same, Fields, Moves
<1>2. Live(v) = Live(t) /\ InUse(v) = InUse(t)
  BY <1>1 DEF Live, InUse
<1>3. \A o \in Objects : Refs(v, o) = Refs(t, o)
  BY <1>1 DEF Refs, Stack, OpenUpvals, UpvalValue
<1>4. Shape(v)
  BY <1>1, <1>2 DEF Shape, ShapeOf, Swept
<1>5. Closed(v)
  BY <1>1, <1>2, <1>3 DEF Closed, Swept
<1>6. Same(a, v, YoungFields)
  BY DEF Same, Fields, Moves, YoungFields, Swept
<1>7. \A o \in Live(a) : SweptOf(a, v, S, o)
  <2>1. Live(a) \subseteq Objects
    BY DEF Live
  <2> QED BY <1>1, <1>3, <2>1 DEF SweptOf, Swept
<1> QED BY <1>2, <1>4, <1>5, <1>6, <1>7 DEF Swept

\* Before the sweep nothing is swept.
LEMMA SweptRefl ==
  ASSUME NEW a, MarkingDone(a)
  PROVE  Swept(a, a, {})
<1>1. Base(a)
  BY DEF MarkingDone
<1>2. Same(a, a, YoungFields)
  BY DEF Same
<1>3. \A o \in Live(a) : SweptOf(a, a, {}, o)
  BY DEF SweptOf
<1> QED BY <1>1, <1>2, <1>3 DEF Swept, Base

Young(a, list, old) == In(Before(a[list], a[old]))

AllgcSwept(v, M, p, q, r, n) ==
  [v EXCEPT !.allgc = M, !.reallyold = r, !.old1 = q, !.survival = p, !.firstold1 = n]

FinobjSwept(v, M, p, q, r) ==
  [v EXCEPT !.finobj = M, !.finobjrold = r, !.finobjold1 = q, !.finobjsur = p]

Lives(t) == { o \in Objects : ~IsWhite(t, o) }

\* In a list that was not swept yet, what is not white is what lives.
LEMMA LivesList ==
  ASSUME NEW a, MarkingDone(a), NEW t, NEW S, Swept(a, t, S), NEW L \in Seq(Objects), IsInjective(L),
         In(L) \subseteq InUse(a) \ S, NEW p, NEW q, NEW r, Divided(L, p, q, r),
         In(From(L, q)) \subseteq Live(a)
  PROVE  LET n == Second(L, p, q, Lives(t))
             M == Whole(L, p, q, Lives(t))
         IN  /\ ListSwept(L, p, q, M, First(M), First(n), q, Live(a))
             /\ M \in Seq(Objects) /\ In(M) \subseteq In(L)
             /\ First(M) \in Pointers(M) /\ First(n) \in Pointers(M) /\ q \in Pointers(M)
             /\ In(L) \cap Lives(t) = In(L) \cap Live(a)
             /\ In(Before(L, q)) \subseteq InUse(t) /\ In(Before(L, q)) \subseteq In(L)
             /\ In(Before(L, q)) \cap In(From(L, q)) = {}
             /\ In(L) = In(Before(L, q)) \cup In(From(L, q))
<1> DEFINE n == Second(L, p, q, Lives(t))
<1> DEFINE M == Whole(L, p, q, Lives(t))
<1>1. In(L) \cap Lives(t) = In(L) \cap Live(a)
  <2>1. \A o \in In(L) : o \in Objects /\ (IsWhite(t, o) <=> o \notin Live(a))
    BY WhiteSwept DEF InUse
  <2> QED BY <2>1 DEF Lives
<1>2. q \in Pointers(L)
  BY FromSubset
<1>3. In(From(L, q)) \subseteq In(L) /\ In(Before(L, q)) = In(L) \ In(From(L, q))
  BY <1>2, BeforeFrom
<1>4. In(From(L, q)) \subseteq Lives(t)
  BY <1>1, <1>3
<1>5. ListSwept(L, p, q, M, First(M), First(n), q, Lives(t))
  BY <1>4, ListSweptIs
<1> HIDE DEF n, M
<1>6. ListSwept(L, p, q, M, First(M), First(n), q, Live(a))
  BY <1>1, <1>5 DEF ListSwept
<1>7. M \in Seq(Objects) /\ In(M) \subseteq In(L) /\ IsInjective(M) /\ Divided(M, First(M), First(n), q)
  BY <1>6 DEF ListSwept
<1>8. First(M) \in Pointers(M) /\ First(n) \in Pointers(M) /\ q \in Pointers(M)
  <2>1. First(n) \in Pointers(M)
    BY <1>7, FromSubset
  <2>2. q \in Pointers(From(M, First(n)))
    BY <1>7 DEF Divided
  <2>3. In(From(M, First(n))) \subseteq In(M)
    BY <1>7, <2>1, BeforeFrom
  <2> QED BY <1>7, <2>1, <2>2, <2>3 DEF Divided, Pointers
<1>9. In(Before(L, q)) \subseteq InUse(t)
  BY <1>3 DEF Swept
<1> QED BY <1>1, <1>3, <1>6, <1>7, <1>8, <1>9 DEF n, M

\* sweepgen on finobj, from survival on and then from old1 on.
LEMMA SweepFinobjIs ==
  ASSUME NEW a, MarkingDone(a), KindOK, NEW t, NEW S, Swept(a, t, S), t.finobj = a.finobj,
         t.finobjsur = a.finobjsur, t.finobjold1 = a.finobjold1,
         Divided(a.finobj, a.finobjsur, a.finobjold1, a.finobjrold), S \cap In(a.finobj) = {},
         In(From(a.finobj, a.finobjold1)) \subseteq Live(a),
         NEW u, u = SweepGenList(t, "finobj", "finobjsur", "finobjold1", "finobjrold")
  PROVE  /\ Swept(a, u, S \cup Young(a, "finobj", "finobjold1"))
         /\ ListSwept(a.finobj, a.finobjsur, a.finobjold1, u.finobj, u.finobjsur, u.finobjold1,
                      u.finobjrold, Live(a))
         /\ Same(t, u, {"color", "age", "val", "key", "open", "finobj", "finobjsur", "finobjold1",
                        "finobjrold"})
<1> DEFINE L == a.finobj
<1> DEFINE T == In(Before(L, a.finobjold1))
<1> DEFINE v == SweepGen(t, T)
<1> DEFINE n == Second(L, a.finobjsur, a.finobjold1, Lives(t))
<1> DEFINE M == Whole(L, a.finobjsur, a.finobjold1, Lives(t))
<1>1. Base(a) /\ a \in StateType /\ Lists(a)
  BY DEF MarkingDone, Base
<1>2. L \in Seq(Objects) /\ IsInjective(L) /\ In(L) \subseteq InUse(a) \ S /\ In(L) \subseteq Proper
  <2>1. L \in Seq(Proper)
    BY <1>1 DEF StateType
  <2>2. In(L) \subseteq Proper
    BY <2>1, InType
  <2>3. L \in Seq(Objects)
    BY <2>1 DEF Proper
  <2>4. IsInjective(L) /\ In(L) \subseteq InUse(a)
    BY <1>1 DEF Lists
  <2> QED BY <2>2, <2>3, <2>4
<1>3. /\ ListSwept(L, a.finobjsur, a.finobjold1, M, First(M), First(n), a.finobjold1, Live(a))
      /\ M \in Seq(Objects) /\ In(M) \subseteq In(L)
      /\ First(M) \in Pointers(M) /\ First(n) \in Pointers(M) /\ a.finobjold1 \in Pointers(M)
      /\ T \subseteq InUse(t) /\ T \subseteq In(L)
  BY <1>2, LivesList
<1>4. Swept(a, v, S \cup T) /\ Same(t, v, {"color", "age", "val", "key", "open"})
  <2>1. T \cap S = {} /\ T \subseteq InUse(t)
    BY <1>2, <1>3
  <2> HIDE DEF T
  <2> QED BY <2>1, SweepGenIs
<1>5. u = FinobjSwept(v, M, First(M), First(n), a.finobjold1)
  BY DEF SweepGenList, FinobjSwept, Lives, Whole, Second
<1> HIDE DEF v, M, n
<1>6. v \in StateType
  BY <1>4 DEF Swept
<1>7. M \in Seq(Proper) /\ First(M) \in OrNull(Objects) /\ First(n) \in OrNull(Objects)
      /\ a.finobjold1 \in OrNull(Objects)
  <2>1. M \in Seq(Proper)
    BY <1>2, <1>3, SeqWithin
  <2>2. In(M) \subseteq Objects
    BY <1>3, InType
  <2> QED BY <1>3, <2>1, <2>2 DEF Pointers, OrNull
<1>8. /\ u \in StateType /\ Same(v, u, {"finobj", "finobjsur", "finobjold1", "finobjrold"})
      /\ u.finobj = M /\ u.finobjsur = First(M) /\ u.finobjold1 = First(n)
      /\ u.finobjrold = a.finobjold1
  <2> DEFINE x == First(M)
  <2> DEFINE y == First(n)
  <2> DEFINE z == a.finobjold1
  <2>1. u = [v EXCEPT !.finobj = M, !.finobjrold = z, !.finobjold1 = y, !.finobjsur = x]
    BY <1>5 DEF FinobjSwept
  <2>2. x \in OrNull(Objects) /\ y \in OrNull(Objects) /\ z \in OrNull(Objects)
    BY <1>7
  <2> HIDE DEF x, y, z
  <2>0. M \in Seq(Proper)
    BY <1>7
  <2>3. u \in StateType
    <3>1. [v EXCEPT !.finobj = M, !.finobjrold = z, !.finobjold1 = y, !.finobjsur = x] \in StateType
      BY <1>6, <2>0, <2>2 DEF StateType
    <3> QED BY <2>1, <3>1
  <2>4. /\ Same(v, u, {"finobj", "finobjsur", "finobjold1", "finobjrold"})
        /\ u.finobj = M /\ u.finobjsur = x /\ u.finobjold1 = y /\ u.finobjrold = z
    BY <1>6, <2>1 DEF StateType, Same, Fields
  <2> QED BY <2>3, <2>4 DEF x, y, z
<1>9. Same(v, u, Moves)
  BY <1>8 DEF Same, Moves
<1>10. Swept(a, u, S \cup T)
  BY <1>4, <1>8, <1>9, SweptSame
<1>11. Same(t, u, {"color", "age", "val", "key", "open", "finobj", "finobjsur", "finobjold1",
                        "finobjrold"})
  BY <1>4, <1>8 DEF Same
<1>12. T = Young(a, "finobj", "finobjold1")
  BY DEF Young
<1> QED BY <1>3, <1>8, <1>10, <1>11, <1>12

(* The first object that is going to be "old1" is known.  *)
FirstFound(a, u) ==
  /\ u.firstold1 \in Pointers(u.allgc)
  /\ \A o \in In(u.allgc) : o \in Young(a, "allgc", "old1") /\ NextAge(a.age[o]) = "old1" =>
       o \in In(From(u.allgc, u.firstold1))

\* sweepgen on allgc, which also finds the first object that becomes old1.
LEMMA SweepAllgcIs ==
  ASSUME NEW a, MarkingDone(a), KindOK, NEW t, Swept(a, t, {}), t.allgc = a.allgc,
         t.survival = a.survival, t.old1 = a.old1, t.firstold1 = NULL,
         Divided(a.allgc, a.survival, a.old1, a.reallyold),
         In(From(a.allgc, a.old1)) \subseteq Live(a),
         \A o \in In(From(a.allgc, a.old1)) : a.age[o] # "old1",
         NEW u, u = SweepGenList(t, "allgc", "survival", "old1", "reallyold")
  PROVE  /\ Swept(a, u, Young(a, "allgc", "old1"))
         /\ ListSwept(a.allgc, a.survival, a.old1, u.allgc, u.survival, u.old1, u.reallyold, Live(a))
         /\ Same(t, u, {"color", "age", "val", "key", "open", "allgc", "survival", "old1",
                        "reallyold", "firstold1"})
         /\ FirstFound(a, u)
<1> DEFINE L == a.allgc
<1> DEFINE T == In(Before(L, a.old1))
<1> DEFINE v == SweepGen(t, T)
<1> DEFINE n == Second(L, a.survival, a.old1, Lives(t))
<1> DEFINE M == Whole(L, a.survival, a.old1, Lives(t))
<1> DEFINE O == { o \in Objects : v.age[o] = "old1" }
<1> DEFINE f == First(Keep(Before(L, a.old1), O))
<1>1. Base(a) /\ a \in StateType /\ Lists(a)
  BY DEF MarkingDone, Base
<1>2. L \in Seq(Objects) /\ IsInjective(L) /\ In(L) \subseteq InUse(a) \ {} /\ In(L) \subseteq Objects
  <2>1. L \in Seq(Objects)
    BY <1>1 DEF StateType
  <2>2. In(L) \subseteq Objects
    BY <2>1, InType
  <2>4. IsInjective(L) /\ In(L) \subseteq InUse(a)
    BY <1>1 DEF Lists
  <2> QED BY <2>1, <2>2, <2>4
<1>3. /\ ListSwept(L, a.survival, a.old1, M, First(M), First(n), a.old1, Live(a))
      /\ M \in Seq(Objects) /\ In(M) \subseteq In(L)
      /\ First(M) \in Pointers(M) /\ First(n) \in Pointers(M) /\ a.old1 \in Pointers(M)
      /\ In(L) \cap Lives(t) = In(L) \cap Live(a)
      /\ T \subseteq InUse(t) /\ T \subseteq In(L)
      /\ T \cap In(From(L, a.old1)) = {} /\ In(L) = T \cup In(From(L, a.old1))
  BY <1>2, LivesList
<1>4. Swept(a, v, T) /\ Same(t, v, {"color", "age", "val", "key", "open"})
  <2>1. T \cap {} = {} /\ T \subseteq InUse(t) /\ {} \cup T = T
    BY <1>3
  <2> HIDE DEF T
  <2>2. Swept(a, v, {} \cup T) /\ Same(t, v, {"color", "age", "val", "key", "open"})
    BY <2>1, SweepGenIs
  <2> QED BY <2>1, <2>2
<1>5. u = AllgcSwept(v, M, First(M), First(n), a.old1, f)
  <2>1. v.firstold1 = NULL
    BY <1>4 DEF Same, Fields
  <2> QED BY <2>1 DEF SweepGenList, AllgcSwept, Lives, Whole, Second
<1>6. v \in StateType
  BY <1>4 DEF Swept
<1>7. f \in Pointers(M) /\ \A o \in In(M) \cap O : o \in In(From(M, f))
  <2>1. In(From(L, a.old1)) \subseteq Lives(t)
    BY <1>3
  <2>2. ASSUME NEW o \in In(From(L, a.old1)) PROVE v.age[o] # "old1"
    <3>1. o \in Live(a) /\ o \notin T /\ a.age[o] # "old1"
      BY <1>3
    <3> HIDE DEF v
    <3>2. SweptOf(a, v, T, o)
      BY <1>4, <3>1 DEF Swept
    <3> QED BY <3>1, <3>2 DEF SweptOf
  <2>3. O \cap In(From(L, a.old1)) = {}
    BY <2>2
  <2>4. ASSUME NEW o \in In(L), v.age[o] = "old1" PROVE o \in Live(a)
    <3> HIDE DEF v
    <3>1. o \in InUse(v)
      BY <1>2, <1>4, <2>4 DEF Swept, Shape, ShapeOf
    <3>2. InUse(v) = InUse(a) \ (T \ Live(a))
      BY <1>4 DEF Swept
    <3> QED BY <1>3, <3>1, <3>2
  <2>5. O \cap In(L) \subseteq Lives(t)
    BY <1>3, <2>4
  <2> DEFINE K == Lives(t)
  <2>6. In(From(L, a.old1)) \subseteq K /\ O \cap In(L) \subseteq K /\ M = Whole(L, a.survival, a.old1, K)
    BY <2>1, <2>5
  <2> HIDE DEF O, K, M
  <2> QED BY <1>2, <2>3, <2>6, FirstKept
<1> HIDE DEF v, M, n, f
<1>8. /\ First(M) \in OrNull(Objects) /\ First(n) \in OrNull(Objects)
      /\ a.old1 \in OrNull(Objects) /\ f \in OrNull(Objects) /\ M \in Seq(Objects)
  <2>2. In(M) \subseteq Objects
    BY <1>3, InType
  <2> QED BY <1>3, <1>7, <2>2 DEF Pointers, OrNull
<1>9. /\ u \in StateType /\ Same(v, u, {"allgc", "survival", "old1", "reallyold", "firstold1"})
      /\ u.allgc = M /\ u.survival = First(M) /\ u.old1 = First(n)
      /\ u.reallyold = a.old1 /\ u.firstold1 = f
  <2> DEFINE x == First(M)
  <2> DEFINE y == First(n)
  <2> DEFINE z == a.old1
  <2>1. u = [v EXCEPT !.allgc = M, !.reallyold = z, !.old1 = y, !.survival = x, !.firstold1 = f]
    BY <1>5 DEF AllgcSwept
  <2>2. x \in OrNull(Objects) /\ y \in OrNull(Objects) /\ z \in OrNull(Objects)
    BY <1>8
  <2> HIDE DEF x, y, z
  <2>0. M \in Seq(Objects) /\ f \in OrNull(Objects)
    BY <1>8
  <2>3. u \in StateType
    <3>1. [v EXCEPT !.allgc = M, !.reallyold = z, !.old1 = y, !.survival = x, !.firstold1 = f] \in StateType
      BY <1>6, <2>0, <2>2 DEF StateType
    <3> QED BY <2>1, <3>1
  <2>4. /\ Same(v, u, {"allgc", "survival", "old1", "reallyold", "firstold1"})
        /\ u.allgc = M /\ u.survival = x /\ u.old1 = y /\ u.reallyold = z /\ u.firstold1 = f
    BY <1>6, <2>1 DEF StateType, Same, Fields
  <2> QED BY <2>3, <2>4 DEF x, y, z
<1>10. Same(v, u, Moves)
  BY <1>9 DEF Same, Moves
<1>11. Swept(a, u, T)
  BY <1>4, <1>9, <1>10, SweptSame
<1>12. Same(t, u, {"color", "age", "val", "key", "open", "allgc", "survival", "old1",
                        "reallyold", "firstold1"})
  BY <1>4, <1>9 DEF Same
<1>13. T = Young(a, "allgc", "old1")
  BY DEF Young
<1>14. FirstFound(a, u)
  <2>1. ASSUME NEW o \in In(M), o \in T, NextAge(a.age[o]) = "old1" PROVE o \in In(From(M, f))
    <3>1. o \in Live(a)
      BY <1>3 DEF ListSwept
    <3>2. SweptOf(a, v, T, o)
      BY <1>4, <3>1 DEF Swept
    <3>3. v.age[o] = "old1" /\ o \in Objects
      BY <2>1, <3>1, <3>2 DEF SweptOf, Live
    <3> QED BY <1>7, <3>3
  <2> QED BY <1>7, <1>9, <1>13, <2>1 DEF FirstFound
<1> QED BY <1>3, <1>9, <1>11, <1>12, <1>13, <1>14

(* A state between the atomic phase and the sweeps of a young collection.  *)
YoungReady(a) ==
  /\ MarkingDone(a) /\ a.firstold1 = NULL
  /\ Divided(a.allgc, a.survival, a.old1, a.reallyold)
  /\ Divided(a.finobj, a.finobjsur, a.finobjold1, a.finobjrold)
  /\ In(From(a.allgc, a.old1)) \subseteq Live(a)
  /\ In(From(a.finobj, a.finobjold1)) \subseteq Live(a)
  /\ \A o \in In(From(a.allgc, a.old1)) : a.age[o] # "old1"

YoungSet(a) == Young(a, "allgc", "old1") \cup Young(a, "finobj", "finobjold1") \cup In(a.tobefnz)
(* What the sweeps of a young collection leave of it.  *)
YoungSwept(a, y) ==
  /\ Base(y) /\ InUse(y) = Live(a) /\ Swept(a, y, YoungSet(a))
  /\ ListSwept(a.allgc, a.survival, a.old1, y.allgc, y.survival, y.old1, y.reallyold, Live(a))
  /\ ListSwept(a.finobj, a.finobjsur, a.finobjold1, y.finobj, y.finobjsur, y.finobjold1,
               y.finobjrold, Live(a))
  /\ FirstFound(a, y)

\* The three sweeps of youngcollection.
LEMMA YoungSweepIs ==
  ASSUME NEW a, YoungReady(a), KindOK, NEW z, z = [a EXCEPT !.gcstate = "swpallgc"],
         NEW b, b = SweepGenList(z, "allgc", "survival", "old1", "reallyold"),
         NEW c, c = SweepGenList(b, "finobj", "finobjsur", "finobjold1", "finobjrold"),
         NEW y, y = SweepGen(c, In(c.tobefnz))
  PROVE  YoungSwept(a, y)
<1> DEFINE A == Young(a, "allgc", "old1")
<1> DEFINE B == Young(a, "finobj", "finobjold1")
<1> DEFINE T == In(a.tobefnz)
<1>1. MarkingDone(a) /\ Base(a) /\ a \in StateType /\ Lists(a) /\ Closed(a)
  BY DEF YoungReady, MarkingDone, Base
<1>2. z \in StateType /\ Same(a, z, {"gcstate"})
  BY <1>1 DEF StateType, Same, Fields, Phases
<1>3. /\ z.allgc = a.allgc /\ z.survival = a.survival /\ z.old1 = a.old1 /\ z.firstold1 = NULL
      /\ z.finobj = a.finobj /\ z.finobjsur = a.finobjsur /\ z.finobjold1 = a.finobjold1
      /\ z.tobefnz = a.tobefnz
  BY <1>2 DEF Same, Fields, YoungReady
<1>4. Swept(a, z, {})
  <2>1. Same(a, z, Moves)
    BY <1>2 DEF Same, Moves
  <2>2. Swept(a, a, {})
    BY <1>1, SweptRefl
  <2> QED BY <1>2, <2>1, <2>2, SweptSame
<1>5. /\ In(a.allgc) \subseteq InUse(a) /\ In(a.finobj) \subseteq InUse(a) /\ T \subseteq InUse(a)
      /\ In(a.allgc) \cap In(a.finobj) = {} /\ In(a.allgc) \cap T = {} /\ In(a.finobj) \cap T = {}
      /\ InUse(a) = In(a.allgc) \cup In(a.finobj) \cup T /\ T \subseteq Live(a)
  BY <1>1 DEF Lists, Closed
<1>6. /\ A \subseteq In(a.allgc) /\ In(a.allgc) = A \cup In(From(a.allgc, a.old1))
      /\ B \subseteq In(a.finobj) /\ In(a.finobj) = B \cup In(From(a.finobj, a.finobjold1))
  <2>1. /\ a.allgc \in Seq(Objects) /\ IsInjective(a.allgc)
        /\ a.finobj \in Seq(Objects) /\ IsInjective(a.finobj)
    <3>1. a.allgc \in Seq(Objects) /\ a.finobj \in Seq(Proper)
      BY <1>1 DEF StateType
    <3> QED BY <1>1, <3>1 DEF Proper, Lists
  <2>2. a.old1 \in Pointers(a.allgc) /\ a.finobjold1 \in Pointers(a.finobj)
    BY <2>1, FromSubset DEF YoungReady
  <2> QED BY <2>1, <2>2, BeforeFrom DEF Young
<1>7. /\ Swept(a, b, A)
      /\ ListSwept(a.allgc, a.survival, a.old1, b.allgc, b.survival, b.old1, b.reallyold, Live(a))
      /\ Same(z, b, {"color", "age", "val", "key", "open", "allgc", "survival", "old1",
                        "reallyold", "firstold1"})
      /\ FirstFound(a, b)
  <2>1. /\ Divided(a.allgc, a.survival, a.old1, a.reallyold)
        /\ In(From(a.allgc, a.old1)) \subseteq Live(a)
        /\ \A o \in In(From(a.allgc, a.old1)) : a.age[o] # "old1"
    BY DEF YoungReady
  <2> QED BY <1>1, <1>3, <1>4, <2>1, SweepAllgcIs
<1>8. /\ b.finobj = a.finobj /\ b.finobjsur = a.finobjsur /\ b.finobjold1 = a.finobjold1
      /\ b.tobefnz = a.tobefnz
  BY <1>3, <1>7 DEF Same, Fields
<1>9. /\ Swept(a, c, A \cup B)
      /\ ListSwept(a.finobj, a.finobjsur, a.finobjold1, c.finobj, c.finobjsur, c.finobjold1,
                      c.finobjrold, Live(a))
      /\ Same(b, c, {"color", "age", "val", "key", "open", "finobj", "finobjsur", "finobjold1",
                        "finobjrold"})
  <2>1. /\ Divided(a.finobj, a.finobjsur, a.finobjold1, a.finobjrold)
        /\ In(From(a.finobj, a.finobjold1)) \subseteq Live(a)
    BY DEF YoungReady
  <2>2. A \cap In(a.finobj) = {}
    BY <1>5, <1>6
  <2> HIDE DEF A
  <2> QED BY <1>1, <1>7, <1>8, <2>1, <2>2, SweepFinobjIs
<1>10. /\ c.allgc = b.allgc /\ c.survival = b.survival /\ c.old1 = b.old1
       /\ c.reallyold = b.reallyold /\ c.firstold1 = b.firstold1 /\ c.tobefnz = a.tobefnz
  BY <1>8, <1>9 DEF Same, Fields
<1>11. Swept(a, y, YoungSet(a)) /\ Same(c, y, {"color", "age", "val", "key", "open"})
  <2> DEFINE R == A \cup B
  <2>1. In(c.tobefnz) \subseteq InUse(c) /\ In(c.tobefnz) \cap R = {} /\ R \cup In(c.tobefnz) = YoungSet(a)
    <3>1. InUse(c) = InUse(a) \ ((A \cup B) \ Live(a))
      BY <1>9 DEF Swept
    <3> QED BY <1>5, <1>6, <1>10, <3>1 DEF YoungSet
  <2>2. Swept(a, c, R)
    BY <1>9
  <2> HIDE DEF R
  <2>3. Swept(a, y, R \cup In(c.tobefnz)) /\ Same(c, y, {"color", "age", "val", "key", "open"})
    BY <1>1, <2>1, <2>2, SweepGenIs
  <2> QED BY <2>1, <2>3
<1>12. /\ y.allgc = b.allgc /\ y.survival = b.survival /\ y.old1 = b.old1
       /\ y.reallyold = b.reallyold /\ y.firstold1 = b.firstold1 /\ y.tobefnz = a.tobefnz
       /\ y.finobj = c.finobj /\ y.finobjsur = c.finobjsur /\ y.finobjold1 = c.finobjold1
       /\ y.finobjrold = c.finobjrold
  BY <1>10, <1>11 DEF Same, Fields
<1>13. InUse(y) = Live(a)
  <2>1. InUse(y) = InUse(a) \ (YoungSet(a) \ Live(a))
    BY <1>11 DEF Swept
  <2>2. InUse(a) \subseteq YoungSet(a) \cup Live(a)
    BY <1>5, <1>6 DEF YoungSet, YoungReady
  <2>3. Live(a) \subseteq InUse(a)
    BY DEF Live, InUse
  <2> QED BY <2>1, <2>2, <2>3
<1>14. Lists(y)
  <2>1. /\ IsInjective(y.allgc) /\ In(y.allgc) = In(a.allgc) \cap Live(a)
        /\ IsInjective(y.finobj) /\ In(y.finobj) = In(a.finobj) \cap Live(a)
    BY <1>7, <1>9, <1>12 DEF ListSwept
  <2>2. IsInjective(y.tobefnz)
    BY <1>1, <1>12 DEF Lists
  <2>3. Live(a) \subseteq InUse(a)
    BY DEF Live, InUse
  <2> QED BY <1>5, <1>12, <1>13, <2>1, <2>2, <2>3 DEF Lists
<1>15. Base(y)
  BY <1>11, <1>14 DEF Base, Swept
<1>16. FirstFound(a, y)
  BY <1>7, <1>12 DEF FirstFound
<1>17. ListSwept(a.allgc, a.survival, a.old1, y.allgc, y.survival, y.old1, y.reallyold, Live(a))
  BY <1>7, <1>12
<1>18. ListSwept(a.finobj, a.finobjsur, a.finobjold1, y.finobj, y.finobjsur, y.finobjold1,
               y.finobjrold, Live(a))
  BY <1>9, <1>12
<1> QED BY <1>11, <1>13, <1>15, <1>16, <1>17, <1>18 DEF YoungSwept

(* What the atomic phase of a young collection leaves, from s.  *)
AfterAtomic(s, a) ==
  /\ Same(s, a, Changes \cup {"gcstate", "finobj", "tobefnz", "finobjsur", "firstold1"})
  /\ a.gcstate = "atomic" /\ Trace(a, {}, TRUE) /\ a.gray = {}
  /\ \A o \in Objects :
       /\ o \in Marked(s) => o \in Marked(a)
       /\ o \in Marked(a) => Full(a, o)
       /\ Refs(a, o) \subseteq Refs(s, o)
       /\ s.age[o] = "old1" => a.age[o] = "old"
       /\ s.age[o] = "touched2" => a.age[o] \in {"touched2", "old"}
       /\ s.age[o] \notin {"old1", "touched2"} => a.age[o] = s.age[o]
  /\ \A o \in In(From(a.allgc, a.survival)) \cup In(From(a.finobj, a.finobjsur)) : a.age[o] # "new"
  /\ \A o \in In(From(a.allgc, a.old1)) \cup In(From(a.finobj, a.finobjold1)) :
       a.age[o] \in {"old", "touched1", "touched2"}

\* The atomic step of youngcollection: all old objects are live, and their references are
\* marked.
LEMMA YoungAtomicIs ==
  ASSUME NEW s, Base(s), GenInv(s), KindOK, NEW m, m = MarkOlds(s), NEW a, a = Atomic(m)
  PROVE  YoungReady(a) /\ AfterAtomic(s, a)
<1>1. Olds(s, m)
  BY MarkOldsIs
<1>2. /\ Base(m) /\ Trace(m, {}, FALSE) /\ NoDead(m) /\ InUse(m) = InUse(s)
      /\ Same(s, m, {"firstold1", "age", "color", "gray"}) /\ m.firstold1 = NULL
  BY <1>1 DEF Olds
<1>3. /\ m.gcstate = s.gcstate /\ m.finobj = s.finobj /\ m.finobjsur = s.finobjsur
      /\ m.finobjold1 = s.finobjold1 /\ m.finobjrold = s.finobjrold /\ m.gckind = s.gckind
      /\ m.allgc = s.allgc /\ m.survival = s.survival /\ m.old1 = s.old1 /\ m.reallyold = s.reallyold
  BY <1>2 DEF Same, Fields
<1>4. s.gcstate = "propagate" /\ s.gckind = "genminor" /\ GenLists(s) /\ GenAges(s) /\ Ready(s, BlackOld1(s))
  BY DEF GenInv
<1>5. Atomized(m, a)
  <2>1. Shape(m) /\ Lists(m) /\ Closed(m) /\ m \in StateType
    BY <1>2 DEF Base
  <2>2. MainThread \in InUse(m)
    BY <2>1 DEF Closed, Live, InUse
  <2>3. Divided(m.finobj, m.finobjsur, m.finobjold1, m.finobjrold)
    BY <1>3, <1>4 DEF GenLists
  <2>4. m.gcstate # "atomic"
    BY <1>3, <1>4
  <2> QED BY <1>2, <2>1, <2>2, <2>3, <2>4, AtomicIs
<1>6. Base(a) /\ Live(a) = Marked(a)
  BY <1>2, <1>5, AtomizedBase
<1>7. /\ a \in StateType /\ Trace(a, {}, TRUE) /\ a.gray = {} /\ a.gcstate = "atomic"
      /\ Same(m, a, Changes \cup {"gcstate", "finobj", "tobefnz", "finobjsur"})
      /\ Divided(a.finobj, a.finobjsur, a.finobjold1, a.finobjrold)
      /\ In(From(a.finobj, a.finobjsur)) \subseteq In(From(m.finobj, m.finobjsur))
      /\ From(a.finobj, a.finobjold1) = From(m.finobj, m.finobjold1)
  BY <1>5 DEF Atomized
<1>8. /\ a.gckind = m.gckind /\ a.allgc = m.allgc /\ a.survival = m.survival /\ a.old1 = m.old1
      /\ a.reallyold = m.reallyold /\ a.firstold1 = m.firstold1
  BY <1>7 DEF Same, Fields, Changes, MarkLists
<1>9. Same(s, a, Changes \cup {"gcstate", "finobj", "tobefnz", "finobjsur", "firstold1"})
  BY <1>2, <1>7 DEF Same, Fields, Changes, MarkLists
<1>10. ASSUME NEW o \in Objects
       PROVE  /\ o \in Marked(s) => o \in Marked(a)
              /\ o \in Marked(a) => Full(a, o)
              /\ Refs(a, o) \subseteq Refs(s, o)
              /\ s.age[o] = "old1" => a.age[o] = "old"
              /\ s.age[o] = "touched2" => a.age[o] \in {"touched2", "old"}
              /\ s.age[o] \notin {"old1", "touched2"} => a.age[o] = s.age[o]
  <2>1. /\ m.age[o] = IF s.age[o] = "old1" THEN "old" ELSE s.age[o]
        /\ o \in Marked(s) => o \in Marked(m)
        /\ Refs(m, o) = Refs(s, o)
    BY <1>1 DEF Olds
  <2>2. /\ o \in Marked(a) => Full(a, o)
        /\ o \in Marked(m) => o \in Marked(a)
        /\ a.age[o] = m.age[o] \/ (m.age[o] = "touched2" /\ a.age[o] = "old")
        /\ Refs(a, o) \subseteq Refs(m, o)
    BY <1>5 DEF Atomized
  <2> QED BY <2>1, <2>2
<1>11. /\ In(From(s.allgc, s.survival)) \subseteq Objects /\ In(From(s.finobj, s.finobjsur)) \subseteq Objects
       /\ In(From(s.allgc, s.old1)) \subseteq Objects /\ In(From(s.finobj, s.finobjold1)) \subseteq Objects
  <2>1. /\ s.allgc \in Seq(Objects) /\ IsInjective(s.allgc)
        /\ s.finobj \in Seq(Objects) /\ IsInjective(s.finobj)
    <3>1. s.allgc \in Seq(Objects) /\ s.finobj \in Seq(Proper)
      BY DEF StateType, Base
    <3> QED BY <3>1 DEF Proper, Lists, Base
  <2>2. /\ Divided(s.allgc, s.survival, s.old1, s.reallyold)
        /\ Divided(s.finobj, s.finobjsur, s.finobjold1, s.finobjrold)
    BY <1>4 DEF GenLists
  <2> QED BY <2>1, <2>2, FromSubset
<1>12. \A o \in In(From(a.allgc, a.survival)) \cup In(From(a.finobj, a.finobjsur)) : a.age[o] # "new"
  <2>1. ASSUME NEW o \in In(From(s.allgc, s.survival)) \cup In(From(s.finobj, s.finobjsur))
        PROVE  o \in Objects /\ s.age[o] # "new"
    BY <1>4, <1>11 DEF GenLists, AgedFrom
  <2> QED BY <1>3, <1>7, <1>8, <1>10, <2>1
<1>13. ASSUME NEW o \in In(From(a.allgc, a.old1)) \cup In(From(a.finobj, a.finobjold1))
       PROVE  a.age[o] \in {"old", "touched1", "touched2"} /\ o \in Live(a)
  <2>1. o \in In(From(s.allgc, s.old1)) \cup In(From(s.finobj, s.finobjold1))
    <3>1. a.finobjold1 = m.finobjold1
      BY <1>7 DEF Same, Fields, Changes, MarkLists
    <3> QED BY <1>3, <1>7, <1>8, <3>1
  <2>2. o \in Objects /\ s.age[o] \in LateAges
    BY <1>4, <1>11, <2>1 DEF GenLists, AgedFrom
  <2>3. o \in Marked(s)
    BY <1>4, <2>2 DEF GenAges, AgesOf, IsOld, LateAges
  <2> QED BY <1>6, <1>10, <2>2, <2>3 DEF LateAges
<1>14. AfterAtomic(s, a)
  BY <1>7, <1>9, <1>10, <1>12, <1>13 DEF AfterAtomic
<1>15. YoungReady(a)
  <2>1. Divided(a.allgc, a.survival, a.old1, a.reallyold)
    BY <1>3, <1>4, <1>8 DEF GenLists
  <2>2. MarkingDone(a)
    BY <1>3, <1>4, <1>6, <1>8 DEF MarkingDone
  <2> QED BY <1>2, <1>7, <1>8, <1>13, <2>1, <2>2 DEF YoungReady
<1> QED BY <1>14, <1>15

\* The age an object has after a minor collection it was alive in, by the age it had
\* when marking ended.
FinalAge(a) ==
  CASE a = "new" -> "survival"
    [] a \in {"survival", "old0"} -> "old1"
    [] a = "touched1" -> "touched2"
    [] OTHER -> "old"

FinalOf(a, f, o) ==
  /\ f.age[o] = FinalAge(a.age[o])
  /\ IsWhite(f, o) <=> a.age[o] = "new"
  /\ IsGray(f, o) => f.open[o] # NULL \/ (kind[o] = "thread" /\ o \in f.grayagain)
  /\ o \in f.grayagain => kind[o] \notin {"string", "upval", "bareudata"} /\ ~IsWhite(f, o)
  /\ f.age[o] = "touched2" => kind[o] \in Tables /\ o \in f.grayagain
  /\ kind[o] = "thread" /\ a.age[o] # "new" =>
       o \in f.grayagain \/ (IsBlack(f, o) /\ f.age[o] = "old1")
  /\ f.open[o] # a.open[o] => f.open[o] = NULL /\ a.open[o] \notin Live(a)
  /\ Refs(f, o) \subseteq Refs(a, o)

Ended(s, a, y, f) ==
  /\ YoungReady(a) /\ AfterAtomic(s, a) /\ YoungSwept(a, y) /\ Corrected(y, f)

\* The structure of the heap at the end of a minor collection.
LEMMA EndedBase ==
  ASSUME NEW s, NEW a, NEW y, NEW f, Ended(s, a, y, f), KindOK
  PROVE  /\ Base(f) /\ Live(f) = Live(a) /\ InUse(f) = Live(a) /\ Marked(f) = Marked(y)
         /\ \A o \in Objects : Refs(f, o) = Refs(y, o) /\ (IsWhite(f, o) <=> IsWhite(y, o))
         /\ f.open = y.open /\ Pending(y) = Pending(a) /\ Live(a) = Marked(a)
         /\ Pending(a) \subseteq { o \in Marked(a) : kind[o] \notin {"string", "upval", "bareudata"} }
         /\ Live(a) \subseteq Objects /\ a \in StateType /\ f \in StateType /\ y \in StateType
<1>1. /\ Base(y) /\ InUse(y) = Live(a) /\ Corrected(y, f) /\ Live(a) = Marked(a)
      /\ Swept(a, y, YoungSet(a)) /\ Trace(a, {}, TRUE) /\ a \in StateType
  BY DEF Ended, YoungSwept, YoungReady, MarkingDone, AfterAtomic, Base
<1>2. Pending(y) = Pending(a)
  BY <1>1 DEF Swept, Same, Fields, YoungFields, Pending
<1>3. Pending(a) \subseteq { o \in Marked(a) : kind[o] \notin {"string", "upval", "bareudata"} }
  BY <1>1 DEF Trace
<1>4. Pending(y) \subseteq InUse(y) /\ \A o \in Pending(y) : kind[o] # "upval"
  BY <1>1, <1>2, <1>3
<1>5. /\ Base(f) /\ Live(f) = Live(y) /\ InUse(f) = InUse(y) /\ Marked(f) = Marked(y)
      /\ \A o \in Objects : Refs(f, o) = Refs(y, o) /\ (IsWhite(f, o) <=> IsWhite(y, o))
  BY <1>1, <1>4, CorrectedBase
<1>6. Live(y) = Live(a)
  BY <1>1 DEF Swept
<1>7. f.open = y.open
  BY <1>1 DEF Corrected, Same, Fields
<1> QED
  BY <1>1, <1>2, <1>3, <1>5, <1>6, <1>7 DEF Base, Live

\* Which objects a minor collection swept, by age and by list.
LEMMA EndedYoung ==
  ASSUME NEW s, NEW a, NEW y, NEW f, Ended(s, a, y, f), KindOK, NEW o \in Live(a)
  PROVE  /\ a.age[o] \in Ages /\ a.age[o] # "old1"
         /\ a.age[o] \in {"new", "survival", "old0"} => o \in YoungSet(a)
         /\ a.age[o] \in {"survival", "old0"} /\ o \in In(a.allgc) =>
              o \in Young(a, "allgc", "old1") /\ o \notin In(From(a.allgc, a.old1))
         /\ a.age[o] \in {"survival", "old0"} /\ o \in In(a.finobj) =>
              o \notin In(From(a.finobj, a.finobjold1))
<1>1. /\ AfterAtomic(s, a) /\ YoungReady(a) /\ Base(a) /\ a \in StateType
  BY DEF Ended, YoungReady, MarkingDone, Base
<1>2. o \in Objects
  BY DEF Live
<1>3. a.age[o] \in Ages /\ a.age[o] # "old1"
  BY <1>1, <1>2 DEF AfterAtomic, StateType
<1>4. o \in In(a.allgc) \/ o \in In(a.finobj) \/ o \in In(a.tobefnz)
  <2>1. o \in InUse(a)
    BY DEF Live, InUse
  <2> QED
    BY <1>1, <2>1 DEF Base, Lists
<1>5. /\ a.allgc \in Seq(Objects) /\ IsInjective(a.allgc) /\ a.old1 \in Pointers(a.allgc)
      /\ a.finobj \in Seq(Objects) /\ IsInjective(a.finobj) /\ a.finobjold1 \in Pointers(a.finobj)
  <2>1. a.allgc \in Seq(Objects) /\ a.finobj \in Seq(Objects)
    BY <1>1 DEF StateType, Proper
  <2>2. IsInjective(a.allgc) /\ IsInjective(a.finobj)
    BY <1>1 DEF Base, Lists
  <2>3. /\ Divided(a.allgc, a.survival, a.old1, a.reallyold)
        /\ Divided(a.finobj, a.finobjsur, a.finobjold1, a.finobjrold)
    BY <1>1 DEF YoungReady
  <2> QED
    BY <2>1, <2>2, <2>3, FromSubset
<1>6. /\ In(a.allgc) = In(Before(a.allgc, a.old1)) \cup In(From(a.allgc, a.old1))
      /\ In(a.finobj) = In(Before(a.finobj, a.finobjold1)) \cup In(From(a.finobj, a.finobjold1))
  BY <1>5, BeforeFrom
<1>7. a.age[o] \in {"new", "survival", "old0"} =>
        o \notin In(From(a.allgc, a.old1)) /\ o \notin In(From(a.finobj, a.finobjold1))
  BY <1>1 DEF AfterAtomic
<1> QED
  BY <1>3, <1>4, <1>6, <1>7 DEF YoungSet, Young

\* Color and age of an object at the end of a minor collection.
LEMMA EndedFinal ==
  ASSUME NEW s, NEW a, NEW y, NEW f, Ended(s, a, y, f), KindOK, NEW o \in Live(a)
  PROVE  FinalOf(a, f, o)
<1>1. o \in Objects /\ o \in Marked(a)
  BY EndedBase
<1>2. SweptOf(a, y, YoungSet(a), o)
  BY DEF Ended, YoungSwept, Swept
<1>3. CorrectedOf(y, f, o)
  BY <1>1 DEF Ended, Corrected
<1>4. Listed(y, o) <=> o \in Pending(a) /\ ~IsWhite(y, o)
  BY EndedBase DEF Listed
<1>5. o \in Pending(a) => kind[o] \notin {"string", "upval", "bareudata"}
  BY EndedBase
<1>6. TraceOf(a, {}, TRUE, o) /\ a.gray = {} /\ a.gcstate = "atomic"
  BY <1>1 DEF Ended, AfterAtomic, Trace
<1>7. a.color[o] \in {"gray", "black"}
  BY <1>1 DEF Marked
<1>8. f.open = y.open /\ Refs(f, o) = Refs(y, o) /\ (IsWhite(f, o) <=> IsWhite(y, o))
  BY <1>1, EndedBase
<1>9. /\ a.age[o] \in Ages /\ a.age[o] # "old1"
      /\ a.age[o] \in {"new", "survival", "old0"} => o \in YoungSet(a)
  BY EndedYoung
<1>10. a.age[o] \in {"touched1", "touched2"} => o \in Pending(a) /\ kind[o] \in Tables
  BY <1>6 DEF TraceOf
<1>11. IsWhite(y, o) <=> a.age[o] = "new"
  BY <1>2, <1>7, <1>9 DEF SweptOf, IsWhite
<1>12. y.age[o] = CASE a.age[o] = "new" -> "survival"
                    [] a.age[o] \in {"survival", "old0"} -> "old1"
                    [] OTHER -> a.age[o]
  BY <1>2, <1>9 DEF SweptOf, NextAge, Ages
<1>13. f.age[o] = FinalAge(a.age[o])
  BY <1>3, <1>4, <1>9, <1>10, <1>11, <1>12 DEF CorrectedOf, FinalAge, Ages, Tables
<1>14. IsGray(f, o) => f.open[o] # NULL \/ (kind[o] = "thread" /\ o \in f.grayagain)
  <2> SUFFICES ASSUME IsGray(f, o), f.open[o] = NULL PROVE kind[o] = "thread" /\ o \in f.grayagain
    OBVIOUS
  <2>1. f.color[o] = "gray" /\ ~IsWhite(y, o)
    BY <1>8 DEF IsGray, IsWhite
  <2>2. o \notin Pending(a) => FALSE
    <3> SUFFICES ASSUME o \notin Pending(a) PROVE FALSE
      OBVIOUS
    <3>1. y.color[o] = "gray"
      BY <1>3, <1>4, <2>1 DEF CorrectedOf
    <3>2. y.color[o] = a.color[o] /\ y.open[o] = a.open[o]
      BY <3>1, <1>2 DEF SweptOf
    <3>3. a.open[o] # NULL
      BY <3>1, <3>2, <1>6 DEF TraceOf, IsGray
    <3> QED
      BY <3>2, <3>3, <1>8
  <2> QED
    BY <2>1, <2>2, <1>3, <1>4 DEF CorrectedOf
<1>15. o \in f.grayagain => kind[o] \notin {"string", "upval", "bareudata"} /\ ~IsWhite(f, o)
  BY <1>3, <1>4, <1>5, <1>8 DEF CorrectedOf
<1>16. f.age[o] = "touched2" => kind[o] \in Tables /\ o \in f.grayagain
  <2> SUFFICES ASSUME f.age[o] = "touched2" PROVE kind[o] \in Tables /\ o \in f.grayagain
    OBVIOUS
  <2>1. a.age[o] = "touched1"
    BY <1>13, <1>9 DEF FinalAge, Ages
  <2>2. y.age[o] = "touched1"
    BY <2>1, <1>12
  <2> QED
    BY <2>1, <2>2, <1>10, <1>11, <1>3, <1>4 DEF CorrectedOf
<1>17. kind[o] = "thread" /\ a.age[o] # "new" =>
         o \in f.grayagain \/ (IsBlack(f, o) /\ f.age[o] = "old1")
  <2> SUFFICES ASSUME kind[o] = "thread", a.age[o] # "new", o \notin f.grayagain
      PROVE  IsBlack(f, o) /\ f.age[o] = "old1"
    OBVIOUS
  <2>1. ~Listed(y, o)
    BY <1>3, <1>11 DEF CorrectedOf
  <2>2. o \notin a.grayagain
    BY <2>1, <1>4, <1>11 DEF Pending
  <2>3. ~IsOld(a, o) /\ IsBlack(a, o)
    BY <1>1, <1>6, <2>2 DEF TraceOf
  <2>4. a.age[o] = "survival"
    BY <2>3, <1>9 DEF IsOld, Ages
  <2>5. y.color[o] = "black"
    BY <2>3, <2>4, <1>2 DEF SweptOf, IsBlack
  <2> QED
    BY <2>1, <2>4, <2>5, <1>3, <1>13 DEF CorrectedOf, IsBlack, FinalAge
<1>18. f.open[o] # a.open[o] => f.open[o] = NULL /\ a.open[o] \notin Live(a)
  BY <1>2, <1>8 DEF SweptOf
<1>19. Refs(f, o) \subseteq Refs(a, o)
  BY <1>2, <1>8 DEF SweptOf
<1>20. IsWhite(f, o) <=> a.age[o] = "new"
  BY <1>8, <1>11
<1> QED
  BY <1>13, <1>14, <1>15, <1>16, <1>17, <1>18, <1>19, <1>20 DEF FinalOf

\* Ages before and after a minor collection: what is old now was not new before.
LEMMA EndedAges ==
  ASSUME NEW s, Base(s), GenInv(s), NEW a, NEW y, NEW f, Ended(s, a, y, f), KindOK,
         NEW o \in Live(a)
  PROVE  /\ o \in Objects /\ FinalOf(a, f, o) /\ a.age[o] \in Ages /\ a.age[o] # "old1"
         /\ a.age[o] # "new" <=> s.age[o] # "new"
         /\ f.age[o] # "new" /\ (IsOld(f, o) <=> s.age[o] # "new")
         /\ f.age[o] = "old" => s.age[o] \in {"old1", "old", "touched2"}
         /\ a.open = s.open
<1>1. o \in Objects /\ AfterAtomic(s, a)
  BY EndedBase DEF Ended
<1>2. FinalOf(a, f, o) /\ a.age[o] \in Ages /\ a.age[o] # "old1"
  BY EndedFinal, EndedYoung
<1>3. s.age[o] \in Ages
  BY <1>1 DEF Base, StateType
<1>4. /\ s.age[o] = "old1" => a.age[o] = "old"
      /\ s.age[o] = "touched2" => a.age[o] \in {"touched2", "old"}
      /\ s.age[o] \notin {"old1", "touched2"} => a.age[o] = s.age[o]
  BY <1>1 DEF AfterAtomic
<1>5. f.age[o] = FinalAge(a.age[o])
  BY <1>2 DEF FinalOf
<1>6. a.open = s.open
  BY <1>1 DEF AfterAtomic, Same, Fields, Changes, MarkLists
<1>7. a.age[o] # "new" <=> s.age[o] # "new"
  BY <1>4
<1>8. f.age[o] # "new" /\ (IsOld(f, o) <=> a.age[o] # "new")
  BY <1>5, <1>2 DEF FinalAge, Ages, IsOld
<1>9. f.age[o] = "old" => s.age[o] \in {"old1", "old", "touched2"}
  BY <1>5, <1>4, <1>3, <1>2 DEF FinalAge, Ages
<1> QED
  BY <1>1, <1>2, <1>6, <1>7, <1>8, <1>9

\* What became old, and is no thread, has been fully visited.
LEMMA EndedFull ==
  ASSUME NEW s, Base(s), GenInv(s), NEW a, NEW y, NEW f, Ended(s, a, y, f), KindOK,
         NEW o \in Live(a), f.age[o] = "old", kind[o] # "thread", f.open[o] = NULL
  PROVE  Full(f, o)
<1>1. /\ o \in Objects /\ FinalOf(a, f, o) /\ a.open = s.open
      /\ s.age[o] \in {"old1", "old", "touched2"}
  BY EndedAges
<1>2. GenAges(s) /\ AfterAtomic(s, a) /\ Live(a) = Marked(a) /\ s \in StateType /\ Marked(s) \subseteq Marked(a)
  BY EndedBase DEF GenInv, Ended, AfterAtomic, Base, Marked
<1>3. AgesOf(s, o)
  BY <1>1, <1>2 DEF GenAges
<1>4. s.open[o] = NULL
  <2> SUFFICES ASSUME s.open[o] # NULL PROVE FALSE
    OBVIOUS
  <2>1. a.open[o] \notin Live(a)
    BY <1>1 DEF FinalOf
  <2>2. IsOld(s, s.open[o])
    BY <1>1, <1>3 DEF AgesOf, IsOld
  <2>3. s.open[o] \in Objects
    BY <1>1, <1>2 DEF StateType, OrNull, Proper
  <2>4. s.open[o] \in Marked(s)
    BY <2>2, <2>3, <1>2 DEF GenAges, AgesOf
  <2> QED
    BY <2>1, <2>4, <1>1, <1>2
<1>5. \A x \in Refs(s, o) : s.age[x] # "new"
  BY <1>1, <1>3, <1>4 DEF AgesOf, IsOld
<1>6. Refs(f, o) \subseteq Refs(s, o)
  BY <1>1, <1>2 DEF FinalOf, AfterAtomic
<1>7. Refs(f, o) \subseteq Live(a)
  BY EndedBase DEF Base, Closed
<1>8. ASSUME NEW x \in Refs(f, o) PROVE ~IsWhite(f, x)
  <2>1. s.age[x] # "new" /\ x \in Live(a)
    BY <1>5, <1>6, <1>7
  <2>2. FinalOf(a, f, x) /\ a.age[x] # "new"
    BY <2>1, EndedAges
  <2> QED
    BY <2>2 DEF FinalOf
<1> QED
  BY <1>8 DEF Full

\* The rule of the ages holds after a minor collection.
LEMMA EndedAgesOf ==
  ASSUME NEW s, Base(s), GenInv(s), NEW a, NEW y, NEW f, Ended(s, a, y, f), KindOK,
         NEW o \in Objects
  PROVE  AgesOf(f, o)
<1>1. Base(f) /\ Live(f) = Live(a) /\ InUse(f) = Live(a) /\ f \in StateType
  BY EndedBase
<1>2. ShapeOf(f, o) /\ Closed(f)
  BY <1>1 DEF Base, Shape
<1>3. CASE o \notin Live(a)
  <2>1. f.age[o] = "new" /\ f.open[o] = NULL /\ o \notin InUse(f)
    BY <1>1, <1>2, <1>3 DEF ShapeOf
  <2>2. o \notin Marked(f) /\ ~IsGray(f, o)
    BY <2>1 DEF InUse, Marked, IsGray
  <2> QED
    BY <2>1, <2>2 DEF AgesOf, IsOld
<1>4. CASE o \in Live(a)
  <2>1. /\ FinalOf(a, f, o) /\ a.open = s.open /\ f.age[o] # "new"
        /\ a.age[o] # "new" <=> s.age[o] # "new"
        /\ IsOld(f, o) <=> s.age[o] # "new"
    BY <1>4, EndedAges
  <2>2. \A x \in Live(a) : f.age[x] # "new" /\ (IsOld(f, x) <=> s.age[x] # "new")
    BY EndedAges
  <2>3. \A x \in Live(a) : IsOld(f, x) <=> ~IsWhite(f, x)
    BY EndedAges DEF FinalOf
  <2>4. IsOld(f, o) <=> o \in Marked(f)
    <3>1. f.color[o] \in {"white", "gray", "black"}
      BY <1>1, <1>4 DEF Live
    <3> QED
      BY <3>1, <2>3, <1>4 DEF IsWhite, Marked
  <2>5. ASSUME f.open[o] # NULL
        PROVE  (IsOld(f, o) => IsOld(f, f.open[o])) /\ f.age[f.open[o]] # "new"
    <3>1. f.open[o] = s.open[o]
      BY <2>1, <2>5 DEF FinalOf
    <3>2. f.open[o] \in Live(a)
      BY <2>5, <1>1, <1>2 DEF ShapeOf
    <3>3. AgesOf(s, o)
      BY DEF GenInv, GenAges
    <3>4. s.age[o] # "new" => s.age[s.open[o]] # "new"
      BY <3>1, <3>3, <2>5 DEF AgesOf
    <3> QED
      BY <3>1, <3>2, <3>4, <2>1, <2>2
  <2>6. ASSUME kind[o] # "thread", f.open[o] = NULL
        PROVE  /\ f.age[o] = "old" => \A x \in Refs(f, o) : IsOld(f, x)
               /\ \A x \in Refs(f, o) : f.age[x] # "new"
               /\ ~IsGray(f, o)
    <3>1. Refs(f, o) \subseteq Live(a)
      BY <1>1, <1>2, <1>4 DEF Closed
    <3>2. f.age[o] = "old" => Full(f, o)
      BY <2>6, <1>4, EndedFull
    <3>3. ~IsGray(f, o)
      BY <2>1, <2>6 DEF FinalOf
    <3> QED
      BY <3>1, <3>2, <3>3, <2>2, <2>3 DEF Full
  <2> QED
    BY <2>4, <2>5, <2>6 DEF AgesOf
<1> QED
  BY <1>3, <1>4

\* The trace holds after a minor collection, but for the objects that it made old1.
LEMMA EndedTraceOf ==
  ASSUME NEW s, Base(s), GenInv(s), NEW a, NEW y, NEW f, Ended(s, a, y, f), KindOK,
         NEW o \in Objects
  PROVE  TraceOf(f, BlackOld1(f), FALSE, o)
<1>1. /\ Base(f) /\ Live(f) = Live(a) /\ InUse(f) = Live(a) /\ f \in StateType
      /\ f.gcstate = "propagate"
  BY EndedBase DEF Ended, Corrected
<1>2. ShapeOf(f, o) /\ Closed(f)
  BY <1>1 DEF Base, Shape
<1>3. Later(f) = f.grayagain
  BY <1>1 DEF Later
<1>4. CASE o \notin Live(a)
  <2>1. f.age[o] = "new" /\ f.open[o] = NULL /\ o \notin InUse(f)
    BY <1>1, <1>2, <1>4 DEF ShapeOf
  <2>2. o \notin Marked(f) /\ ~IsGray(f, o)
    BY <2>1 DEF InUse, Marked, IsGray
  <2> QED
    BY <2>1, <2>2 DEF TraceOf
<1>5. CASE o \in Live(a)
  <2>1. FinalOf(a, f, o) /\ a.age[o] \in Ages /\ a.age[o] # "old1"
    BY <1>5, EndedAges
  <2>2. o \in f.grayagain => o \in Pending(f)
    BY DEF Pending
  <2>3. o \in Marked(f) => a.age[o] # "new"
    BY <2>1 DEF FinalOf, Marked, IsWhite
  <2>4. f.age[o] = FinalAge(a.age[o])
    BY <2>1 DEF FinalOf
  <2>5. a.age[o] # "new" => f.age[o] \in {"old1", "old", "touched2"}
    BY <2>1, <2>4 DEF FinalAge, Ages
  <2>6. f.age[o] # "touched1"
    BY <2>1, <2>4 DEF FinalAge, Ages
  <2>7. ASSUME o \in Marked(f) PROVE o \in BlackOld1(f) \cup f.grayagain \/ Visited(f, o, FALSE)
    <3>1. f.color[o] \in {"gray", "black"} /\ a.age[o] # "new"
      BY <2>7, <2>3 DEF Marked
    <3>2. CASE f.color[o] = "gray"
      <4>1. f.open[o] # NULL \/ o \in f.grayagain
        BY <2>1, <3>2 DEF FinalOf, IsGray
      <4> QED
        BY <4>1 DEF Visited
    <3>3. CASE f.color[o] = "black"
      <4>1. f.open[o] = NULL
        BY <3>3, <1>2 DEF ShapeOf
      <4>2. CASE f.age[o] = "old1"
        BY <4>2, <3>3 DEF BlackOld1, IsBlack
      <4>3. CASE f.age[o] = "touched2"
        BY <4>3, <2>1 DEF FinalOf
      <4>4. CASE f.age[o] = "old"
        <5>1. kind[o] = "thread" => o \in f.grayagain
          BY <4>4, <3>1, <2>1 DEF FinalOf
        <5>2. kind[o] # "thread" => Full(f, o)
          BY <4>1, <4>4, <1>5, EndedFull
        <5> QED
          BY <5>1, <5>2 DEF Visited
      <4> QED
        BY <3>1, <2>5, <4>2, <4>3, <4>4
    <3> QED
      BY <3>1, <3>2, <3>3
  <2>8. IsGray(f, o) => f.open[o] # NULL \/ o \in f.grayagain
    BY <2>1 DEF FinalOf
  <2>9. f.age[o] = "touched2" => kind[o] \in Tables /\ o \in f.grayagain
    BY <2>1 DEF FinalOf
  <2>10. ASSUME o \in Marked(f), kind[o] = "thread" PROVE o \in BlackOld1(f) \cup f.grayagain
    BY <2>1, <2>3, <2>10 DEF FinalOf, BlackOld1
  <2>11. f.open[o] # NULL => f.open[o] \in f.twups
    BY <1>1, <1>2 DEF ShapeOf, Closed
  <2> QED
    BY <1>3, <2>2, <2>6, <2>7, <2>8, <2>9, <2>10, <2>11 DEF TraceOf
<1> QED
  BY <1>4, <1>5

\* The lists are divided by age after a minor collection.
LEMMA EndedLists ==
  ASSUME NEW s, Base(s), GenInv(s), NEW a, NEW y, NEW f, Ended(s, a, y, f), KindOK
  PROVE  GenLists(f)
<1>1. /\ YoungReady(a) /\ YoungSwept(a, y) /\ AfterAtomic(s, a) /\ a \in StateType
  BY EndedBase DEF Ended
<1>2. /\ f.allgc = y.allgc /\ f.survival = y.survival /\ f.old1 = y.old1 /\ f.reallyold = y.reallyold
      /\ f.finobj = y.finobj /\ f.finobjsur = y.finobjsur /\ f.finobjold1 = y.finobjold1
      /\ f.finobjrold = y.finobjrold /\ f.firstold1 = y.firstold1
  BY DEF Ended, Corrected, Same, Fields
<1>3. /\ ListSwept(a.allgc, a.survival, a.old1, f.allgc, f.survival, f.old1, f.reallyold, Live(a))
      /\ ListSwept(a.finobj, a.finobjsur, a.finobjold1, f.finobj, f.finobjsur, f.finobjold1,
                   f.finobjrold, Live(a))
      /\ FirstFound(a, y)
  BY <1>1, <1>2 DEF YoungSwept
<1>4. \A o \in Live(a) : /\ f.age[o] # "new" /\ FinalOf(a, f, o) /\ a.age[o] \in Ages /\ a.age[o] # "old1"
                         /\ f.age[o] = FinalAge(a.age[o])
  BY EndedAges DEF FinalOf
<1>5. /\ \A o \in In(From(a.allgc, a.survival)) \cup In(From(a.finobj, a.finobjsur)) : a.age[o] # "new"
      /\ \A o \in In(From(a.allgc, a.old1)) \cup In(From(a.finobj, a.finobjold1)) :
           a.age[o] \in {"old", "touched1", "touched2"}
  BY <1>1 DEF AfterAtomic
<1>6. /\ Divided(f.allgc, f.survival, f.old1, f.reallyold)
      /\ Divided(f.finobj, f.finobjsur, f.finobjold1, f.finobjrold)
      /\ In(f.allgc) = In(a.allgc) \cap Live(a) /\ In(f.finobj) = In(a.finobj) \cap Live(a)
      /\ From(f.allgc, f.survival) = f.allgc /\ From(f.finobj, f.finobjsur) = f.finobj
      /\ In(From(f.allgc, f.old1)) \subseteq In(From(a.allgc, a.survival))
      /\ In(From(f.finobj, f.finobjold1)) \subseteq In(From(a.finobj, a.finobjsur))
      /\ From(f.allgc, f.reallyold) = From(a.allgc, a.old1)
      /\ From(f.finobj, f.finobjrold) = From(a.finobj, a.finobjold1)
      /\ f.allgc \in Seq(Objects) /\ IsInjective(f.allgc)
      /\ f.finobj \in Seq(Objects) /\ IsInjective(f.finobj)
  BY <1>3 DEF ListSwept
<1>7. /\ In(From(f.allgc, f.old1)) \subseteq In(f.allgc)
      /\ In(From(f.finobj, f.finobjold1)) \subseteq In(f.finobj)
  BY <1>6, FromSubset
<1>8. AgedFrom(f, f.allgc, f.survival, f.old1)
  <2>1. \A o \in In(f.allgc) : f.age[o] # "new"
    BY <1>4, <1>6
  <2>2. ASSUME NEW o \in In(From(f.allgc, f.old1)) PROVE f.age[o] \in LateAges
    <3>1. o \in Live(a) /\ a.age[o] # "new"
      BY <1>5, <1>6, <1>7
    <3> QED
      BY <3>1, <1>4 DEF LateAges, FinalAge, Ages
  <2> QED
    BY <2>1, <2>2, <1>6 DEF AgedFrom
<1>9. AgedFrom(f, f.finobj, f.finobjsur, f.finobjold1)
  <2>1. \A o \in In(f.finobj) : f.age[o] # "new"
    BY <1>4, <1>6
  <2>2. ASSUME NEW o \in In(From(f.finobj, f.finobjold1)) PROVE f.age[o] \in LateAges
    <3>1. o \in Live(a) /\ a.age[o] # "new"
      BY <1>5, <1>6, <1>7
    <3> QED
      BY <3>1, <1>4 DEF LateAges, FinalAge, Ages
  <2> QED
    BY <2>1, <2>2, <1>6 DEF AgedFrom
<1>10. \A o \in Live(a) : f.age[o] = "old1" => a.age[o] \in {"survival", "old0"}
  BY <1>4 DEF FinalAge, Ages
<1>11. ASSUME NEW o \in In(f.allgc), f.age[o] = "old1"
       PROVE  o \in In(From(f.allgc, f.firstold1)) /\ o \notin In(From(f.allgc, f.reallyold))
  <2>1. o \in Live(a) /\ o \in In(a.allgc) /\ a.age[o] \in {"survival", "old0"}
    BY <1>6, <1>10, <1>11
  <2>2. o \in Young(a, "allgc", "old1") /\ o \notin In(From(a.allgc, a.old1))
    BY <2>1, EndedYoung
  <2>3. NextAge(a.age[o]) = "old1"
    BY <2>1 DEF NextAge
  <2>4. o \in In(y.allgc)
    BY <1>2
  <2>5. o \in In(From(y.allgc, y.firstold1))
    BY <2>2, <2>3, <2>4, <1>3 DEF FirstFound
  <2> QED
    BY <2>2, <2>5, <1>2, <1>6
<1>12. ASSUME NEW o \in In(f.finobj), f.age[o] = "old1"
       PROVE  o \notin In(From(f.finobj, f.finobjrold))
  <2>1. o \in Live(a) /\ o \in In(a.finobj) /\ a.age[o] \in {"survival", "old0"}
    BY <1>6, <1>10, <1>12
  <2> QED
    BY <2>1, <1>6, EndedYoung
<1>13. f.firstold1 \in Pointers(f.allgc)
  BY <1>2, <1>3 DEF FirstFound
<1> QED
  BY <1>6, <1>8, <1>9, <1>11, <1>12, <1>13 DEF GenLists

\* A minor collection keeps the invariant of the generational mode.
LEMMA EndedGen ==
  ASSUME NEW s, Base(s), GenInv(s), NEW a, NEW y, NEW f, Ended(s, a, y, f), KindOK
  PROVE  /\ Base(f) /\ GenInv(f) /\ f.infin = s.infin /\ f.emergency = s.emergency
<1>1. /\ Base(f) /\ Live(f) = Live(a) /\ InUse(f) = Live(a) /\ f \in StateType /\ Live(a) \subseteq Objects
      /\ Pending(a) \subseteq { o \in Marked(a) : kind[o] \notin {"string", "upval", "bareudata"} }
      /\ a \in StateType /\ Live(a) = Marked(a)
  BY EndedBase
<1>2. AfterAtomic(s, a) /\ Swept(a, y, YoungSet(a)) /\ Corrected(y, f) /\ YoungReady(a)
  BY DEF Ended, YoungSwept
<1>3. /\ f.gray = a.gray /\ f.weak = {} /\ f.allweak = {} /\ f.ephemeron = {}
      /\ f.gcstate = "propagate" /\ f.gckind = s.gckind /\ f.sweepgc = s.sweepgc
      /\ f.infin = s.infin /\ f.emergency = s.emergency
  BY <1>2 DEF AfterAtomic, Swept, Corrected, Same, Fields, YoungFields, Changes, MarkLists
<1>4. f.gckind = "genminor" /\ f.sweepgc = Nowhere /\ f.gray = {}
  BY <1>2, <1>3 DEF GenInv, Ready, AfterAtomic
<1>5. NoDead(f)
  <2>1. \A o \in Objects : f.color[o] = "dead" => o \in InUse(f) /\ o \notin Live(f)
    BY DEF InUse, Live
  <2> QED
    BY <2>1, <1>1 DEF NoDead
<1>6. MainThread \in Marked(f)
  <2>1. MainThread \in Marked(s) /\ GenAges(s) /\ MainThread \in Objects
    BY Null DEF GenInv, Ready
  <2>2. s.age[MainThread] # "new"
    BY <2>1 DEF GenAges, AgesOf, IsOld
  <2>3. MainThread \in Live(f)
    BY <1>1 DEF Base, Closed
  <2>4. FinalOf(a, f, MainThread) /\ a.age[MainThread] # "new"
    BY <2>2, <2>3, <1>1, EndedAges
  <2> QED
    BY <2>3, <2>4 DEF FinalOf, Live, Marked, IsWhite
<1>7. f.grayagain \subseteq { o \in Marked(f) : kind[o] \notin {"string", "upval", "bareudata"} }
  <2> SUFFICES ASSUME NEW o \in f.grayagain
      PROVE o \in Marked(f) /\ kind[o] \notin {"string", "upval", "bareudata"}
    BY <1>1 DEF Marked
  <2>1. o \in Objects
    BY <1>1 DEF StateType
  <2>2. o \in Live(a)
    <3>1. CorrectedOf(y, f, o)
      BY <2>1, <1>2 DEF Corrected
    <3>2. o \in Pending(y)
      BY <3>1 DEF CorrectedOf, Listed
    <3> QED
      BY <3>2, EndedBase
  <2>3. FinalOf(a, f, o)
    BY <2>2, EndedFinal
  <2> QED
    BY <2>1, <2>2, <2>3, <1>1 DEF FinalOf, Live, Marked, IsWhite
<1>8. Trace(f, BlackOld1(f), FALSE)
  <2>1. BlackOld1(f) \subseteq Marked(f)
    BY DEF BlackOld1, Marked, IsBlack
  <2>2. \A o \in Objects : TraceOf(f, BlackOld1(f), FALSE, o)
    BY EndedTraceOf
  <2> QED
    BY <2>1, <2>2, <1>3, <1>4, <1>7 DEF Trace, Pending
<1>9. Ready(f, BlackOld1(f))
  BY <1>3, <1>4, <1>5, <1>6, <1>8 DEF Ready
<1>10. GenLists(f)
  BY EndedLists
<1>11. GenAges(f)
  BY EndedAgesOf DEF GenAges
<1> QED
  BY <1>1, <1>3, <1>4, <1>9, <1>10, <1>11 DEF GenInv

(****************************************************************************)
(* Collections from the beginning to the end                                *)
(****************************************************************************)

Unpointed(s, k) ==
  [s EXCEPT !.gckind = k, !.survival = NULL, !.old1 = NULL, !.reallyold = NULL,
            !.finobjsur = NULL, !.finobjold1 = NULL, !.finobjrold = NULL]

\* minor2inc: the invariant of the incremental mode holds, at the entry of the sweep.
LEMMA Minor2IncIs ==
  ASSUME NEW s, Base(s), KindOK, NEW k \in {"inc", "genmajor"}
  PROVE  LET t == Minor2Inc(s, k)
         IN  /\ Cycle(t) /\ t.gckind = k /\ t.infin = s.infin /\ t.gcstate = "swpallgc"
             /\ t.emergency = s.emergency
<1> DEFINE u == Unpointed(s, k)
<1>1. s \in StateType
  BY DEF Base
<1>2. u \in StateType
  BY <1>1 DEF Unpointed, StateType, OrNull
<1>3. Same(s, u, Unseen)
  BY <1>1 DEF Unpointed, StateType, Same, Fields, Unseen
<1>4. /\ u.allgc = s.allgc /\ u.finobj = s.finobj /\ u.tobefnz = s.tobefnz
      /\ u.gckind = k /\ u.finobjsur = NULL /\ u.finobjold1 = NULL /\ u.finobjrold = NULL
      /\ u.infin = s.infin /\ u.emergency = s.emergency
  BY <1>1 DEF Unpointed, StateType
<1> HIDE DEF u
<1>5. Base(u) /\ NoPointers(u)
  BY <1>2, <1>3, <1>4, UnseenBase DEF NoPointers
<1>6. LET t == EnterSweep(u)
      IN  /\ Cycle(t) /\ t.gckind = u.gckind /\ t.infin = u.infin /\ t.gcstate = "swpallgc"
          /\ Live(t) = Live(u) /\ t.emergency = u.emergency
  BY <1>5, EnterSweepIs
<1>7. Minor2Inc(s, k) = EnterSweep(u)
  BY DEF u, Unpointed, Minor2Inc
<1> QED
  BY <1>4, <1>6, <1>7

\* youngcollection is what the lemmas on its end describe.
LEMMA YoungEnded ==
  ASSUME NEW s, Base(s), GenInv(s), KindOK
  PROVE  LET y == YoungSweep(s)
         IN  Ended(s, Atomic(MarkOlds(s)), y, FinishGenCycle(y))
<1> DEFINE a == Atomic(MarkOlds(s))
           z == [a EXCEPT !.gcstate = "swpallgc"]
           b == SweepGenList(z, "allgc", "survival", "old1", "reallyold")
           c == SweepGenList(b, "finobj", "finobjsur", "finobjold1", "finobjrold")
           y == SweepGen(c, In(c.tobefnz))
<1>1. YoungSweep(s) = y
  BY DEF YoungSweep
<1>2. YoungReady(a) /\ AfterAtomic(s, a)
  BY YoungAtomicIs
<1> HIDE DEF a
<1>3. z = [a EXCEPT !.gcstate = "swpallgc"]
  OBVIOUS
<1> HIDE DEF z
<1>4. b = SweepGenList(z, "allgc", "survival", "old1", "reallyold")
  OBVIOUS
<1> HIDE DEF b
<1>5. c = SweepGenList(b, "finobj", "finobjsur", "finobjold1", "finobjrold")
  OBVIOUS
<1> HIDE DEF c
<1>6. y = SweepGen(c, In(c.tobefnz))
  OBVIOUS
<1> HIDE DEF y
<1>7. YoungSwept(a, y)
  BY <1>2, <1>3, <1>4, <1>5, <1>6, YoungSweepIs
<1>8. y \in StateType
  BY <1>7 DEF YoungSwept, Base
<1>9. Corrected(y, FinishGenCycle(y))
  BY <1>8, FinishIs
<1>10. Ended(s, a, y, FinishGenCycle(y))
  BY <1>2, <1>7, <1>9 DEF Ended
<1> QED
  BY <1>1, <1>10 DEF a

\* youngcollection, whether it ends in the generational mode or starts a major collection.
LEMMA YoungCollectionIs ==
  ASSUME NEW s, Base(s), GenInv(s), KindOK, NEW y, y = YoungSweep(s)
  PROVE  /\ LET f == FinishGenCycle(y)
            IN  Base(f) /\ GenInv(f) /\ f.infin = s.infin /\ f.emergency = s.emergency
         /\ LET t == Minor2Inc(y, "genmajor")
            IN  /\ Cycle(t) /\ t.gckind = "genmajor" /\ t.infin = s.infin /\ t.gcstate = "swpallgc"
                /\ t.emergency = s.emergency
<1> DEFINE a == Atomic(MarkOlds(s))
           f == FinishGenCycle(y)
<1>1. Ended(s, a, y, f)
  BY YoungEnded
<1> HIDE DEF a, f
<1>2. Base(f) /\ GenInv(f) /\ f.infin = s.infin /\ f.emergency = s.emergency
  BY <1>1, EndedGen
<1>3. Base(y) /\ y.infin = s.infin /\ y.emergency = s.emergency
  <2>1. Base(y) /\ AfterAtomic(s, a) /\ Swept(a, y, YoungSet(a))
    BY <1>1 DEF Ended, YoungSwept
  <2> QED
    BY <2>1 DEF AfterAtomic, Swept, Same, Fields, YoungFields, Changes, MarkLists
<1>4. LET t == Minor2Inc(y, "genmajor")
      IN  /\ Cycle(t) /\ t.gckind = "genmajor" /\ t.infin = y.infin /\ t.gcstate = "swpallgc"
          /\ t.emergency = y.emergency
  BY <1>3, Minor2IncIs
<1> QED
  BY <1>2, <1>3, <1>4 DEF f

\* Calling a finalizer keeps the trace: the object is live, and only the stack gets it.
LEMMA FinalizingReady ==
  ASSUME NEW s, Base(s), NEW o, NEW t, Finalizing(s, t, o), KindOK, NEW X, Ready(s, X),
         s.gcstate = "propagate"
  PROVE  Ready(t, X)
<1>1. /\ Base(t) /\ Live(t) = Live(s) /\ InUse(t) = InUse(s)
      /\ \A x \in Objects : x # MainThread => Refs(t, x) = Refs(s, x)
      /\ t.color = s.color /\ t.age = s.age /\ t.val = s.val /\ t.key = s.key
      /\ t.open = s.open /\ t.twups = s.twups /\ t.gcstate = s.gcstate
      /\ t.sweepgc = s.sweepgc
      /\ t.gray = s.gray /\ t.grayagain = s.grayagain /\ t.weak = s.weak
      /\ t.allweak = s.allweak /\ t.ephemeron = s.ephemeron
  BY FinalizingBase
<1>2. Marked(t) = Marked(s) /\ Pending(t) = Pending(s) /\ Later(t) = Later(s) /\ NoDead(t)
  BY <1>1 DEF Marked, Pending, Later, NoDead, Ready
<1>3. Trace(s, X, FALSE) /\ MainThread \in Marked(s)
  BY DEF Ready
<1>4. ASSUME NEW x \in Objects PROVE TraceOf(t, X, FALSE, x)
  <2>1. TraceOf(s, X, FALSE, x)
    BY <1>3 DEF Trace
  <2>2. ASSUME x # MainThread PROVE Visited(s, x, FALSE) => Visited(t, x, FALSE)
    <3>1. Full(s, x) => Full(t, x)
      BY <1>1, <2>2 DEF Full, IsWhite
    <3> QED
      BY <3>1, <1>1 DEF Visited, IsWhite
  <2>3. x = MainThread => x \in s.gray \cup X \cup Later(s)
    BY <2>1, <1>3 DEF TraceOf, KindOK, Later
  <2>4. x \in Marked(t) => x \in t.gray \cup X \cup Later(t) \/ Visited(t, x, FALSE)
    BY <2>1, <2>2, <2>3, <1>1, <1>2 DEF TraceOf
  <2>5. /\ IsGray(t, x) <=> IsGray(s, x)
        /\ IsBlack(t, x) <=> IsBlack(s, x)
        /\ IsOld(t, x) <=> IsOld(s, x)
    BY <1>1 DEF IsGray, IsBlack, IsOld
  <2> QED
    BY <2>1, <2>4, <2>5, <1>1, <1>2 DEF TraceOf
<1>5. Trace(t, X, FALSE)
  BY <1>1, <1>2, <1>3, <1>4 DEF Trace
<1> QED
  BY <1>1, <1>2, <1>3, <1>5 DEF Ready

\* Calling a finalizer keeps the division of the lists, as GCTM corrects firstold1.
LEMMA FinalizingLists ==
  ASSUME NEW s, Base(s), GenLists(s), NEW o, NEW t, Finalizing(s, t, o), KindOK
  PROVE  GenLists(t)
<1>1. /\ t.age = s.age /\ t.finobj = s.finobj
      /\ t.finobjsur = s.finobjsur /\ t.finobjold1 = s.finobjold1
      /\ t.finobjrold = s.finobjrold /\ t.survival = s.survival /\ t.old1 = s.old1
      /\ t.reallyold = s.reallyold
  BY FinalizingBase
<1>2. /\ t.allgc = <<o>> \o s.allgc /\ o \in Objects /\ o \notin In(s.allgc)
      /\ t.firstold1 = IF s.age[o] = "old1" THEN o ELSE s.firstold1
  BY DEF Finalizing, Proper
<1>3. s.allgc \in Seq(Objects) /\ IsInjective(s.allgc)
  BY DEF Base, StateType, Lists
<1>4. /\ t.allgc \in Seq(Objects) /\ IsInjective(t.allgc) /\ In(t.allgc) = {o} \cup In(s.allgc)
      /\ \A p \in Pointers(s.allgc) : p \in Pointers(t.allgc) /\ From(t.allgc, p) = From(s.allgc, p)
      /\ \A p, q, r : Divided(s.allgc, p, q, r) => Divided(t.allgc, p, q, r)
  BY <1>2, <1>3, PushFrom
<1>5. Divided(s.allgc, s.survival, s.old1, s.reallyold)
  BY DEF GenLists
<1>6. /\ s.survival \in Pointers(s.allgc) /\ s.old1 \in Pointers(s.allgc)
      /\ s.reallyold \in Pointers(s.allgc) /\ s.firstold1 \in Pointers(s.allgc)
  <2>1. s.survival \in Pointers(s.allgc) /\ s.old1 \in Pointers(From(s.allgc, s.survival))
        /\ s.reallyold \in Pointers(From(s.allgc, s.old1)) /\ s.firstold1 \in Pointers(s.allgc)
    BY <1>5 DEF Divided, GenLists
  <2>2. In(From(s.allgc, s.survival)) \subseteq In(s.allgc)
        /\ In(From(s.allgc, s.old1)) \subseteq In(From(s.allgc, s.survival))
    BY <1>3, <1>5, FromSubset
  <2> QED
    BY <2>1, <2>2 DEF Pointers
<1>7. AgedFrom(t, t.allgc, t.survival, t.old1) /\ AgedFrom(t, t.finobj, t.finobjsur, t.finobjold1)
  BY <1>1, <1>4, <1>6 DEF GenLists, AgedFrom
<1>8. In(From(t.allgc, o)) = In(t.allgc)
  <2>1. First(t.allgc) = o
    BY <1>2, <1>3 DEF First
  <2>2. << >> \in Seq(Objects) /\ << >> \o t.allgc = t.allgc
    BY <1>4
  <2>3. From(t.allgc, First(t.allgc)) = t.allgc
    BY ZenonT(40), <2>2, <1>4, FromConcat
  <2> QED
    BY <2>1, <2>3
<1>9. In(From(s.allgc, s.reallyold)) \subseteq In(s.allgc)
  BY <1>3, <1>6, BeforeFrom
<1>10. ASSUME NEW x \in In(t.allgc), t.age[x] = "old1"
       PROVE  x \in In(From(t.allgc, t.firstold1)) /\ x \notin In(From(t.allgc, t.reallyold))
  <2>1. x = o => x \notin In(s.allgc)
    BY <1>2
  <2>2. x # o => x \in In(From(s.allgc, s.firstold1)) /\ x \notin In(From(s.allgc, s.reallyold))
    BY <1>1, <1>4, <1>10 DEF GenLists
  <2>3. From(t.allgc, t.reallyold) = From(s.allgc, s.reallyold)
    BY <1>1, <1>4, <1>6
  <2>4. From(t.allgc, s.firstold1) = From(s.allgc, s.firstold1)
    BY <1>4, <1>6
  <2> QED
    BY <1>1, <1>2, <1>8, <1>9, <1>10, <2>1, <2>2, <2>3, <2>4
<1>11. t.firstold1 \in Pointers(t.allgc)
  BY <1>2, <1>4, <1>6 DEF Pointers
<1>12. Divided(t.finobj, t.finobjsur, t.finobjold1, t.finobjrold)
       /\ \A x \in In(t.finobj) : t.age[x] = "old1" => x \notin In(From(t.finobj, t.finobjrold))
  BY <1>1 DEF GenLists
<1>13. Divided(t.allgc, t.survival, t.old1, t.reallyold)
  BY <1>1, <1>4, <1>5
<1> QED
  BY <1>7, <1>10, <1>11, <1>12, <1>13 DEF GenLists

\* GCTM keeps the invariant of the generational mode.
LEMMA FinalizerGen ==
  ASSUME NEW s, Base(s), GenInv(s), KindOK, s.tobefnz # << >>
  PROVE  LET t == GCTM(s)
         IN  /\ Base(t) /\ GenInv(t) /\ t.emergency = s.emergency /\ t.infin = TRUE
<1> DEFINE t == GCTM(s)
           o == s.tobefnz[1]
<1>1. s.gcstate = "propagate" /\ s.gckind = "genminor" /\ Ready(s, BlackOld1(s)) /\ GenLists(s)
      /\ GenAges(s)
  BY DEF GenInv
<1>2. ~IsSweepPhase(s)
  BY <1>1 DEF IsSweepPhase
<1>3. Finalizing(s, t, o)
  BY <1>2, GCTMIs
<1> HIDE DEF t, o
<1>4. /\ Base(t)
      /\ \A x \in Objects : x # MainThread => Refs(t, x) = Refs(s, x)
      /\ t.color = s.color /\ t.age = s.age
      /\ t.open = s.open /\ t.gcstate = s.gcstate /\ t.gckind = s.gckind
      /\ t.emergency = s.emergency
  BY <1>3, FinalizingBase
<1>5. BlackOld1(t) = BlackOld1(s) /\ Marked(t) = Marked(s)
  BY <1>4 DEF BlackOld1, IsBlack, Marked
<1>6. Ready(t, BlackOld1(t))
  BY <1>1, <1>3, <1>5, FinalizingReady
<1>7. GenLists(t)
  BY <1>1, <1>3, FinalizingLists
<1>8. ASSUME NEW x \in Objects PROVE AgesOf(t, x)
  <2>1. AgesOf(s, x)
    BY <1>1 DEF GenAges
  <2>2. kind[x] # "thread" => Refs(t, x) = Refs(s, x)
    BY <1>4 DEF KindOK
  <2> QED
    BY <2>1, <2>2, <1>4, <1>5 DEF AgesOf, IsOld, IsGray
<1>9. t.infin = TRUE
  BY <1>3 DEF Finalizing
<1> QED
  BY <1>1, <1>4, <1>6, <1>7, <1>8, <1>9 DEF GenInv, GenAges, t

(****************************************************************************)
(* Tasks                                                                    *)
(****************************************************************************)

\* What a task may still have to reach.
GoalLists ==
  {<< >>, <<"pending">>, <<"gen", "pending">>, <<"atomic", "gen", "pending">>,
   <<"propagate", "atomic", "gen", "pending">>,
   <<"pause", "propagate", "atomic", "gen", "pending">>,
   <<"pause">>, <<"callfin", "pause">>, <<"pause", "callfin", "pause">>,
   <<"major">>, <<"pause", "major">>, <<"callfin", "pause", "major">>,
   <<"pause", "callfin", "pause", "major">>}

Goals(s, goals) ==
  /\ goals \in GoalLists
  /\ s.gcstate = "atomic" => goals # << >> /\ ~s.infin
  /\ s.gckind = "genminor" => goals \in {<< >>, <<"pending">>, <<"gen", "pending">>}
  /\ goals = <<"pending">> => s.gckind = "genminor"
  /\ goals = <<"gen", "pending">> => s.gckind = "genminor" \/ s.gcstate = "atomic"
  /\ goals = <<"major">> => s.gcstate = "pause"

NextGoal(goals) ==
  /\ Tail(goals) \in GoalLists
  /\ goals[1] \in {"pause", "propagate", "atomic", "callfin", "gen", "pending", "major"}
  /\ goals[1] = "gen" <=> goals = <<"gen", "pending">>
  /\ goals[1] = "pending" <=> goals = <<"pending">>
  /\ goals[1] = "major" <=> goals = <<"major">>
  /\ Tail(goals) = << >> => goals[1] \in {"pending", "pause", "major"}
  /\ Tail(goals) = <<"pending">> <=> goals = <<"gen", "pending">>
  /\ Tail(goals) = <<"gen", "pending">> => goals[1] = "atomic"
  /\ Tail(goals) = <<"major">> => goals[1] = "pause"

\* What follows the first goal of a task.
LEMMA GoalsNext ==
  ASSUME NEW goals \in GoalLists, goals # << >>
  PROVE  NextGoal(goals)
<1>1. CASE goals = <<"pending">>
  BY <1>1 DEF NextGoal, GoalLists
<1>2. CASE goals = <<"gen", "pending">>
  <2>1. Tail(goals) = <<"pending">>
    BY <1>2
  <2> QED BY <1>2, <2>1 DEF NextGoal, GoalLists
<1>3. CASE goals = <<"atomic", "gen", "pending">>
  <2>1. Tail(goals) = <<"gen", "pending">>
    BY <1>3
  <2> QED BY <1>3, <2>1 DEF NextGoal, GoalLists
<1>4. CASE goals = <<"propagate", "atomic", "gen", "pending">>
  <2>1. Tail(goals) = <<"atomic", "gen", "pending">>
    BY <1>4
  <2> QED BY <1>4, <2>1 DEF NextGoal, GoalLists
<1>5. CASE goals = <<"pause", "propagate", "atomic", "gen", "pending">>
  <2>1. Tail(goals) = <<"propagate", "atomic", "gen", "pending">>
    BY <1>5
  <2> QED BY <1>5, <2>1 DEF NextGoal, GoalLists
<1>6. CASE goals = <<"pause">>
  BY <1>6 DEF NextGoal, GoalLists
<1>7. CASE goals = <<"callfin", "pause">>
  <2>1. Tail(goals) = <<"pause">>
    BY <1>7
  <2> QED BY <1>7, <2>1 DEF NextGoal, GoalLists
<1>8. CASE goals = <<"pause", "callfin", "pause">>
  <2>1. Tail(goals) = <<"callfin", "pause">>
    BY <1>8
  <2> QED BY <1>8, <2>1 DEF NextGoal, GoalLists
<1>9. CASE goals = <<"major">>
  BY <1>9 DEF NextGoal, GoalLists
<1>10. CASE goals = <<"pause", "major">>
  <2>1. Tail(goals) = <<"major">>
    BY <1>10
  <2> QED BY <1>10, <2>1 DEF NextGoal, GoalLists
<1>11. CASE goals = <<"callfin", "pause", "major">>
  <2>1. Tail(goals) = <<"pause", "major">>
    BY <1>11
  <2> QED BY <1>11, <2>1 DEF NextGoal, GoalLists
<1>12. CASE goals = <<"pause", "callfin", "pause", "major">>
  <2>1. Tail(goals) = <<"callfin", "pause", "major">>
    BY <1>12
  <2> QED BY <1>12, <2>1 DEF NextGoal, GoalLists
<1> QED
  BY <1>1, <1>2, <1>3, <1>4, <1>5, <1>6, <1>7, <1>8, <1>9, <1>10, <1>11, <1>12 DEF GoalLists

Held(s, goals) == Inv(s) /\ Goals(s, goals)

\* The two modes.
LEMMA InvCases ==
  ASSUME NEW s, Inv(s)
  PROVE  /\ s.gckind # "genminor" => Cycle(s)
         /\ s.gckind = "genminor" => Base(s) /\ GenInv(s) /\ s.gcstate = "propagate"
  BY DEF Inv, Cycle, IncInv, GenInv

\* A goal that is reached can be dropped.
LEMMA MetHeld ==
  ASSUME NEW s, NEW goals, Held(s, goals), goals # << >>, Met(s, goals[1])
  PROVE  Held(s, Tail(goals))
<1> DEFINE h == goals[1]
           r == Tail(goals)
<1>1. Goals(s, goals) /\ Inv(s) /\ NextGoal(goals)
  BY GoalsNext DEF Held, Goals
<1>2. /\ h = "gen" => s.gckind = "genminor"
      /\ h = "major" => s.gckind = "genmajor"
      /\ h \in {"pause", "propagate", "atomic", "callfin"} => s.gcstate = h
  BY DEF Met
<1>3. s.gckind = "genminor" => s.gcstate = "propagate"
  BY <1>1, InvCases
<1>4. s.gcstate = "atomic" => r # << >> /\ ~s.infin
  <2> SUFFICES ASSUME s.gcstate = "atomic" PROVE r # << >> /\ ~s.infin
    OBVIOUS
  <2>1. ~s.infin /\ s.gckind # "genminor"
    BY <1>1, <1>3 DEF Goals
  <2>2. h # "pending" /\ h # "major" /\ h # "pause"
    BY <1>1, <1>2, <2>1 DEF Goals, NextGoal
  <2> QED
    BY <2>1, <2>2, <1>1 DEF NextGoal
<1>5. s.gckind = "genminor" => r \in {<< >>, <<"pending">>, <<"gen", "pending">>}
  <2> SUFFICES ASSUME s.gckind = "genminor" PROVE r \in {<< >>, <<"pending">>}
    OBVIOUS
  <2>1. goals = <<"pending">> \/ goals = <<"gen", "pending">>
    BY <1>1 DEF Goals
  <2>2. Tail(<<"pending">>) = << >> /\ Tail(<<"gen", "pending">>) = <<"pending">>
    OBVIOUS
  <2> QED
    BY <2>1, <2>2
<1>6. r = <<"pending">> => s.gckind = "genminor"
  BY <1>1, <1>2 DEF NextGoal
<1>7. r = <<"gen", "pending">> => s.gcstate = "atomic"
  BY <1>1, <1>2 DEF NextGoal
<1>8. r = <<"major">> => s.gcstate = "pause"
  BY <1>1, <1>2 DEF NextGoal
<1>9. r \in GoalLists
  BY <1>1 DEF NextGoal
<1> QED
  BY <1>1, <1>4, <1>5, <1>6, <1>7, <1>8, <1>9 DEF Held, Goals

Switches == {"gckind", "emergency", "infin"}

\* Neither the structure of the heap nor the trace depends on the mode and the flags.
LEMMA SwitchedIs ==
  ASSUME NEW s, Base(s), NEW t \in StateType, Same(s, t, Switches)
  PROVE  /\ Base(t) /\ InUse(t) = InUse(s) /\ t.color = s.color /\ t.age = s.age
         /\ t.open = s.open /\ t.allgc = s.allgc
         /\ t.finobj = s.finobj /\ t.tobefnz = s.tobefnz /\ t.gcstate = s.gcstate
         /\ t.sweepgc = s.sweepgc /\ t.survival = s.survival /\ t.old1 = s.old1
         /\ t.reallyold = s.reallyold /\ t.firstold1 = s.firstold1 /\ t.finobjsur = s.finobjsur
         /\ t.finobjold1 = s.finobjold1 /\ t.finobjrold = s.finobjrold
         /\ Marked(t) = Marked(s)
         /\ \A X : Ready(s, X) => Ready(t, X)
         /\ \A o \in Objects : Refs(s, o) = Refs(t, o)
<1>1. s \in StateType
  BY DEF Base
<1>2. /\ t.color = s.color /\ t.age = s.age /\ t.open = s.open /\ t.allgc = s.allgc
      /\ t.finobj = s.finobj /\ t.tobefnz = s.tobefnz /\ t.gcstate = s.gcstate
      /\ t.sweepgc = s.sweepgc /\ t.survival = s.survival /\ t.old1 = s.old1
      /\ t.reallyold = s.reallyold /\ t.firstold1 = s.firstold1 /\ t.finobjsur = s.finobjsur
      /\ t.finobjold1 = s.finobjold1 /\ t.finobjrold = s.finobjrold
      /\ t.weak = s.weak /\ t.allweak = s.allweak /\ t.ephemeron = s.ephemeron
  BY DEF Same, Fields, Switches
<1>3. Same(s, t, Unseen)
  BY DEF Same, Switches, Unseen
<1>4. Base(t) /\ InUse(t) = InUse(s)
  BY <1>2, <1>3, UnseenBase
<1>5. /\ \A X, r : Trace(s, X, r) => Trace(t, X, r)
      /\ \A o \in Objects : Refs(s, o) = Refs(t, o)
  BY <1>1, <1>3, UnseenTrace
<1>6. Marked(t) = Marked(s) /\ (NoDead(s) => NoDead(t))
  BY <1>2 DEF Marked, NoDead
<1>7. \A X : Ready(s, X) => Ready(t, X)
  BY <1>2, <1>5, <1>6 DEF Ready
<1> QED
  BY <1>2, <1>4, <1>5, <1>6, <1>7

\* The invariant of the incremental mode serves the major collections of the generational
\* mode too.
LEMMA SwitchedCycle ==
  ASSUME NEW s, Cycle(s), NEW t \in StateType, Same(s, t, Switches), t.gckind # "genminor"
  PROVE  Cycle(t)
<1>1. Base(s) /\ IncInv(s)
  BY DEF Cycle
<1>2. /\ Base(t) /\ InUse(t) = InUse(s) /\ t.color = s.color /\ t.age = s.age
      /\ t.allgc = s.allgc /\ t.finobj = s.finobj /\ t.tobefnz = s.tobefnz
      /\ t.gcstate = s.gcstate /\ t.sweepgc = s.sweepgc /\ t.finobjsur = s.finobjsur
      /\ t.finobjold1 = s.finobjold1 /\ t.finobjrold = s.finobjrold
      /\ Ready(s, {}) => Ready(t, {})
  BY <1>1, SwitchedIs
<1>3. Sweeping(s) => Sweeping(t)
  BY <1>2, SweepingSame
<1>4. \A S : Fresh(s, S) => Fresh(t, S)
  BY <1>2 DEF Fresh
<1>5. IncInv(t)
  BY <1>1, <1>2, <1>3, <1>4 DEF IncInv
<1> QED
  BY <1>2, <1>5 DEF Cycle

\* The invariant does not depend on the flags.
LEMMA FlagsInv ==
  ASSUME NEW s, Inv(s), NEW t \in StateType, Same(s, t, {"emergency", "infin"})
  PROVE  Inv(t) /\ t.gckind = s.gckind /\ t.gcstate = s.gcstate
<1>1. Same(s, t, Switches) /\ t.gckind = s.gckind /\ t.gcstate = s.gcstate
  BY DEF Same, Fields, Switches
<1>2. CASE s.gckind # "genminor"
  BY <1>1, <1>2, InvCases, SwitchedCycle DEF Cycle, Inv
<1>3. CASE s.gckind = "genminor"
  <2>1. Base(s) /\ GenInv(s)
    BY <1>3, InvCases
  <2>2. /\ Base(t) /\ t.color = s.color /\ t.age = s.age /\ t.open = s.open
        /\ t.allgc = s.allgc /\ t.finobj = s.finobj
        /\ t.survival = s.survival /\ t.old1 = s.old1
        /\ t.reallyold = s.reallyold /\ t.firstold1 = s.firstold1 /\ t.finobjsur = s.finobjsur
        /\ t.finobjold1 = s.finobjold1 /\ t.finobjrold = s.finobjrold
        /\ Marked(t) = Marked(s)
        /\ \A X : Ready(s, X) => Ready(t, X)
        /\ \A o \in Objects : Refs(s, o) = Refs(t, o)
    BY <1>1, <2>1, SwitchedIs
  <2>3. BlackOld1(t) = BlackOld1(s)
    BY <2>2 DEF BlackOld1, IsBlack
  <2>4. GenLists(s) /\ GenAges(s) /\ Ready(s, BlackOld1(s))
    BY <2>1 DEF GenInv
  <2>5. GenLists(t)
    BY <2>2, <2>4, GenListsSame
  <2>6. GenAges(t)
    BY <2>2, <2>4 DEF GenAges, AgesOf, IsOld, IsGray
  <2>7. GenInv(t)
    BY <1>1, <2>1, <2>2, <2>3, <2>4, <2>5, <2>6 DEF GenInv
  <2> QED
    BY <1>1, <2>2, <2>7 DEF Inv
<1> QED
  BY <1>1, <1>2, <1>3

\* Passing from one kind of incremental cycle to another.
LEMMA MajorIs ==
  ASSUME NEW s, Cycle(s), NEW k \in {"inc", "genmajor"}
  PROVE  LET t == [s EXCEPT !.gckind = k]
         IN  /\ Cycle(t) /\ t.gckind = k /\ t.gcstate = s.gcstate /\ t.infin = s.infin
             /\ t.emergency = s.emergency
<1> DEFINE t == [s EXCEPT !.gckind = k]
<1>1. s \in StateType
  BY DEF Cycle, Base
<1>2. /\ t \in StateType /\ Same(s, t, Switches) /\ t.gckind = k /\ t.gcstate = s.gcstate
      /\ t.infin = s.infin /\ t.emergency = s.emergency
  BY <1>1 DEF StateType, Same, Fields, Switches
<1> HIDE DEF t
<1>3. Cycle(t)
  BY <1>2, SwitchedCycle
<1> QED
  BY <1>2, <1>3 DEF t

\* A step of a task towards its goal keeps the invariant.
LEMMA TowardsHeld ==
  ASSUME NEW s, NEW goals, Held(s, goals), goals # << >>, ~s.infin, ~Met(s, goals[1]), KindOK
  PROVE  Held(TowardsGoal(s, goals[1]), goals)
<1> DEFINE h == goals[1]
           t == TowardsGoal(s, h)
<1>1. Goals(s, goals) /\ Inv(s) /\ NextGoal(goals)
  BY GoalsNext DEF Held, Goals
<1>2. CASE h = "gen"
  <2>1. t = Atomic2Gen(s)
    BY <1>2 DEF TowardsGoal
  <2>2. goals = <<"gen", "pending">> /\ s.gckind # "genminor"
    BY <1>1, <1>2 DEF NextGoal, Met
  <2>3. s.gcstate = "atomic"
    BY <1>1, <2>2 DEF Goals
  <2>4. Base(s) /\ NoWhite(s) /\ s.sweepgc = Nowhere
    BY <1>1, <2>2, <2>3, InvCases DEF Cycle, IncInv, NoWhite
  <2> HIDE DEF t
  <2>5. Base(t) /\ GenInv(t)
    BY <2>1, <2>4, Atomic2GenIs
  <2>6. t.gckind = "genminor" /\ t.gcstate = "propagate"
    BY <2>5 DEF GenInv
  <2>7. Goals(t, goals)
    BY <2>2, <2>6, <1>1 DEF Goals
  <2> QED
    BY <2>5, <2>7 DEF Held, Inv, t
<1>3. CASE h = "pending"
  <2>1. t = GCTM(s)
    BY <1>3 DEF TowardsGoal
  <2>2. goals = <<"pending">> /\ s.tobefnz # << >>
    BY <1>1, <1>3 DEF NextGoal, Met, CallFinalizers
  <2>3. Base(s) /\ GenInv(s)
    BY <1>1, <2>2, InvCases DEF Goals
  <2> HIDE DEF t
  <2>5. Base(t) /\ GenInv(t)
    BY <2>1, <2>2, <2>3, FinalizerGen
  <2>6. t.gckind = "genminor" /\ t.gcstate = "propagate"
    BY <2>5 DEF GenInv
  <2>7. Goals(t, goals)
    BY <2>2, <2>6, <1>1 DEF Goals
  <2> QED
    BY <2>5, <2>7 DEF Held, Inv, t
<1>4. CASE h = "major"
  <2>1. t = [s EXCEPT !.gckind = "genmajor"]
    BY <1>4 DEF TowardsGoal
  <2>2. goals = <<"major">>
    BY <1>1, <1>4 DEF NextGoal
  <2>3. s.gcstate = "pause"
    BY <1>1, <2>2 DEF Goals
  <2>4. s.gckind # "genminor"
    BY <1>1, <2>3, InvCases
  <2>5. Cycle(s)
    BY <1>1, <2>4, InvCases
  <2> HIDE DEF t
  <2>6. Cycle(t) /\ t.gckind = "genmajor" /\ t.gcstate = s.gcstate
    BY <2>1, <2>5, MajorIs
  <2>7. Goals(t, goals)
    BY <2>2, <2>3, <2>6, <1>1 DEF Goals
  <2> QED
    BY <2>6, <2>7 DEF Held, Inv, Cycle, t
<1>5. CASE h \notin {"gen", "pending", "major"}
  <2>1. t = FastStep(s)
    BY <1>5 DEF TowardsGoal
  <2>2. goals # <<"pending">> /\ goals # <<"gen", "pending">> /\ goals # <<"major">>
    BY <1>1, <1>5 DEF NextGoal
  <2>3. s.gckind # "genminor"
    BY <1>1, <2>2 DEF Goals
  <2>4. Cycle(s)
    BY <1>1, <2>3, InvCases
  <2> HIDE DEF t
  <2>5. /\ Cycle(t) /\ t.gckind = s.gckind
        /\ t.gcstate = "atomic" => s.gcstate = "enteratomic" /\ t.infin = s.infin
    BY <2>1, <2>4, FastStepIs
  <2>6. Goals(t, goals)
    BY <2>2, <2>3, <2>5, <1>1 DEF Goals
  <2> QED
    BY <2>5, <2>6 DEF Held, Inv, Cycle, t
<1> QED
  BY <1>2, <1>3, <1>4, <1>5

TaskStates == [g : StateType, goals : GoalLists]

HeldTasks == { st \in TaskStates : Held(st.g, st.goals) }

\* So does a turn of the loop that runs a task.
LEMMA TurnHeld ==
  ASSUME NEW st \in HeldTasks, KindOK
  PROVE  Turn(st) \in HeldTasks
<1> DEFINE s == st.g
           goals == st.goals
<1>1. /\ Held(s, goals) /\ st \in TaskStates /\ s \in StateType /\ goals \in GoalLists
      /\ st = [g |-> s, goals |-> goals]
  BY DEF HeldTasks, TaskStates
<1>0. Turn(st) = IF goals = << >> \/ s.infin THEN st
                 ELSE IF Met(s, goals[1]) THEN [g |-> s, goals |-> Tail(goals)]
                 ELSE [g |-> TowardsGoal(s, goals[1]), goals |-> goals]
  BY <1>1 DEF Turn
<1> HIDE DEF s, goals
<1>2. CASE goals = << >> \/ s.infin
  BY <1>0, <1>1, <1>2
<1>3. CASE goals # << >> /\ ~s.infin /\ Met(s, goals[1])
  <2> DEFINE r == Tail(goals)
  <2>1. Turn(st) = [g |-> s, goals |-> r]
    BY <1>0, <1>3
  <2>2. Held(s, r)
    BY <1>1, <1>3, MetHeld
  <2> HIDE DEF r
  <2>3. r \in GoalLists
    BY <2>2 DEF Held, Goals
  <2>4. [g |-> s, goals |-> r] \in TaskStates
    BY <1>1, <2>3 DEF TaskStates
  <2> QED
    BY <2>1, <2>2, <2>4 DEF HeldTasks
<1>4. CASE goals # << >> /\ ~s.infin /\ ~Met(s, goals[1])
  <2> DEFINE t == TowardsGoal(s, goals[1])
  <2>1. Turn(st) = [g |-> t, goals |-> goals]
    BY <1>0, <1>4
  <2>2. Held(t, goals)
    BY <1>1, <1>4, TowardsHeld
  <2> HIDE DEF t
  <2>3. t \in StateType
    BY <2>2 DEF Held, Inv, Base
  <2>4. [g |-> t, goals |-> goals] \in TaskStates
    BY <1>1, <2>3 DEF TaskStates
  <2> QED
    BY <2>1, <2>2, <2>4 DEF HeldTasks
<1> QED
  BY <1>2, <1>3, <1>4

Idle(s) == [s EXCEPT !.infin = FALSE]

\* A task that is started runs until it ends or calls a finalizer, and keeps the invariant.
LEMMA RunHeld ==
  ASSUME NEW s, Inv(s), NEW goals, Goals(Idle(s), goals), KindOK
  PROVE  Run(s, goals) \in HeldTasks
<1> DEFINE Step(st) == Turn(st)
           V == HeldTasks
           v0 == [g |-> Idle(s), goals |-> goals]
           N == MaxTurns
           G == [st \in V |-> Step(st)]
           Rec(f) == [n \in 0..N |-> IF n = 0 THEN v0 ELSE Step(f[n - 1])]
<1>0. N \in Nat
  BY CollectorAssumption
<1>1. v0 \in V
  <2> DEFINE u == Idle(s)
  <2>1. s \in StateType
    BY DEF Inv, Base
  <2>2. u \in StateType /\ Same(s, u, {"emergency", "infin"})
    BY <2>1 DEF StateType, Same, Fields, Idle
  <2> HIDE DEF u
  <2>3. Inv(u)
    BY <2>2, FlagsInv
  <2>4. goals \in GoalLists /\ Goals(u, goals)
    BY DEF Goals, u
  <2>5. [g |-> u, goals |-> goals] \in TaskStates
    BY <2>2, <2>4 DEF TaskStates
  <2>6. [g |-> u, goals |-> goals] \in HeldTasks
    BY <2>3, <2>4, <2>5 DEF HeldTasks, Held
  <2> QED
    BY <2>6 DEF u
<1>2. ASSUME NEW st \in V PROVE Step(st) \in V
  BY TurnHeld
<1>3. G \in [V -> V]
  BY <1>2
<1>7. Run(s, goals) = (CHOOSE h : h = Rec(h))[N]
  BY Zenon DEF Run, Idle
<1> HIDE DEF v0
<1>4. PICK f : TurnsOf(f, N, V, v0, G)
  <2> HIDE DEF G, V
  <2> QED BY <1>0, <1>1, <1>3, Turns
<1>5. f = Rec(f)
  <2> HIDE DEF Step, V
  <2>1. f \in [0..N -> V] /\ f[0] = v0 /\ \A n \in 1..N : f[n] = G[f[n - 1]]
    BY <1>4 DEF TurnsOf
  <2>2. ASSUME NEW n \in 1..N PROVE f[n] = Step(f[n - 1])
    <3>1. f[n - 1] \in V
      BY <1>0, <2>1
    <3> QED BY <2>1, <3>1
  <2>3. \A n \in 0..N : f[n] = IF n = 0 THEN v0 ELSE Step(f[n - 1])
    BY <1>0, <2>1, <2>2
  <2> QED BY <2>1, <2>3
<1> DEFINE g0 == CHOOSE h : h = Rec(h)
<1>6. g0 = Rec(g0)
  <2> HIDE DEF Rec
  <2> QED BY <1>5, Zenon
<1>10. Run(s, goals) = g0[N]
  BY <1>7
<1> HIDE DEF g0, Step
<1>8. g0[0] = v0 /\ \A n \in 1..N : g0[n] = Step(g0[n - 1])
  BY <1>0, <1>6
<1>9. \A n \in 0..N : g0[n] \in V
  <2> HIDE DEF V
  <2>1. \A n \in 1..N : g0[n - 1] \in V => g0[n] \in V
    BY <1>2, <1>8
  <2> QED BY <1>0, <1>1, <1>8, <2>1, TurnsStay
<1> QED
  BY <1>0, <1>9, <1>10

Fits(s, goals) == Inv(s) /\ Goals(Idle(s), goals)

\* The flag of a running finalizer says nothing of the phase.
LEMMA IdleIs ==
  ASSUME NEW s, Base(s)
  PROVE  Idle(s).gcstate = s.gcstate /\ Idle(s).gckind = s.gckind /\ Idle(s).infin = FALSE
  BY DEF Idle, Base, StateType

\* The tasks that may start in the incremental mode.
LEMMA CycleFits ==
  ASSUME NEW s, Cycle(s), s.gcstate # "atomic", NEW goals \in GoalLists,
         goals \notin {<<"pending">>, <<"gen", "pending">>, <<"major">>}
  PROVE  Fits(s, goals)
<1>1. Base(s) /\ Inv(s) /\ s.gckind # "genminor"
  BY DEF Cycle, Inv, IncInv
<1> QED
  BY <1>1, IdleIs DEF Fits, Goals

\* The tasks that may start in the generational mode.
LEMMA GenFits ==
  ASSUME NEW s, Base(s), GenInv(s), NEW goals \in {<< >>, <<"pending">>}
  PROVE  Fits(s, goals)
<1>1. Inv(s) /\ s.gckind = "genminor" /\ s.gcstate = "propagate"
  BY DEF Inv, GenInv
<1>2. goals # <<"gen", "pending">> /\ goals # <<"major">>
  OBVIOUS
<1>3. goals \in GoalLists
  BY DEF GoalLists
<1> QED
  BY <1>1, <1>2, <1>3, IdleIs DEF Fits, Goals

\* The goals that the collections begin with.
LEMMA ManyGoals ==
  /\ \A goals \in {<< >>, EnterGenGoals, <<"atomic", "gen", "pending">>,
                   <<"pause", "callfin", "pause">>, <<"pause", "callfin", "pause", "major">>} :
       goals \in GoalLists /\ goals \notin {<<"pending">>, <<"gen", "pending">>, <<"major">>}
  /\ Append(<<"pause", "callfin", "pause">>, "major") = <<"pause", "callfin", "pause", "major">>
<1>1. Append(<<"pause", "callfin", "pause">>, "major") = <<"pause", "callfin", "pause", "major">>
  <2> DEFINE X == {"pause", "callfin", "major"}
             a == <<"pause", "callfin", "pause">>
             b == <<"pause", "callfin", "pause", "major">>
  <2>1. a \in Seq(X) /\ Len(a) = 3 /\ a[1] = "pause" /\ a[2] = "callfin" /\ a[3] = "pause"
    OBVIOUS
  <2>2. b \in Seq(X) /\ Len(b) = 4 /\ b[1] = "pause" /\ b[2] = "callfin" /\ b[3] = "pause"
        /\ b[4] = "major"
    OBVIOUS
  <2> DEFINE e == "major"
  <2>6. e \in X /\ b[4] = e
    BY <2>2
  <2>7. Append(<<"pause", "callfin", "pause">>, "major") = Append(a, e)
    OBVIOUS
  <2> HIDE DEF a, b, X, e
  <2>3. /\ Append(a, e) \in Seq(X) /\ Len(Append(a, e)) = Len(a) + 1
        /\ Append(a, e)[Len(a) + 1] = e
        /\ \A i \in 1..Len(a) : Append(a, e)[i] = a[i]
    <3>1. a \in Seq(X) /\ e \in X
      BY <2>1, <2>6
    <3> QED
      BY <3>1, PushSeq
  <2>4. \A i \in 1..4 : Append(a, e)[i] = b[i]
    BY <2>1, <2>2, <2>3, <2>6
  <2>5. Append(a, e) = b
    BY <2>1, <2>2, <2>3, <2>4
  <2> QED
    BY <2>5, <2>7 DEF b
<1> DEFINE Ends == {<<"pending">>, <<"gen", "pending">>, <<"major">>}
<1>2. << >> \in GoalLists /\ << >> \notin Ends
  BY DEF GoalLists
<1>3. EnterGenGoals \in GoalLists /\ EnterGenGoals \notin Ends
  BY DEF GoalLists, EnterGenGoals
<1>4. <<"atomic", "gen", "pending">> \in GoalLists /\ <<"atomic", "gen", "pending">> \notin Ends
  BY DEF GoalLists
<1>5. <<"pause", "callfin", "pause">> \in GoalLists /\ <<"pause", "callfin", "pause">> \notin Ends
  BY DEF GoalLists
<1>6. /\ <<"pause", "callfin", "pause", "major">> \in GoalLists
      /\ <<"pause", "callfin", "pause", "major">> \notin Ends
  BY DEF GoalLists
<1> HIDE DEF Ends
<1>7. \A goals \in {<< >>, EnterGenGoals, <<"atomic", "gen", "pending">>,
                   <<"pause", "callfin", "pause">>, <<"pause", "callfin", "pause", "major">>} :
        goals \in GoalLists /\ goals \notin Ends
  BY <1>2, <1>3, <1>4, <1>5, <1>6
<1> QED
  BY <1>1, <1>7 DEF Ends

\* fullinc enters the sweep if the marking had begun, then wants a whole cycle.
LEMMA FullIncIs ==
  ASSUME NEW s, Cycle(s), s.gcstate # "atomic", KindOK
  PROVE  LET f == FullInc(s)
         IN  /\ Cycle(f.g) /\ f.g.gcstate # "atomic"
             /\ f.goals = <<"pause", "callfin", "pause">>
<1>1. CASE KeepInvariant(s)
  <2>1. CycleTo(s, EnterSweep(s), "swpallgc")
    BY LeaveAtomicIs
  <2> QED
    BY <1>1, <2>1 DEF FullInc, CycleTo
<1>2. CASE ~KeepInvariant(s)
  BY <1>2 DEF FullInc
<1> QED
  BY <1>1, <1>2

Urged(s, e) == [s EXCEPT !.emergency = e]

\* The flag of an emergency collection says nothing of the heap.
LEMMA UrgedIs ==
  ASSUME NEW s, Inv(s), NEW e \in BOOLEAN
  PROVE  Inv(Urged(s, e)) /\ Urged(s, e).gckind = s.gckind /\ Urged(s, e).gcstate = s.gcstate
<1> DEFINE t == Urged(s, e)
<1>1. s \in StateType
  BY DEF Inv, Base
<1>2. t \in StateType /\ Same(s, t, {"emergency", "infin"})
  BY <1>1 DEF Urged, StateType, Same, Fields
<1> HIDE DEF t
<1>3. Inv(t) /\ t.gckind = s.gckind /\ t.gcstate = s.gcstate
  BY <1>2, FlagsInv
<1> QED
  BY <1>3 DEF t

\* luaC_fullgc begins with goals that fit, in every mode and phase.
LEMMA FullGCFits ==
  ASSUME NEW s, Inv(s), s.gcstate # "atomic", NEW e \in BOOLEAN, KindOK, NEW st, st = FullGC(s, e)
  PROVE  Fits(st.g, st.goals)
<1> DEFINE t == Urged(s, e)
<1>1. Inv(t) /\ t.gckind = s.gckind /\ t.gcstate = s.gcstate
  BY UrgedIs
<1>2. s.gckind \in {"inc", "genminor", "genmajor"}
  BY DEF Inv, Base, StateType
<1>3. st = CASE s.gckind = "genminor" -> FullGen(t)
             [] s.gckind = "inc" -> FullInc(t)
             [] s.gckind = "genmajor" ->
                  [g |-> [FullInc(t).g EXCEPT !.gckind = "inc"],
                   goals |-> Append(FullInc(t).goals, "major")]
  BY Zenon DEF FullGC, Urged
<1> HIDE DEF t
<1>4. CASE s.gckind = "genminor"
  <2>1. Base(t)
    BY <1>1 DEF Inv
  <2> DEFINE u == Minor2Inc(t, "inc")
  <2>2. Cycle(u) /\ u.gcstate = "swpallgc"
    BY <2>1, Minor2IncIs
  <2>3. st.g = u /\ st.goals = EnterGenGoals
    BY <1>3, <1>4 DEF FullGen
  <2> HIDE DEF u
  <2> QED
    BY <2>2, <2>3, ManyGoals, CycleFits
<1>5. CASE s.gckind \in {"inc", "genmajor"}
  <2> DEFINE f == FullInc(t)
  <2>1. Cycle(t) /\ t.gcstate # "atomic"
    BY <1>1, <1>5, InvCases
  <2>2. /\ Cycle(f.g) /\ f.g.gcstate # "atomic"
        /\ f.goals = <<"pause", "callfin", "pause">>
    BY <2>1, FullIncIs
  <2> HIDE DEF f
  <2>3. CASE s.gckind = "inc"
    <3>1. st = f
      BY <1>3, <2>3 DEF f
    <3> QED
      BY <3>1, <2>2, ManyGoals, CycleFits
  <2>4. CASE s.gckind = "genmajor"
    <3> DEFINE u == [f.g EXCEPT !.gckind = "inc"]
    <3>1. st = [g |-> u, goals |-> Append(f.goals, "major")]
      BY <1>3, <2>4 DEF f
    <3>2. Cycle(u) /\ u.gcstate # "atomic"
      BY <2>2, MajorIs
    <3> HIDE DEF u
    <3>3. st.g = u /\ st.goals = <<"pause", "callfin", "pause", "major">>
      BY <3>1, <2>2, ManyGoals
    <3> QED
      BY <3>2, <3>3, ManyGoals, CycleFits
  <2> QED
    BY <1>5, <2>3, <2>4
<1> QED
  BY <1>2, <1>4, <1>5

\* luaC_changemode begins with goals that fit.
LEMMA ChangeModeFits ==
  ASSUME NEW s, Inv(s), s.gcstate # "atomic", KindOK, NEW m \in {"inc", "genminor"}, m # s.gckind,
         NEW st, st = ChangeMode(s, m)
  PROVE  Fits(st.g, st.goals)
<1>1. CASE m = "inc" /\ s.gckind = "genminor"
  <2> DEFINE u == Minor2Inc(s, "inc")
  <2>1. st.g = u /\ st.goals = << >>
    BY <1>1 DEF ChangeMode
  <2>2. Cycle(u) /\ u.gcstate = "swpallgc"
    BY Minor2IncIs DEF Inv
  <2> HIDE DEF u
  <2> QED
    BY <2>1, <2>2, ManyGoals, CycleFits
<1>2. CASE ~(m = "inc" /\ s.gckind = "genminor")
  <2> DEFINE u == [s EXCEPT !.gckind = "inc"]
  <2>1. s.gckind # "genminor"
    BY <1>2
  <2>2. Cycle(s)
    BY <2>1, InvCases
  <2>3. st.g = u /\ st.goals = IF m = "inc" THEN << >> ELSE EnterGenGoals
    BY <1>2 DEF ChangeMode
  <2>4. Cycle(u) /\ u.gcstate # "atomic"
    BY <2>2, MajorIs
  <2> HIDE DEF u
  <2>5. st.goals \in {<< >>, EnterGenGoals}
    BY <2>3
  <2>6. st.goals \in GoalLists /\ st.goals \notin {<<"pending">>, <<"gen", "pending">>, <<"major">>}
    BY <2>5, ManyGoals
  <2> QED
    BY <2>3, <2>4, <2>6, CycleFits
<1> QED
  BY <1>1, <1>2

\* A step in generational mode begins with goals that fit.
LEMMA YoungFits ==
  ASSUME NEW s, Inv(s), KindOK, NEW st \in YoungCollection(s)
  PROVE  Fits(st.g, st.goals)
<1>1. s.gckind = "genminor" /\ st \in EndYoung(YoungSweep(s))
  BY DEF YoungCollection
<1>2. Base(s) /\ GenInv(s)
  BY <1>1, InvCases
<1> DEFINE y == YoungSweep(s)
<1>3. /\ LET f == FinishGenCycle(y) IN Base(f) /\ GenInv(f)
      /\ LET t == Minor2Inc(y, "genmajor") IN Cycle(t) /\ t.gcstate = "swpallgc"
  BY <1>2, YoungCollectionIs
<1>4. st \in EndYoung(y)
  BY <1>1
<1> HIDE DEF y
<1> DEFINE f == FinishGenCycle(y)
           t == Minor2Inc(y, "genmajor")
<1>5. \/ st = [g |-> f, goals |-> <<"pending">>]
      \/ st = [g |-> f, goals |-> << >>]
      \/ st = [g |-> t, goals |-> << >>]
  BY <1>4 DEF EndYoung
<1>6. Base(f) /\ GenInv(f) /\ Cycle(t) /\ t.gcstate # "atomic"
  BY <1>3
<1> HIDE DEF f, t
<1>7. Fits(f, << >>) /\ Fits(f, <<"pending">>)
  BY <1>6, GenFits
<1>8. Fits(t, << >>)
  BY <1>6, ManyGoals, CycleFits
<1> QED
  BY <1>5, <1>7, <1>8

\* So does the end of a major collection that returns to minor ones.
LEMMA BackFits ==
  ASSUME NEW s, Inv(s), NEW st \in BackToMinor(s)
  PROVE  Fits(st.g, st.goals)
<1>1. /\ s.gcstate = "enteratomic" /\ s.gckind = "genmajor"
      /\ st = [g |-> s, goals |-> <<"atomic", "gen", "pending">>]
  BY DEF BackToMinor
<1>2. Cycle(s)
  BY <1>1, InvCases
<1>3. Fits(s, <<"atomic", "gen", "pending">>)
  BY <1>1, <1>2, ManyGoals, CycleFits
<1> QED
  BY <1>1, <1>3

\* So does every task that the collector may start.
LEMMA TasksFit ==
  ASSUME NEW s, Held(s, << >>), KindOK, NEW st \in Tasks(s)
  PROVE  Fits(st.g, st.goals)
<1>1. Inv(s) /\ s.gcstate # "atomic"
  BY DEF Held, Goals
<1>2. CASE \E e \in BOOLEAN : st = FullGC(s, e)
  BY <1>1, <1>2, FullGCFits
<1>3. CASE \E m \in {"inc", "genminor"} \ {s.gckind} : st = ChangeMode(s, m)
  BY <1>1, <1>3, ChangeModeFits
<1>4. CASE st \in YoungCollection(s)
  BY <1>1, <1>4, YoungFits
<1>5. CASE st \in BackToMinor(s)
  BY <1>1, <1>5, BackFits
<1> QED
  BY <1>2, <1>3, <1>4, <1>5 DEF Tasks

\* What remains of a task fits.
LEMMA HeldFits ==
  ASSUME NEW s, NEW goals, Held(s, goals)
  PROVE  Fits(s, goals)
<1>1. Base(s)
  BY DEF Held, Inv
<1> QED
  BY <1>1, IdleIs DEF Held, Fits, Goals

Rested(s) == [s EXCEPT !.emergency = FALSE, !.infin = FALSE]

\* At the end of a task the flags are reset.
LEMMA RestedHeld ==
  ASSUME NEW s, Held(s, << >>)
  PROVE  Held(Rested(s), << >>)
<1> DEFINE t == Rested(s)
<1>1. Inv(s) /\ s \in StateType /\ Goals(s, << >>)
  BY DEF Held, Inv, Base
<1>2. t \in StateType /\ Same(s, t, {"emergency", "infin"})
  BY <1>1 DEF Rested, StateType, Same, Fields
<1> HIDE DEF t
<1>3. Inv(t) /\ t.gckind = s.gckind /\ t.gcstate = s.gcstate
  BY <1>1, <1>2, FlagsInv
<1>4. Goals(t, << >>)
  BY <1>1, <1>3 DEF Goals
<1> QED
  BY <1>3, <1>4 DEF Held, t

\* The action Task, a collection from its start or from a finalizer on, keeps the invariant.
LEMMA TaskHeld ==
  ASSUME KindOK, Held(g, task), Task
  PROVE  \E h, goals : Held(h, goals) /\ g' = h /\ task' = goals
<1>1. PICK st \in (IF task = << >> THEN Tasks(g) ELSE {[g |-> g, goals |-> task]}) :
        LET reached == Run(st.g, st.goals)
        IN  /\ g' = IF reached.goals # << >> THEN reached.g
                    ELSE [reached.g EXCEPT !.emergency = FALSE, !.infin = FALSE]
            /\ task' = reached.goals
  BY DEF Task
<1>2. Fits(st.g, st.goals)
  <2>1. CASE task = << >>
    BY <1>1, <2>1, TasksFit
  <2>2. CASE task # << >>
    <3>1. st = [g |-> g, goals |-> task]
      BY <1>1, <2>2
    <3> QED
      BY <3>1, HeldFits
  <2> QED
    BY <2>1, <2>2
<1> DEFINE r == Run(st.g, st.goals)
<1>3. r \in HeldTasks
  BY <1>2, RunHeld DEF Fits
<1>4. /\ g' = IF r.goals # << >> THEN r.g ELSE Rested(r.g)
      /\ task' = r.goals
  BY <1>1 DEF Rested
<1> HIDE DEF r
<1>5. Held(r.g, r.goals)
  BY <1>3 DEF HeldTasks
<1>6. r.goals = << >> => Held(Rested(r.g), r.goals)
  BY <1>5, RestedHeld
<1> QED
  BY <1>4, <1>5, <1>6

(****************************************************************************)
(* The steps of the program and of the collector                            *)
(****************************************************************************)

\* While the program runs the phase is not the atomic one, and a step of its own keeps the
\* invariant.
LEMMA ProgramHeld ==
  ASSUME Held(g, task), ProgramRuns
  PROVE  Runs(g) /\ \A t : Stepped(g, t) => Held(t, task)
<1>1. Inv(g) /\ Goals(g, task) /\ (task = << >> \/ g.infin)
  BY DEF Held, ProgramRuns
<1>2. g.gcstate # "atomic"
  BY <1>1 DEF Goals
<1>3. Runs(g)
  BY <1>1, <1>2 DEF Runs
<1>4. ASSUME NEW t, Stepped(g, t) PROVE Held(t, task)
  <2>1. Inv(t) /\ t.gcstate = g.gcstate /\ t.gckind = g.gckind /\ t.infin = g.infin
    BY <1>4 DEF Stepped, Runs
  <2>2. Goals(t, task)
    BY <1>1, <2>1 DEF Goals
  <2> QED
    BY <2>1, <2>2 DEF Held
<1> QED
  BY <1>3, <1>4

\* The action NewObj.
LEMMA NewObjStepped ==
  ASSUME KindOK, Runs(g), NEW o \in Objects, NewObj(o)
  PROVE  Stepped(g, g')
<1>1. Base(g)
  BY DEF Runs, Inv
<1>2. PICK th \in {NULL} \cup { t \in g.stack : /\ kind[o] = "upval" /\ kind[t] = "thread"
                                                 /\ OpenUpvals(g, t) = {} } :
        g' = [g EXCEPT !.color[o] = "white", !.allgc = <<o>> \o @,
                         !.stack = @ \cup {o}, !.open[o] = th,
                         !.twups = IF th = NULL THEN @ ELSE @ \cup {th}]
  BY DEF NewObj, Program
<1>3. th = NULL \/ (kind[o] = "upval" /\ kind[th] = "thread" /\ th \in g.stack /\ OpenUpvals(g, th) = {})
  BY <1>2
<1>4. g.color[o] = "free"
  BY DEF NewObj
<1> DEFINE t == [g EXCEPT !.color[o] = "white", !.allgc = <<o>> \o @,
                         !.stack = @ \cup {o}, !.open[o] = th,
                         !.twups = IF th = NULL THEN @ ELSE @ \cup {th}]
<1>5. Made(g, t, o, th)
  BY <1>1, <1>3, <1>4, MadeIs
<1>6. g' = t
  BY <1>2
<1> HIDE DEF t
<1>7. Stepped(g, t)
  BY <1>5, MadeInv
<1> QED
  BY <1>6, <1>7

\* The actions that store with luaC_barrier.
LEMMA ForwardStepped ==
  ASSUME KindOK, Runs(g), NEW o \in g.stack, kind[o] \in {"closure", "upval", "bareudata"},
         g.open[o] = NULL, NEW x \in g.stack \cup {NULL},
         x # NULL => (kind[x] = "upval" => kind[o] = "closure"),
         x # NULL => (kind[o] = "bareudata" => kind[x] \in TableKinds),
         x # NULL /\ kind[x] \in {"upval", "bareudata"} => Joins(g, o, x),
         g' = Barrier([g EXCEPT !.val[o] = x], o, x)
  PROVE  Stepped(g, g')
<1> DEFINE t == Barrier([g EXCEPT !.val[o] = x], o, x)
<1>3. Stepped(g, t)
  BY ForwardVal
<1>4. g' = t
  OBVIOUS
<1> HIDE DEF t
<1> QED
  BY <1>3, <1>4

\* The actions that store a value.
LEMMA StoreStepped ==
  ASSUME KindOK, Runs(g), NEW o \in Objects, NEW x \in Objects \cup {NULL},
         x # NULL /\ ForwardStore(o, x) /\ kind[x] \in {"upval", "bareudata"} => Joins(g, o, x),
         SetTable(o, x) \/ SetClosure(o, x) \/ SetSlot(o, x) \/ SetUpval(o, x) \/ JoinUpvalue(o, x)
  PROVE  Stepped(g, g')
<1>1. Values = Storable(g)
  BY DEF Values, Storable
<1>2. kind[o] = "closure" => g.open[o] = NULL
  BY DEF Runs, Inv, Base, Shape, ShapeOf
<1>3. CASE SetTable(o, x)
  <2>1. /\ o \in g.stack /\ kind[o] \in Tables /\ x \in Storable(g)
        /\ g' = BarrierBack([g EXCEPT !.val[o] = x], o, x)
    BY <1>1, <1>3 DEF SetTable, Program, OnStack, Tables
  <2>2. Stepped(g, BarrierBack([g EXCEPT !.val[o] = x], o, x))
    BY <2>1, BackVal
  <2> QED
    BY <2>1, <2>2, Zenon
<1>4. CASE SetClosure(o, x)
  <2>1. /\ o \in g.stack /\ kind[o] = "closure" /\ x \in g.stack /\ kind[x] # "upval"
        /\ g' = Barrier([g EXCEPT !.val[o] = x], o, x)
        /\ x # NULL /\ kind[x] \in {"upval", "bareudata"} => Joins(g, o, x)
    BY <1>2, <1>4 DEF SetClosure, Program, OnStack, Values, ForwardStore
  <2> QED
    BY <2>1, <1>2, ForwardStepped
<1>5. CASE JoinUpvalue(o, x)
  <2>1. /\ o \in g.stack /\ kind[o] = "closure" /\ x \in g.stack
        /\ g' = Barrier([g EXCEPT !.val[o] = x], o, x)
        /\ x # NULL /\ kind[x] \in {"upval", "bareudata"} => Joins(g, o, x)
    BY <1>2, <1>5 DEF JoinUpvalue, Program, OnStack, ForwardStore
  <2> QED
    BY <2>1, <1>2, ForwardStepped
<1>6. CASE SetSlot(o, x)
  <2>1. /\ o \in g.stack /\ kind[o] = "thread" /\ o # MainThread /\ x \in Storable(g)
        /\ g' = [g EXCEPT !.val[o] = x]
    BY <1>1, <1>6 DEF SetSlot, Program, OnStack
  <2>2. Stepped(g, [g EXCEPT !.val[o] = x])
    BY <2>1, SetSlotInv
  <2> QED
    BY <2>1, <2>2, Zenon
<1>7. CASE SetUpval(o, x)
  <2>1. /\ o \in g.stack /\ kind[o] = "upval" /\ x \in Storable(g)
        /\ g' = (IF g.open[o] = NULL THEN Barrier([g EXCEPT !.val[o] = x], o, x)
                 ELSE Barrier([g EXCEPT !.val[g.open[o]] = x], o, x))
    BY <1>1, <1>7 DEF SetUpval, Program, OnStack
  <2>2. CASE g.open[o] = NULL
    <3>1. g' = Barrier([g EXCEPT !.val[o] = x], o, x)
      BY <2>1, <2>2
    <3>2. /\ x \in g.stack \cup {NULL} /\ (x # NULL => kind[x] # "upval")
          /\ x # NULL /\ kind[x] \in {"upval", "bareudata"} => Joins(g, o, x)
      BY <1>7, <2>1, <2>2 DEF Storable, ForwardStore
    <3> QED
      BY <2>1, <2>2, <3>1, <3>2, ForwardStepped
  <2>3. CASE g.open[o] # NULL
    <3>1. g' = Barrier([g EXCEPT !.val[g.open[o]] = x], o, x)
      BY <2>1, <2>3
    <3>2. Stepped(g, Barrier([g EXCEPT !.val[g.open[o]] = x], o, x))
      BY <2>1, <2>3, SetOpenInv
    <3> QED
      BY <3>1, <3>2, Zenon
  <2> QED
    BY <2>2, <2>3
<1> QED
  BY <1>3, <1>4, <1>5, <1>6, <1>7

\* The action SetMetatable: a store with luaC_barrier, after which the object may go to
\* finobj.
LEMMA MetatableStepped ==
  ASSUME KindOK, Runs(g), NEW o \in Objects, NEW x \in Objects \cup {NULL}, SetMetatable(o, x)
  PROVE  Stepped(g, g')
<1> DEFINE t == Barrier([g EXCEPT !.val[o] = x], o, x)
<1>1. /\ o \in g.stack /\ kind[o] = "bareudata" /\ x \in g.stack \cup {NULL}
      /\ x # NULL => kind[x] \in TableKinds
      /\ g' = t \/ (o \in In(g.allgc) /\ g' = CheckFinalizer(t, o))
  BY DEF SetMetatable, Program, OnStack, Values
<1>2. g.open[o] = NULL
  BY <1>1 DEF Runs, Inv, Base, Shape, ShapeOf
<1>3. Stepped(g, t)
  BY <1>1, <1>2, ForwardVal DEF TableKinds
<1>4. Base(g) /\ g \in StateType
  BY DEF Runs, Inv, Base
<1>5. t.allgc = g.allgc /\ t.stack = g.stack
  <2>1. x \in OrNull(Proper)
    BY <1>1, <1>4 DEF StateType, OrNull
  <2> QED BY <1>4, <2>1, ForwardLists
<1> HIDE DEF t
<1>6. CASE o \in In(g.allgc) /\ g' = CheckFinalizer(t, o)
  <2>1. Runs(t) /\ o \in In(t.allgc) /\ o \in t.stack
    BY <1>1, <1>3, <1>5, <1>6 DEF Stepped
  <2>2. Stepped(t, CheckFinalizer(t, o))
    BY <2>1, CheckFinalizerInv
  <2> QED
    BY <1>3, <1>6, <2>2 DEF Stepped
<1> QED
  BY <1>1, <1>3, <1>6

\* The actions that move objects between the stack, a coroutine and a list.
LEMMA MoveStepped ==
  ASSUME KindOK, Runs(g), NEW o \in Objects,
         \A u \in Objects, v \in Objects :
           ForwardStore(u, v) /\ kind[v] \in {"upval", "bareudata"} => Joins(g, u, v),
         Load(o) \/ Drop(o) \/ CloseThread(o) \/ MarkForFinalization(o)
  PROVE  Stepped(g, g')
<1>1. CASE Load(o)
  <2>1. PICK x \in {g.key[o], UpvalValue(g, o)} \ (g.stack \cup {NULL}) :
          g' = [g EXCEPT !.stack = @ \cup {x}]
    BY <1>1 DEF Load, Program
  <2>2. o \in g.stack
    BY <1>1 DEF Load, OnStack
  <2>3. Stepped(g, [g EXCEPT !.stack = @ \cup {x}])
    BY <2>2, LoadInv
  <2> QED
    BY <2>1, <2>3, Zenon
<1>2. CASE Drop(o)
  <2>1. g' = [g EXCEPT !.stack = @ \ {o}]
    BY <1>2 DEF Drop, Program
  <2>2. Stepped(g, [g EXCEPT !.stack = @ \ {o}])
    BY DropInv
  <2> QED
    BY <2>1, <2>2, Zenon
<1>3. CASE CloseThread(o)
  <2>1. /\ o \in g.stack /\ kind[o] = "thread" /\ OpenUpvals(g, o) # {}
        /\ g' = [CloseUpvals(g, o) EXCEPT !.val[o] = NULL]
    BY <1>3 DEF CloseThread, Program, OnStack
  <2>3. ASSUME NEW u \in OpenUpvals(g, o) PROVE ClosesAlone(g, u)
    <3>1. g \in StateType /\ u \in Objects /\ g.open[u] = o /\ o # NULL
      BY Null DEF Runs, Inv, Base, OpenUpvals
    <3>2. ForwardStore(u, UpvalValue(g, u))
      BY <1>3, <3>1 DEF ForwardStore
    <3>3. UpvalValue(g, u) # NULL => UpvalValue(g, u) \in Objects
      BY <3>1, RefsType DEF OrNull, Proper
    <3> QED
      BY <3>1, <3>2, <3>3 DEF ClosesAlone
  <2>2. Stepped(g, [CloseUpvals(g, o) EXCEPT !.val[o] = NULL])
    BY <2>1, <2>3, CloseThreadInv
  <2> QED
    BY <2>1, <2>2, Zenon
<1>4. CASE MarkForFinalization(o)
  <2>1. o \in g.stack /\ o \in In(g.allgc) /\ g' = CheckFinalizer(g, o)
    BY <1>4 DEF MarkForFinalization, Program, OnStack
  <2>2. Stepped(g, CheckFinalizer(g, o))
    BY <2>1, CheckFinalizerInv
  <2> QED
    BY <2>1, <2>2, Zenon
<1> QED
  BY <1>1, <1>2, <1>3, <1>4

\* The action SetWeak.
LEMMA WeakStepped ==
  ASSUME KindOK, Runs(g), NEW o \in Objects, NEW k \in Objects, NEW x \in Objects \cup {NULL},
         SetWeak(o, k, x)
  PROVE  Stepped(g, g')
<1> DEFINE keyed == BarrierBack([g EXCEPT !.key[o] = k], o, k)
           t == BarrierBack([keyed EXCEPT !.val[o] = x], o, x)
<1>1. g' = t
  BY DEF SetWeak, Program
<1>2. o \in g.stack /\ kind[o] \in WeakKinds /\ k \in Storable(g) \ {NULL} /\ x \in Storable(g)
  BY DEF SetWeak, OnStack, WeakKinds, Values, Storable
<1>3. Stepped(g, t)
  BY <1>2, SetWeakInv
<1> HIDE DEF t
<1> QED
  BY <1>1, <1>3

Reaches(t, goals) == Held(t, goals) /\ g' = t /\ task' = goals /\ kind' = kind

\* The invariant of the incremental mode, with no task.
LEMMA CycleHeld ==
  ASSUME NEW t, Cycle(t), t.gcstate # "atomic"
  PROVE  Held(t, << >>)
<1>1. Inv(t) /\ t.gckind # "genminor"
  BY DEF Cycle, Inv, IncInv
<1> QED
  BY <1>1, ManyGoals DEF Held, Goals

\* A step of the incremental collector ends with no task.
LEMMA IncStepHeld ==
  ASSUME NEW t, Cycle(t), t.gcstate # "atomic", IncStep(t)
  PROVE  Reaches(t, << >>)
  BY CycleHeld DEF IncStep, Reaches

\* The steps of the incremental collector keep the invariant.
LEMMA IncHeld ==
  ASSUME KindOK, Held(g, task),
         Pause \/ Propagate \/ EnterAtomic \/ SweepAllGC \/ SweepFinObj \/ SweepToBeFnz
         \/ SweepEnd \/ CallFin \/ SkipFinalizers
  PROVE  \E t : Reaches(t, << >>)
<1>1. task = << >> /\ g.gckind # "genminor"
  BY DEF Pause, Propagate, EnterAtomic, SweepAllGC, SweepFinObj, SweepToBeFnz, SweepEnd, CallFin,
         SkipFinalizers, IncStep
<1>2. Cycle(g)
  BY <1>1, InvCases DEF Held
<1>3. CASE Pause
  <2>1. g.gcstate = "pause" /\ IncStep(StartCycle(g))
    BY <1>3 DEF Pause
  <2>2. CycleTo(g, StartCycle(g), "propagate")
    BY <1>2, <2>1, StartCycleIs
  <2> QED
    BY <2>1, <2>2, IncStepHeld DEF CycleTo
<1>4. CASE Propagate
  <2>1. CASE g.gcstate = "propagate" /\ IncStep([g EXCEPT !.gcstate = "enteratomic"])
    <3> DEFINE t == [g EXCEPT !.gcstate = "enteratomic"]
    <3>1. CycleTo(g, t, "enteratomic")
      BY <1>2, <2>1, NextPhaseIs DEF Phases
    <3>2. IncStep(t)
      BY <2>1
    <3> HIDE DEF t
    <3> QED
      BY <3>1, <3>2, IncStepHeld DEF CycleTo
  <2>2. CASE \E o \in g.gray : g.gcstate = "propagate" /\ IncStep(PropagateMark(g, o))
    <3>1. PICK o \in g.gray : g.gcstate = "propagate" /\ IncStep(PropagateMark(g, o))
      BY <2>2
    <3>2. CycleTo(g, PropagateMark(g, o), "propagate")
      BY <1>2, <3>1, PropagateIs
    <3> QED
      BY <3>1, <3>2, IncStepHeld DEF CycleTo
  <2> QED
    BY <1>4, <2>1, <2>2 DEF Propagate
<1>5. CASE EnterAtomic
  <2>1. g.gcstate = "enteratomic" /\ IncStep(EnterSweep(Atomic(g)))
    BY <1>5 DEF EnterAtomic
  <2>2. Cycle(Atomic(g))
    BY <1>2, <2>1, AtomicCycle DEF CycleTo
  <2>3. CycleTo(Atomic(g), EnterSweep(Atomic(g)), "swpallgc")
    BY <2>2, LeaveAtomicIs
  <2> QED
    BY <2>1, <2>3, IncStepHeld DEF CycleTo
<1>6. CASE SweepAllGC
  <2>1. g.gcstate = "swpallgc" /\ IncStep(SweepStep(g, "swpfinobj", "finobj", FALSE))
    BY <1>6 DEF SweepAllGC
  <2>2. LET t == SweepStep(g, "swpfinobj", "finobj", FALSE) IN Cycle(t) /\ t.gcstate # "atomic"
    BY <1>2, <2>1, SweepStepIs
  <2> QED
    BY <2>1, <2>2, IncStepHeld
<1>7. CASE SweepFinObj
  <2>1. g.gcstate = "swpfinobj" /\ IncStep(SweepStep(g, "swptobefnz", "tobefnz", FALSE))
    BY <1>7 DEF SweepFinObj
  <2>2. LET t == SweepStep(g, "swptobefnz", "tobefnz", FALSE) IN Cycle(t) /\ t.gcstate # "atomic"
    BY <1>2, <2>1, SweepStepIs
  <2> QED
    BY <2>1, <2>2, IncStepHeld
<1>8. CASE SweepToBeFnz
  <2>1. g.gcstate = "swptobefnz" /\ IncStep(SweepStep(g, "swpend", "none", FALSE))
    BY <1>8 DEF SweepToBeFnz
  <2>2. LET t == SweepStep(g, "swpend", "none", FALSE) IN Cycle(t) /\ t.gcstate # "atomic"
    BY <1>2, <2>1, SweepStepIs
  <2> QED
    BY <2>1, <2>2, IncStepHeld
<1>9. CASE SweepEnd
  <2> DEFINE t == [g EXCEPT !.gcstate = "callfin"]
  <2>1. g.gcstate = "swpend" /\ IncStep(t)
    BY <1>9 DEF SweepEnd
  <2>2. CycleTo(g, t, "callfin")
    BY <1>2, <2>1, NextPhaseIs DEF Phases
  <2> HIDE DEF t
  <2> QED
    BY <2>1, <2>2, IncStepHeld DEF CycleTo
<1> DEFINE p == [g EXCEPT !.gcstate = "pause"]
<1>10. g.gcstate = "callfin" => CycleTo(g, p, "pause")
  BY <1>2, NextPhaseIs DEF Phases
<1>11. CASE g.gcstate = "callfin" /\ IncStep(p)
  <2> HIDE DEF p
  <2> QED
    BY <1>10, <1>11, IncStepHeld DEF CycleTo
<1>12. CASE CallFin /\ CallFinalizers(g)
  <2> DEFINE t == GCTM(g)
             u == Idle(t)
  <2>1. g.gcstate = "callfin" /\ g.tobefnz # << >> /\ IncStep(u)
    BY <1>12 DEF CallFin, CallFinalizers, Idle
  <2>2. Cycle(t) /\ t.gcstate = "callfin" /\ t.gckind = g.gckind
    BY <1>2, <2>1, FinalizerIs
  <2> HIDE DEF t
  <2>3. t \in StateType /\ t.gckind # "genminor"
    BY <1>1, <2>2 DEF Cycle, Base
  <2>4. u \in StateType /\ Same(t, u, Switches) /\ u.gckind = t.gckind /\ u.gcstate = t.gcstate
    BY <2>3 DEF Idle, StateType, Same, Fields, Switches
  <2> HIDE DEF u
  <2>5. Cycle(u)
    BY <2>2, <2>3, <2>4, SwitchedCycle
  <2> QED
    BY <2>1, <2>2, <2>4, <2>5, IncStepHeld
<1>13. CallFin /\ ~CallFinalizers(g) => g.gcstate = "callfin" /\ IncStep(p)
  BY DEF CallFin
<1>14. SkipFinalizers => g.gcstate = "callfin" /\ IncStep(p)
  BY DEF SkipFinalizers
<1> QED
  BY <1>3, <1>4, <1>5, <1>6, <1>7, <1>8, <1>9, <1>11, <1>12, <1>13, <1>14

\* The steps of the program keep the invariant.
LEMMA ProgramStepHeld ==
  ASSUME KindOK, Held(g, task), ProgramStep,
         \A u \in Objects, v \in Objects :
           ForwardStore(u, v) /\ kind[v] \in {"upval", "bareudata"} => Joins(g, u, v)
  PROVE  Reaches(g', task)
<1>1. ProgramRuns /\ task' = task /\ kind' = kind
  BY DEF ProgramStep, NewObj, Load, Drop, CloseThread, MarkForFinalization, SetTable, SetClosure,
         SetSlot, SetUpval, SetMetatable, JoinUpvalue, SetWeak, Program
<1>2. Runs(g) /\ \A t : Stepped(g, t) => Held(t, task)
  BY <1>1, ProgramHeld
<1>3. Stepped(g, g')
  <2>1. CASE \E o \in Objects : NewObj(o)
    BY <1>2, <2>1, NewObjStepped
  <2>2. CASE \E o \in Objects : Load(o) \/ Drop(o) \/ CloseThread(o) \/ MarkForFinalization(o)
    BY <1>2, <2>2, MoveStepped
  <2>3. CASE \E o \in Objects, x \in Objects \cup {NULL} :
               SetTable(o, x) \/ SetClosure(o, x) \/ SetSlot(o, x) \/ SetUpval(o, x) \/ SetMetatable(o, x)
    <3>1. PICK o \in Objects, x \in Objects \cup {NULL} :
            SetTable(o, x) \/ SetClosure(o, x) \/ SetSlot(o, x) \/ SetUpval(o, x) \/ SetMetatable(o, x)
      BY <2>3
    <3>2. x # NULL => x \in Objects
      OBVIOUS
    <3>3. x # NULL /\ ForwardStore(o, x) /\ kind[x] \in {"upval", "bareudata"} => Joins(g, o, x)
      BY <3>2
    <3>4. CASE SetMetatable(o, x)
      BY <1>2, <3>4, MetatableStepped
    <3>5. CASE ~SetMetatable(o, x)
      BY <1>2, <3>1, <3>3, <3>5, StoreStepped
    <3> QED
      BY <3>4, <3>5
  <2>4. CASE \E o, x \in Objects : JoinUpvalue(o, x)
    BY <1>2, <2>4, StoreStepped
  <2>5. CASE \E o, k \in Objects, x \in Objects \cup {NULL} : SetWeak(o, k, x)
    BY <1>2, <2>5, WeakStepped
  <2> QED
    BY <2>1, <2>2, <2>3, <2>4, <2>5 DEF ProgramStep
<1> QED
  BY SMTT(30), <1>1, <1>2, <1>3 DEF Reaches

\* Every step keeps the invariant.
LEMMA NextHeld ==
  ASSUME KindOK, Held(g, task), Next,
         \A u \in Objects, v \in Objects :
           ForwardStore(u, v) /\ kind[v] \in {"upval", "bareudata"} => Joins(g, u, v)
  PROVE  \E t, goals : Reaches(t, goals)
<1>1. CASE ProgramStep
  BY <1>1, ProgramStepHeld
<1>2. CASE Task
  <2>1. kind' = kind
    BY <1>2 DEF Task
  <2> QED
    BY <1>2, <2>1, TaskHeld DEF Reaches
<1>3. CASE CollectorStep /\ ~Task
  BY <1>3, IncHeld DEF CollectorStep
<1> QED
  BY <1>1, <1>2, <1>3 DEF Next

(****************************************************************************)
(* The invariant of the specification                                       *)
(****************************************************************************)

(* The inductive invariant.  *)
Sound == KindOK /\ Held(g, task)

\* The invariant holds at first.
LEMMA InitSound ==
  ASSUME Init
  PROVE  Sound
<1> DEFINE s == g
<1>1. KindOK
  BY CollectorAssumption DEF Init, KindOK
<1>2. MainThread \in Objects /\ NULL \notin Objects
  BY Null
<1>3. /\ s.color = [o \in Objects |-> IF o = MainThread THEN "white" ELSE "free"]
      /\ s.age = [o \in Objects |-> "new"]
      /\ s.val = [o \in Objects |-> NULL] /\ s.key = [o \in Objects |-> NULL]
      /\ s.open = [o \in Objects |-> NULL] /\ s.stack = {} /\ s.allgc = <<MainThread>>
      /\ s.finobj = << >> /\ s.tobefnz = << >>
      /\ s.gray = {} /\ s.twups = {} /\ s.gcstate = "pause" /\ s.gckind = "inc"
      /\ s.finobjsur = NULL /\ s.finobjold1 = NULL /\ s.finobjrold = NULL
      /\ s.sweepgc = Nowhere /\ task = << >>
  BY DEF Init
<1>4. s \in StateType
  BY <1>2 DEF Init, StateType, Colors, Ages, OrNull, Proper, Phases, Nowhere
<1> HIDE DEF s
<1>5. /\ In(s.allgc) = {MainThread} /\ In(s.finobj) = {} /\ In(s.tobefnz) = {}
      /\ IsInjective(s.allgc) /\ IsInjective(s.finobj) /\ IsInjective(s.tobefnz)
  BY <1>3 DEF In, IsInjective
<1>6. InUse(s) = {MainThread} /\ Live(s) = {MainThread}
  BY <1>2, <1>3 DEF InUse, Live
<1>7. Lists(s)
  BY <1>5, <1>6 DEF Lists
<1>8. Shape(s)
  BY <1>2, <1>3 DEF Shape, ShapeOf
<1>9. Closed(s)
  <2>1. Refs(s, MainThread) = {}
    <3>1. kind[MainThread] = "thread"
      BY <1>1 DEF KindOK
    <3>2. Refs(s, MainThread) = Stack(s, MainThread) \cup OpenUpvals(s, MainThread)
      BY <1>2, <3>1, RefsThread
    <3> QED
      BY <1>2, <1>3, <3>2 DEF Stack, OpenUpvals
  <2>2. ASSUME NEW o \in Objects PROVE s.open[o] \notin Live(s)
    BY <1>2, <1>3, <1>6
  <2> QED
    BY <1>3, <1>5, <1>6, <2>1, <2>2 DEF Closed
<1>10. IncInv(s)
  <2>1. Fresh(s, InUse(s))
    BY <1>2, <1>3, <1>6 DEF Fresh
  <2> QED
    BY <1>3, <2>1 DEF IncInv, Resting, Marking, SweepStates
<1>11. Cycle(s) /\ s.gcstate # "atomic"
  BY <1>3, <1>4, <1>7, <1>8, <1>9, <1>10 DEF Cycle, Base
<1>12. Held(s, << >>)
  BY <1>11, CycleHeld
<1> QED
  BY <1>1, <1>3, <1>12 DEF Sound, s

\* The invariant of the next state, from its components.
LEMMA SoundThere ==
  ASSUME kind' = kind, NEW h, h = g', NEW q, q = task', KindOK, Held(h, q)
  PROVE  Sound'
<1>1. \A o : Refs(h, o) = (Refs(g, o))'
  BY Zenon DEF Refs, Stack, OpenUpvals, UpvalValue
<1>2. Base(h) => Base(g)'
  <2>1. Shape(h) => Shape(g)'
    BY DEF Shape, ShapeOf, InUse
  <2>2. Closed(h) => Closed(g)'
    BY <1>1 DEF Closed, Live
  <2>3. Lists(h) => Lists(g)'
    BY DEF Lists, InUse
  <2> QED
    BY <2>1, <2>2, <2>3 DEF Base
<1>3. /\ Ready(h, {}) => Ready(g, {})'
      /\ Ready(h, BlackOld1(h)) => Ready(g, BlackOld1(g))'
  <2>1. \A X, o : TraceOf(h, X, FALSE, o) => TraceOf(g, X, FALSE, o)'
    BY <1>1 DEF TraceOf, Visited, Full, Later, Pending, Marked, IsOld, IsGray, IsBlack, IsWhite
  <2>2. \A X : Trace(h, X, FALSE) => Trace(g, X, FALSE)'
    <3> TAKE X
    <3> HAVE Trace(h, X, FALSE)
    <3>1. \A o \in Objects : TraceOf(g, X, FALSE, o)'
      BY <2>1 DEF Trace
    <3>2. (\A o \in Objects : TraceOf(g, X, FALSE, o))'
      BY <3>1
    <3>3. X \subseteq Marked(g)'
      BY DEF Trace, Marked
    <3>4. g'.gray \cup Pending(g)'
            \subseteq { o \in Marked(g)' : kind'[o] \notin {"string", "upval", "bareudata"} }
      BY DEF Trace, Marked, Pending
    <3> QED
      BY <3>2, <3>3, <3>4, Zenon DEF Trace
  <2>3. \A X : Ready(h, X) => Ready(g, X)'
    BY <2>2 DEF Ready, Marked, NoDead
  <2>4. BlackOld1(h) = BlackOld1(g)'
    BY DEF BlackOld1, IsBlack
  <2> QED
    BY <2>3, <2>4
<1>4. IncInv(h) => IncInv(g)'
  <2>1. Sweeping(h) => Sweeping(g)'
    BY DEF Sweeping, Fresh, Passed, Cur, Cursor
  <2> QED
    BY <1>3, <2>1 DEF IncInv, Fresh, InUse
<1>5. GenInv(h) => GenInv(g)'
  <2>1. GenAges(h) => GenAges(g)'
    BY <1>1 DEF GenAges, AgesOf, IsOld, IsGray, Marked
  <2>2. GenLists(h) => GenLists(g)'
    BY DEF GenLists, AgedFrom
  <2> QED
    BY <1>3, <2>1, <2>2 DEF GenInv
<1>6. Goals(h, q) => Goals(g, task)'
  BY DEF Goals
<1> QED
  BY <1>2, <1>4, <1>5, <1>6 DEF Sound, KindOK, Held, Inv

\* An object never changes its kind.
LEMMA NextKeepsKind ==
  ASSUME [Next]_vars
  PROVE  kind' = kind
<1>1. CASE ProgramStep
  BY <1>1 DEF ProgramStep, NewObj, Load, Drop, CloseThread, MarkForFinalization, SetTable, SetClosure,
         SetSlot, SetUpval, SetMetatable, JoinUpvalue, SetWeak, Program
<1>2. CASE Task
  BY <1>2 DEF Task
<1>3. CASE CollectorStep
  BY <1>2, <1>3 DEF CollectorStep, Pause, Propagate, EnterAtomic, SweepAllGC, SweepFinObj, SweepToBeFnz,
                  SweepEnd, CallFin, SkipFinalizers, IncStep
<1>4. CASE UNCHANGED vars
  BY <1>4 DEF vars
<1> QED
  BY SMTT(30), <1>1, <1>3, <1>4 DEF Next

\* A marked object that gets a white upvalue, or userdata without user values, by a forward
\* barrier in generational mode gets one that is alone: it holds nothing that is white.
LEMMA StoresInBarrier ==
  ASSUME Sound, StoresInAge, NEW o \in Objects, NEW x \in Objects, ForwardStore(o, x),
         kind[x] \in {"upval", "bareudata"}
  PROVE  Joins(g, o, x)
<1> SUFFICES ASSUME g.gckind = "genminor", o \in Marked(g), IsWhite(g, x)
             PROVE  Alone(g, x)
  BY DEF Joins
<1>1. \A y \in Objects : IsOld(g, y) <=> y \in Marked(g)
  BY DEF Sound, Held, Inv, IncInv, GenInv, GenAges, AgesOf
<1>2. o \in Marked(g) /\ x \notin Marked(g)
  BY DEF Marked, IsWhite
<1>3. g.open[x] = NULL /\ (g.val[x] = NULL \/ IsOld(g, g.val[x]))
  BY <1>1, <1>2 DEF StoresInAge
<1>4. g.val[x] \in OrNull(Objects)
  BY DEF Sound, Held, Inv, Base, StateType, OrNull, Proper
<1> QED
  BY <1>1, <1>3, <1>4 DEF Alone, OrNull, Marked, IsWhite

\* Every step keeps the invariant, if the program's stores are in age.
LEMMA NextSound ==
  ASSUME Sound, [Next]_vars, StoresInAge \/ UNCHANGED vars
  PROVE  Sound'
<1>1. kind' = kind /\ KindOK /\ Held(g, task)
  BY NextKeepsKind DEF Sound
<1>2. CASE UNCHANGED vars
  <2>1. g' = g /\ task' = task
    BY <1>2 DEF vars
  <2> QED
    BY <1>1, <2>1, SoundThere
<1>3. CASE Next /\ StoresInAge
  <2>1. \A o \in Objects, x \in Objects :
          ForwardStore(o, x) /\ kind[x] \in {"upval", "bareudata"} => Joins(g, o, x)
    BY <1>3, StoresInBarrier
  <2>2. PICK t, goals : Reaches(t, goals)
    BY <1>1, <1>3, <2>1, NextHeld
  <2> QED
    BY <1>1, <2>2, SoundThere DEF Reaches
<1> QED
  BY <1>2, <1>3

\* The invariant implies the type of the state.
LEMMA SoundTypeOK ==
  ASSUME Sound
  PROVE  TypeOK
<1>1. g \in StateType /\ Lists(g) /\ Shape(g) /\ Closed(g)
  BY DEF Sound, Held, Inv, Base
<1>2. g.color \in [Objects -> Colors] /\ g.age \in [Objects -> Ages]
      /\ g.gckind \in {"inc", "genminor", "genmajor"}
  BY <1>1 DEF StateType
<1>3. \A l \in ObjectLists : IsInjective(g[l])
  BY <1>1 DEF ObjectLists, Lists
<1>4. ASSUME NEW o \in Objects
      PROVE  Cardinality({ l \in ObjectLists : o \in In(g[l]) }) = IF o \in InUse(g) THEN 1 ELSE 0
  <2> DEFINE S == { l \in ObjectLists : o \in In(g[l]) }
  <2>1. \A l : l \in S <=> l \in {"allgc", "finobj", "tobefnz"} /\ o \in In(g[l])
    BY DEF ObjectLists
  <2>2. o \in InUse(g) <=> o \in In(g.allgc) \/ o \in In(g.finobj) \/ o \in In(g.tobefnz)
    BY <1>1 DEF Lists
  <2>3. /\ ~(o \in In(g.allgc) /\ o \in In(g.finobj)) /\ ~(o \in In(g.allgc) /\ o \in In(g.tobefnz))
        /\ ~(o \in In(g.finobj) /\ o \in In(g.tobefnz))
    BY <1>1 DEF Lists
  <2> HIDE DEF S
  <2>4. CASE o \in InUse(g)
    <3>1. \E l : S = {l}
      BY <2>1, <2>2, <2>3, <2>4
    <3>2. Cardinality(S) = 1
      BY <3>1, FS_Singleton
    <3> QED
      BY <2>4, <3>2 DEF S
  <2>5. CASE o \notin InUse(g)
    <3>1. S = {}
      BY <2>1, <2>2, <2>5
    <3>2. Cardinality(S) = 0
      BY <3>1, FS_EmptySet
    <3> QED
      BY <2>5, <3>2 DEF S
  <2> QED
    BY <2>4, <2>5
<1>5. g.twups \subseteq { o \in InUse(g) : kind[o] = "thread" }
  BY <1>1 DEF Closed, Live, InUse, Shape
<1> QED
  BY <1>2, <1>3, <1>4, <1>5 DEF TypeOK, Colors

\* What is closed under references contains what is reached in it.
LEMMA ClosureWithin ==
  ASSUME NEW s, NEW S, NEW L, S \subseteq L, \A o \in L : Refs(s, o) \subseteq L
  PROVE  ClosureOf(S, LAMBDA q : Refs(s, q)) \subseteq L
<1> DEFINE Step(X) == X \cup UNION { Refs(s, o) : o \in X }
           V == SUBSET L
           N == Cardinality(Objects)
           G == [X \in V |-> Step(X)]
           Rec(f) == [n \in 0..N |-> IF n = 0 THEN S ELSE Step(f[n - 1])]
<1>0. N \in Nat
  BY Null
<1>1. S \in V
  OBVIOUS
<1>2. ASSUME NEW X \in V PROVE Step(X) \in V
  OBVIOUS
<1>3. G \in [V -> V]
  BY <1>2
<1>7. ClosureOf(S, LAMBDA q : Refs(s, q)) = (CHOOSE h : h = Rec(h))[N]
  BY Zenon DEF ClosureOf
<1>4. PICK f : TurnsOf(f, N, V, S, G)
  <2> HIDE DEF G, V
  <2> QED BY <1>0, <1>1, <1>3, Turns
<1>5. f = Rec(f)
  <2> HIDE DEF Step, V
  <2>1. f \in [0..N -> V] /\ f[0] = S /\ \A n \in 1..N : f[n] = G[f[n - 1]]
    BY <1>4 DEF TurnsOf
  <2>2. ASSUME NEW n \in 1..N PROVE f[n] = Step(f[n - 1])
    <3>1. f[n - 1] \in V
      BY <1>0, <2>1
    <3> QED BY <2>1, <3>1
  <2>3. \A n \in 0..N : f[n] = IF n = 0 THEN S ELSE Step(f[n - 1])
    BY <1>0, <2>1, <2>2
  <2> QED BY <2>1, <2>3
<1> DEFINE g0 == CHOOSE h : h = Rec(h)
<1>6. g0 = Rec(g0)
  <2> HIDE DEF Rec
  <2> QED BY <1>5, Zenon
<1>10. ClosureOf(S, LAMBDA q : Refs(s, q)) = g0[N]
  BY <1>7
<1> HIDE DEF g0, Step
<1>8. g0[0] = S /\ \A n \in 1..N : g0[n] = Step(g0[n - 1])
  BY <1>0, <1>6
<1>9. \A n \in 0..N : g0[n] \in V
  <2> HIDE DEF V
  <2>1. \A n \in 1..N : g0[n - 1] \in V => g0[n] \in V
    BY <1>2, <1>8
  <2> QED BY <1>0, <1>1, <1>8, <2>1, TurnsStay
<1>11. g0[N] \subseteq L
  BY <1>0, <1>9
<1> QED
  BY <1>10, <1>11, Zenon

\* The invariant implies that what the program reaches is in use.
LEMMA SoundReachable ==
  ASSUME Sound
  PROVE  NothingReachableFreed
<1>1. g \in StateType /\ Lists(g) /\ Shape(g) /\ Closed(g)
  BY DEF Sound, Held, Inv, Base
<1>2. Roots(g) \subseteq Live(g) /\ \A o \in Live(g) : Refs(g, o) \subseteq Live(g)
  BY <1>1 DEF Roots, Closed, Live
<1>3. ClosureOf(Roots(g), LAMBDA q : Refs(g, q)) \subseteq Live(g)
  BY <1>2, ClosureWithin
<1>4. ASSUME NEW o \in Live(g)
      PROVE  g.color[o] \notin {"free", "freed", "dead"} /\ g.open[o] \notin Objects \ InUse(g)
  <2>1. o \in Objects /\ g.color[o] \notin {"free", "freed", "dead"}
    BY DEF Live
  <2>2. g.open[o] # NULL => g.open[o] \in InUse(g)
    BY <1>1, <2>1 DEF Shape, ShapeOf
  <2> QED
    BY <2>1, <2>2, Null
<1> QED
  BY <1>3, <1>4 DEF NothingReachableFreed

\* The invariant implies what remarkupvals asserts of open upvalues.
LEMMA SoundUpvals ==
  ASSUME Sound
  PROVE  UpvaluesNoOlder
<1> SUFFICES ASSUME g.gckind = "genminor"
             PROVE  RemarkAsserts(BeforeRemark(MarkOlds(g)))
  BY DEF UpvaluesNoOlder
<1> DEFINE m == MarkOlds(g)
           a == [m EXCEPT !.gcstate = "atomic", !.grayagain = {}]
           t == BeforeRemark(m)
<1>1. KindOK /\ Base(g) /\ GenInv(g) /\ g.gcstate = "propagate"
  BY DEF Sound, Held, Inv, IncInv, GenInv
<1>2. Olds(g, m)
  BY <1>1, MarkOldsIs
<1> HIDE DEF m
<1>3. m \in StateType /\ Shape(m) /\ Trace(m, {}, FALSE) /\ m.gcstate = "propagate" /\ m.open = g.open
  BY <1>1, <1>2 DEF Olds, Base, Same, Fields
<1>4. Marks(a, t)
  BY <1>1, <1>3, BeforeRemarkTrace DEF Settled
<1>5. a \in StateType /\ a.open = g.open /\ a.age = m.age /\ a.color = m.color
  BY <1>3 DEF StateType, Phases
<1> HIDE DEF a, t
<1>6. t.open = g.open
  BY <1>4, <1>5, MarksSame
<1>7. ASSUME NEW o \in Objects
      PROVE  /\ IsWhite(t, o) => ~IsOld(g, o)
             /\ ~IsOld(g, o) => t.age[o] = g.age[o]
  <2>1. m.age[o] = (IF g.age[o] = "old1" THEN "old" ELSE g.age[o]) /\ (o \in Marked(g) => o \in Marked(m))
    BY <1>2 DEF Olds
  <2>2. IsOld(g, o) => o \in Marked(g)
    BY <1>1 DEF GenInv, GenAges, AgesOf
  <2>3. o \in Marked(m) => o \in Marked(a)
    BY <1>5 DEF Marked
  <2>4. o \in Marked(a) => o \in Marked(t)
    BY <1>4, MarksWhite
  <2>5. o \in Marked(t) => ~IsWhite(t, o)
    BY DEF Marked, IsWhite
  <2>6. t.age[o] = a.age[o] \/ a.age[o] = "touched2"
    BY <1>4 DEF Marks
  <2> QED
    BY <1>5, <2>1, <2>2, <2>3, <2>4, <2>5, <2>6 DEF IsOld
<1>8. ASSUME NEW th \in t.twups, IsWhite(t, th), NEW u \in OpenUpvals(t, th)
      PROVE  ~IsOld(t, th) /\ Rank[t.age[u]] <= Rank[t.age[th]]
  <2>1. th \in Objects /\ u \in Objects /\ g.open[u] = th
    <3>1. t \in StateType
      BY <1>4 DEF Marks
    <3> QED
      BY <1>6, <3>1 DEF StateType, OpenUpvals
  <2>2. ~IsOld(g, th) /\ t.age[th] = g.age[th]
    BY <1>7, <1>8, <2>1
  <2>3. AgesOf(g, u) /\ g.open[u] # NULL
    BY <1>1, <2>1, Null DEF GenInv, GenAges
  <2>4. ~IsOld(g, u) /\ (g.age[u] # "new" => g.age[th] # "new")
    BY <2>1, <2>2, <2>3 DEF AgesOf
  <2>5. t.age[u] = g.age[u]
    BY <1>7, <2>1, <2>4
  <2>6. g.age[u] \in {"new", "survival"} /\ g.age[th] \in {"new", "survival"}
    BY <2>2, <2>4 DEF IsOld
  <2>7. Rank["new"] = 0 /\ Rank["survival"] = 1
    BY DEF Rank
  <2> QED
    BY <2>2, <2>4, <2>5, <2>6, <2>7 DEF IsOld
<1> QED
  BY <1>8 DEF RemarkAsserts, t, m

\* The invariant holds in every behavior whose stores are in age (StoresInAge).
LEMMA SpecSound ==
  Spec /\ [][StoresInAge]_vars => []Sound
<1>1. Init => Sound
  BY InitSound
<1>2. Sound /\ [Next]_vars /\ [StoresInAge]_vars => Sound'
  BY NextSound
<1> QED
  BY <1>1, <1>2, PTL DEF Spec

\* Every field of the collector's state (lgc.h: colors, ages, gcstate, gckind, the lists of
\* objects and the pointers into them) keeps its type in every step of the program and of the
\* collector, whatever the objects and their kinds; the forward stores of the generational
\* mode are held to StoresInAge.
THEOREM CollectorTypeOK ==
  Spec /\ [][StoresInAge]_vars => []TypeOK
<1>1. Sound => TypeOK
  BY SoundTypeOK
<1> QED
  BY <1>1, SpecSound, PTL

\* lgc.c frees no object that the program can still reach: in every behavior of the
\* specification in which no forward barrier gives an old object a young upvalue, or a young
\* userdata without user values, that holds something young (StoresInAge; lgc.c ages only the
\* one object, and loses what it holds), each object reached from the main thread, the fixed
\* objects, what waits for a finalizer and what is being finalized is on a list of objects,
\* in incremental and generational mode, in every phase, and with finalizers that run in the
\* middle of a collection.
THEOREM ReachableStays ==
  Spec /\ [][StoresInAge]_vars => []NothingReachableFreed
<1>1. Sound => NothingReachableFreed
  BY SoundReachable
<1> QED
  BY <1>1, SpecSound, PTL

\* What remarkupvals of lgc.c relies on in a minor collection: a thread that leaves twups
\* because it was not marked is not old if it has an open upvalue, and none of its open
\* upvalues is older than it is (UpvaluesNoOlder).
THEOREM RemarkAssertionsHold ==
  Spec /\ [][StoresInAge]_vars => []UpvaluesNoOlder
<1>1. Sound => UpvaluesNoOlder
  BY SoundUpvals
<1> QED
  BY <1>1, SpecSound, PTL

==============================================================================
