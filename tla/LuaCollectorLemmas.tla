------------------------- MODULE LuaCollectorLemmas -------------------------
(****************************************************************************)
(* Lemmas about the operators of the collector of lgc.c, for every set of   *)
(* objects: what the traversal of an object, marking to the end, the atomic *)
(* step, the sweep and the writes of the program do to a state.             *)
(*                                                                          *)
(* Inv is the invariant of a state. It has the structure of the heap (Base: *)
(* what an object refers to is in use) and what the colors and ages of the  *)
(* mode promise (IncInv or GenInv): while marking, what is marked is in a   *)
(* list of gray objects or has been fully visited (Ready); while sweeping,  *)
(* what is live was painted with the current white or has a color of the    *)
(* cycle that ended (Sweeping); between minor collections, the list allgc   *)
(* is divided by age and only what is touched refers to younger objects     *)
(* (GenLists, GenAges).                                                     *)
(*                                                                          *)
(* The order of the lemmas is the order of a collection.                    *)
(****************************************************************************)
EXTENDS LuaCollector, ListLemmas, FiniteSetTheorems, TLAPS

(****************************************************************************)
(* States, and what the program needs of a heap                             *)
(****************************************************************************)

Colors == {"free", "freed", "white", "dead", "gray", "black"}

Phases == {"pause", "propagate", "enteratomic", "atomic", "swpallgc", "swpfinobj",
           "swptobefnz", "swpend", "callfin"}

Proper == Objects \ {MainThread}

OrNull(S) == S \cup {NULL}

Tables == {"table", "userdata", "weakvalue", "ephemeron", "allweak"}

WeakKinds == {"weakvalue", "ephemeron", "allweak"}

\* The states of global_State, by field.
StateType ==
  [color : [Objects -> Colors], age : [Objects -> Ages],
   val : [Objects -> OrNull(Proper)], key : [Objects -> OrNull(Proper)],
   open : [Objects -> OrNull(Proper)], stack : SUBSET Proper,
   allgc : Seq(Objects), finobj : Seq(Proper), tobefnz : Seq(Proper),
   gray : SUBSET Objects, grayagain : SUBSET Objects, weak : SUBSET Objects,
   allweak : SUBSET Objects, ephemeron : SUBSET Objects, twups : SUBSET Objects,
   survival : OrNull(Objects), old1 : OrNull(Objects), reallyold : OrNull(Objects),
   firstold1 : OrNull(Objects), finobjsur : OrNull(Objects),
   finobjold1 : OrNull(Objects), finobjrold : OrNull(Objects),
   gcstate : Phases, gckind : {"inc", "genminor", "genmajor"},
   sweepgc : [list : ObjectLists \cup {"none"}, after : OrNull(Objects)],
   emergency : BOOLEAN, infin : BOOLEAN]

Fields == {"color", "age", "val", "key", "open", "stack", "allgc", "finobj", "tobefnz",
           "gray", "grayagain", "weak", "allweak", "ephemeron", "twups", "survival",
           "old1", "reallyold", "firstold1", "finobjsur", "finobjold1", "finobjrold",
           "gcstate", "gckind", "sweepgc", "emergency", "infin"}

\* t differs from s in the fields F at most.
Same(s, t, F) == \A f \in Fields \ F : s[f] = t[f]

\* What CollectorAssumption says of the kinds.
KindOK == kind \in [Objects -> Kinds] /\ kind[MainThread] = "thread"

\* The objects that are gray or black.
Marked(s) == { o \in Objects : s.color[o] \in {"gray", "black"} }

White(s) == { o \in Objects : IsWhite(s, o) }

\* The objects in use that no sweep will free.
Live(s) == { o \in Objects : s.color[o] \in {"white", "gray", "black"} }

\* What CollectorAssumption says of the objects.
LEMMA Null == NULL \notin Objects /\ MainThread \in Objects /\ IsFiniteSet(Objects)
              /\ Cardinality(Objects) \in Nat
<1>1. IsFiniteSet(Objects) /\ NULL \notin Objects /\ MainThread \in Objects
  BY CollectorAssumption
<1> QED BY <1>1, FS_CardinalityType

\* The references of a thread: its stack and its open upvalues.
LEMMA RefsThread ==
  ASSUME NEW s, NEW o \in Objects, kind[o] = "thread"
  PROVE  Refs(s, o) = Stack(s, o) \cup OpenUpvals(s, o)
  BY DEF Refs

\* The reference of an upvalue.
LEMMA RefsUpval ==
  ASSUME NEW s, NEW o \in Objects, kind[o] = "upval"
  PROVE  Refs(s, o) = {UpvalValue(s, o)} \ {NULL}
  BY DEF Refs

\* The references of an object that is neither a thread nor an upvalue.
LEMMA RefsOther ==
  ASSUME NEW s, NEW o \in Objects, kind[o] # "upval", kind[o] # "thread"
  PROVE  Refs(s, o) = {s.val[o], s.key[o]} \ {NULL}
  BY DEF Refs

\* What the operations of the program keep of an object o: which kinds hold references, and
\* to what.
ShapeOf(s, o) ==
  /\ s.key[o] # NULL => kind[o] \in WeakKinds /\ kind[s.key[o]] # "upval"
  /\ s.val[o] # NULL => kind[o] # "string" /\ (kind[s.val[o]] = "upval" => kind[o] = "closure")
  /\ s.open[o] # NULL => /\ kind[o] = "upval" /\ kind[s.open[o]] = "thread"
                         /\ s.color[o] # "black"
                         /\ {o, s.open[o]} \subseteq InUse(s)
  /\ kind[o] = "bareudata" /\ s.val[o] # NULL => kind[s.val[o]] \in TableKinds
  /\ o \notin InUse(s) => s.age[o] = "new" /\ s.val[o] = NULL /\ s.key[o] = NULL

Shape(s) ==
  /\ \A o \in Objects : ShapeOf(s, o)
  /\ \A u, w \in Objects : s.open[u] # NULL /\ s.open[u] = s.open[w] => u = w
  /\ \A th \in s.twups : kind[th] = "thread"

\* References are objects, and no upvalue holds the main thread.
LEMMA RefsType ==
  ASSUME NEW s \in StateType, NEW o \in Objects
  PROVE  Refs(s, o) \subseteq Objects /\ UpvalValue(s, o) \in OrNull(Proper)
<1>1. UpvalValue(s, o) \in OrNull(Proper)
  BY Null DEF UpvalValue, StateType, OrNull, Proper
<1>2. CASE kind[o] = "thread"
  BY <1>1, <1>2, RefsThread, Null DEF StateType, OrNull, Proper, Stack, OpenUpvals
<1>3. CASE kind[o] = "upval"
  BY <1>1, <1>3, RefsUpval, Null DEF OrNull, Proper
<1>4. CASE kind[o] # "thread" /\ kind[o] # "upval"
  BY <1>1, <1>4, RefsOther, Null DEF StateType, OrNull, Proper
<1> QED BY <1>2, <1>3, <1>4

\* S, and what is white and held by the objects of kind k in it.
HeldBy(s, S, k) ==
  S \cup { v \in Objects : IsWhite(s, v)
                           /\ \E u \in S : kind[u] = k /\ v = UpvalValue(s, u) }

\* What marking S colours: the values of its upvalues, and the metatables of userdata without
\* user values, too.
Struck(s, S) == HeldBy(s, HeldBy(s, S, "upval"), "bareudata")

Done(s, o) == kind[o] \in {"string", "bareudata"} \/ (kind[o] = "upval" /\ s.open[o] = NULL)

\* The objects held, as a subset of the objects.
LEMMA HeldIs ==
  ASSUME NEW s \in StateType, NEW S \in SUBSET Objects, NEW k
  PROVE  WithHeld(s, S, k) = HeldBy(s, S, k) /\ HeldBy(s, S, k) \in SUBSET Objects
<1>1. { UpvalValue(s, u) : u \in { x \in S : kind[x] = k } } \ {NULL} \subseteq Objects
  BY RefsType DEF OrNull, Proper
<1> QED BY <1>1, Null DEF WithHeld, HeldBy

(* Marking by its two fields, whatever the state.  *)
Struck0(q, S) == WithHeld(q, WithHeld(q, S, "upval"), "bareudata")

Painted(q, S) == [o \in Objects |-> IF o \notin Struck0(q, S) THEN q.color[o]
                                    ELSE IF Done(q, o) THEN "black" ELSE "gray"]

Greyed(q, S) == q.gray \cup { o \in Struck0(q, S) : kind[o] \notin {"string", "upval", "bareudata"} }

\* Marking changes two fields.
LEMMA ReallyMarkFields ==
  ASSUME NEW q, NEW S
  PROVE  ReallyMark(q, S) = [q EXCEPT !.color = Painted(q, S), !.gray = Greyed(q, S)]
  BY Zenon DEF ReallyMark, Painted, Greyed, Struck0, Done

\* Do a and s hold the same in the upvalues and userdata of S?
AlikeIn(a, s, S) ==
  \A u \in S : kind[u] \in {"upval", "bareudata"} =>
    /\ UpvalValue(a, u) = UpvalValue(s, u)
    /\ UpvalValue(s, u) # NULL => (IsWhite(a, UpvalValue(s, u)) <=> IsWhite(s, UpvalValue(s, u)))

\* It looks at nothing else than whiteness and what the upvalues and userdata hold.
LEMMA ReallyMarkAlike ==
  ASSUME NEW a, NEW s, NEW S, AlikeIn(a, s, WithHeld(s, S, "upval"))
  PROVE  /\ Struck0(a, S) = Struck0(s, S)
         /\ a.gray = s.gray => Greyed(a, S) = Greyed(s, S)
         /\ a.gray = s.gray /\ a.color = s.color /\ a.open = s.open => Painted(a, S) = Painted(s, S)
<1>1. ASSUME NEW W, NEW k \in {"upval", "bareudata"}, AlikeIn(a, s, W)
      PROVE  WithHeld(a, W, k) = WithHeld(s, W, k)
  <2> DEFINE V(q) == { UpvalValue(q, u) : u \in { x \in W : kind[x] = k } }
  <2>1. V(a) = V(s)
    BY <1>1 DEF AlikeIn
  <2>2. \A q : WithHeld(q, W, k) = W \cup { v \in V(q) \ {NULL} : IsWhite(q, v) }
    BY Zenon DEF WithHeld
  <2>3. \A v \in V(s) \ {NULL} : IsWhite(a, v) <=> IsWhite(s, v)
    BY <1>1 DEF AlikeIn
  <2> HIDE DEF V
  <2> QED BY <2>1, <2>2, <2>3
<1>2. S \subseteq WithHeld(s, S, "upval")
  BY DEF WithHeld
<1>3. AlikeIn(a, s, S)
  BY <1>2 DEF AlikeIn
<1>4. WithHeld(a, S, "upval") = WithHeld(s, S, "upval")
  BY <1>1, <1>3
<1>5. Struck0(a, S) = Struck0(s, S)
  BY <1>1, <1>4 DEF Struck0
<1>6. a.open = s.open => \A o : Done(a, o) <=> Done(s, o)
  BY DEF Done
<1> QED BY <1>5, <1>6 DEF Painted, Greyed

\* What ReallyMark changes: the colour of what is struck, and the gray list.
LEMMA ReallyMarkIs ==
  ASSUME NEW s \in StateType, NEW S \in SUBSET Objects
  PROVE  LET t == ReallyMark(s, S)
         IN  /\ t \in StateType /\ Same(s, t, {"color", "gray"})
             /\ t.gray = s.gray \cup { o \in Struck(s, S) : kind[o] \notin {"string", "upval", "bareudata"} }
             /\ t.color = [o \in Objects |->
                             IF o \notin Struck(s, S) THEN s.color[o]
                             ELSE IF Done(s, o) THEN "black" ELSE "gray"]
<1> DEFINE marked == WithHeld(s, WithHeld(s, S, "upval"), "bareudata")
           C == [o \in Objects |-> IF o \notin Struck(s, S) THEN s.color[o]
                                   ELSE IF Done(s, o) THEN "black" ELSE "gray"]
           G == s.gray \cup { o \in Struck(s, S) : kind[o] \notin {"string", "upval", "bareudata"} }
<1>1. WithHeld(s, S, "upval") = HeldBy(s, S, "upval") /\ HeldBy(s, S, "upval") \in SUBSET Objects
  BY HeldIs
<1>2. marked = Struck(s, S) /\ Struck(s, S) \in SUBSET Objects
  BY <1>1, HeldIs DEF Struck
<1>3. ReallyMark(s, S) = [s EXCEPT !.color = C, !.gray = G]
  BY <1>2 DEF ReallyMark, Done
<1>4. C \in [Objects -> Colors] /\ G \in SUBSET Objects
  BY <1>2 DEF StateType, Colors
<1> HIDE DEF C, G
<1>5. [s EXCEPT !.color = C, !.gray = G] \in StateType
  BY <1>4 DEF StateType
<1>6. Same(s, [s EXCEPT !.color = C, !.gray = G], {"color", "gray"})
  BY DEF StateType, Same, Fields
<1>7. [s EXCEPT !.color = C, !.gray = G].color = C /\ [s EXCEPT !.color = C, !.gray = G].gray = G
  BY DEF StateType
<1> QED BY <1>3, <1>5, <1>6, <1>7 DEF C, G

Free == {"free", "freed"}

MarkLists == {"gray", "grayagain", "weak", "allweak", "ephemeron"}

Changes == {"color", "age", "val", "key", "twups"} \cup MarkLists

\* t is s with more marked, as the traversals do it.
Marks(s, t) ==
  /\ t \in StateType /\ Same(s, t, Changes)
  /\ \A o \in Objects :
       /\ \/ t.color[o] = s.color[o]
          \/ s.color[o] \notin Free /\ t.color[o] \in {"gray", "black"}
       /\ t.age[o] = s.age[o] \/ (s.age[o] = "touched2" /\ t.age[o] = "old")
       /\ \/ t.val[o] = s.val[o] /\ t.key[o] = s.key[o]
          \/ t.val[o] = NULL /\ t.key[o] = NULL /\ kind[o] \in WeakKinds

\* Marking leaves the lists, the stack and the state of the cycle alone.
LEMMA MarksSame ==
  ASSUME NEW s, NEW t, Marks(s, t)
  PROVE  /\ t.open = s.open /\ t.stack = s.stack /\ t.gcstate = s.gcstate
         /\ t.allgc = s.allgc /\ t.finobj = s.finobj /\ t.tobefnz = s.tobefnz
         /\ t.gckind = s.gckind /\ t.sweepgc = s.sweepgc /\ t.infin = s.infin
  BY DEF Marks, Same, Fields, Changes, MarkLists

\* Marking nothing is a marking.
LEMMA MarksRefl == ASSUME NEW s \in StateType PROVE Marks(s, s)
  BY DEF Marks, Same

\* Markings compose.
LEMMA MarksTrans ==
  ASSUME NEW s, NEW t, NEW u, Marks(s, t), Marks(t, u)
  PROVE  Marks(s, u)
<1>1. Same(s, u, Changes)
  BY DEF Marks, Same
<1>2. ASSUME NEW o \in Objects
      PROVE  /\ \/ u.color[o] = s.color[o]
                \/ s.color[o] \notin Free /\ u.color[o] \in {"gray", "black"}
             /\ u.age[o] = s.age[o] \/ (s.age[o] = "touched2" /\ u.age[o] = "old")
             /\ \/ u.val[o] = s.val[o] /\ u.key[o] = s.key[o]
                \/ u.val[o] = NULL /\ u.key[o] = NULL /\ kind[o] \in WeakKinds
  BY <1>2 DEF Marks, Free
<1> QED BY <1>1, <1>2 DEF Marks

\* Marking adds no reference: it can only clear an entry of a weak table.
LEMMA MarksRefs ==
  ASSUME NEW s \in StateType, NEW t, Marks(s, t), KindOK, Shape(s), NEW o \in Objects
  PROVE  Refs(t, o) \subseteq Refs(s, o)
<1>1. CASE kind[o] = "thread"
  <2>1. t.val[o] = s.val[o] /\ t.stack = s.stack /\ t.open = s.open
    BY <1>1, MarksSame DEF Marks, WeakKinds
  <2> QED BY <1>1, <2>1, RefsThread DEF Stack, OpenUpvals
<1>2. CASE kind[o] = "upval"
  <2>1. t.open = s.open /\ t.val[o] = s.val[o]
    BY <1>2, MarksSame DEF Marks, WeakKinds
  <2>2. CASE s.open[o] = NULL
    BY <1>2, <2>1, <2>2, RefsUpval DEF UpvalValue
  <2>3. CASE s.open[o] # NULL
    <3>1. s.open[o] \in Objects /\ kind[s.open[o]] = "thread"
      BY <2>3 DEF Shape, ShapeOf, StateType, OrNull, Proper
    <3>2. t.val[s.open[o]] = s.val[s.open[o]]
      BY <3>1 DEF Marks, WeakKinds
    <3> QED BY <1>2, <2>1, <2>3, <3>2, RefsUpval DEF UpvalValue
  <2> QED BY <2>2, <2>3
<1>3. CASE kind[o] # "thread" /\ kind[o] # "upval"
  <2>1. Refs(t, o) = {t.val[o], t.key[o]} \ {NULL} /\ Refs(s, o) = {s.val[o], s.key[o]} \ {NULL}
    BY <1>3, RefsOther
  <2> QED BY <2>1 DEF Marks
<1> QED BY <1>1, <1>2, <1>3

\* Marking makes no object white and frees none.
LEMMA MarksWhite ==
  ASSUME NEW s, NEW t, Marks(s, t), NEW o \in Objects
  PROVE  /\ IsWhite(t, o) => IsWhite(s, o) /\ t.color[o] = s.color[o]
         /\ o \in Marked(s) => o \in Marked(t)
         /\ o \in InUse(t) <=> o \in InUse(s)
  BY DEF Marks, IsWhite, Marked, InUse, Free

\* An object in use is marked or white, never both.
LEMMA MarkedWhite ==
  ASSUME NEW s \in StateType, NEW o \in Objects
  PROVE  /\ o \in Marked(s) => ~IsWhite(s, o) /\ o \in InUse(s)
         /\ o \in InUse(s) => o \in Marked(s) \/ IsWhite(s, o)
         /\ IsWhite(s, o) => o \in InUse(s)
  BY DEF Marked, IsWhite, InUse, StateType, Colors

\* Marking keeps the shape, as long as no open upvalue is made black.
LEMMA MarksShape ==
  ASSUME NEW s \in StateType, NEW t, Marks(s, t), Shape(s), \A th \in t.twups : kind[th] = "thread",
         \A u \in Objects : s.open[u] # NULL => t.color[u] # "black"
  PROVE  Shape(t)
<1>1. ASSUME NEW o \in Objects PROVE ShapeOf(t, o)
  <2>1. ShapeOf(s, o) /\ t.open = s.open
    BY MarksSame DEF Shape
  <2>2. InUse(s) = InUse(t)
    BY MarksWhite DEF InUse
  <2>3. t.age[o] = s.age[o] \/ s.age[o] = "touched2"
    BY DEF Marks
  <2>4. \/ t.val[o] = s.val[o] /\ t.key[o] = s.key[o]
        \/ t.val[o] = NULL /\ t.key[o] = NULL
    BY DEF Marks
  <2> QED BY <2>1, <2>2, <2>3, <2>4 DEF ShapeOf
<1> QED BY <1>1, MarksSame DEF Shape

\* o refers to no white object.
Full(s, o) == \A x \in Refs(s, o) : ~IsWhite(s, x)

\* What a traversal of o has done, or is left to the end of the atomic phase.
Visited(s, o, remarked) ==
  \/ Full(s, o)
  \/ s.open[o] # NULL /\ (remarked => ~IsWhite(s, s.open[o]))
  \/ kind[o] = "weakvalue" /\ o \in s.weak /\ (s.key[o] # NULL => ~IsWhite(s, s.key[o]))
  \/ kind[o] = "ephemeron" /\ o \in s.ephemeron
  \/ kind[o] = "ephemeron" /\ o \in s.allweak /\ (s.val[o] # NULL => ~IsWhite(s, s.val[o]))
  \/ kind[o] = "allweak" /\ o \in s.allweak

Pending(s) == s.grayagain \cup s.weak \cup s.allweak \cup s.ephemeron

\* Between the steps of the propagation the objects in grayagain wait for the atomic phase.
Later(s) == IF s.gcstate = "atomic" THEN {} ELSE s.grayagain

\* The tricolour invariant at o: marked objects have been visited or wait to be, in the gray
\* list, in X or in a list of the atomic phase; a thread with open upvalues is in twups.
TraceOf(s, X, r, o) ==
  /\ o \in Marked(s) => o \in s.gray \cup X \cup Later(s) \/ Visited(s, o, r)
  /\ IsGray(s, o) => s.open[o] # NULL \/ o \in s.gray \cup X \cup Pending(s)
  /\ s.age[o] \in {"touched1", "touched2"} =>
       kind[o] \in Tables /\ o \in s.gray \cup X \cup Pending(s)
  /\ o \in Marked(s) /\ kind[o] = "thread" =>
       \/ o \in s.gray \cup X
       \/ o \in s.grayagain
       \/ ~IsOld(s, o) /\ s.gcstate = "atomic" /\ IsBlack(s, o)
  /\ s.open[o] # NULL =>
       \/ s.open[o] \in s.twups
       \/ r /\ (IsWhite(s, s.open[o]) \/ s.open[o] \in s.gray \cup X)

Trace(s, X, r) ==
  /\ X \subseteq Marked(s)
  /\ s.gray \cup Pending(s)
       \subseteq { o \in Marked(s) : kind[o] \notin {"string", "upval", "bareudata"} }
  /\ s.weak \cup s.allweak \subseteq { o \in Objects : kind[o] \in WeakKinds }
  /\ s.ephemeron \subseteq { o \in Objects : kind[o] = "ephemeron" }
  /\ r => s.twups \subseteq Marked(s)
  /\ r => s.gcstate = "atomic"
  /\ \A o \in Objects : TraceOf(s, X, r, o)

\* What has been visited stays visited when more is marked.
LEMMA MarksVisited ==
  ASSUME NEW s \in StateType, NEW t, Marks(s, t), KindOK, Shape(s), NEW o \in Objects, NEW r,
         s.weak \subseteq t.weak, s.allweak \subseteq t.allweak, s.ephemeron \subseteq t.ephemeron
  PROVE  /\ Full(s, o) => Full(t, o)
         /\ Visited(s, o, r) => Visited(t, o, r)
<1>1. Full(s, o) => Full(t, o)
  BY MarksRefs, RefsType, MarksWhite DEF Full
<1>2. t.open = s.open
  BY MarksSame
<1>3. s.open[o] # NULL => (IsWhite(t, s.open[o]) => IsWhite(s, s.open[o]))
  BY MarksWhite DEF StateType, OrNull, Proper
<1>4. t.key[o] # NULL => t.key[o] = s.key[o] /\ (IsWhite(t, t.key[o]) => IsWhite(s, t.key[o]))
  <2>1. s.key[o] \in OrNull(Proper) /\ (t.key[o] = s.key[o] \/ t.key[o] = NULL)
    BY DEF Marks, StateType
  <2> QED BY <2>1, MarksWhite DEF OrNull, Proper
<1>5. t.val[o] # NULL => t.val[o] = s.val[o] /\ (IsWhite(t, t.val[o]) => IsWhite(s, t.val[o]))
  <2>1. s.val[o] \in OrNull(Proper) /\ (t.val[o] = s.val[o] \/ t.val[o] = NULL)
    BY DEF Marks, StateType
  <2> QED BY <2>1, MarksWhite DEF OrNull, Proper
<1> QED BY <1>1, <1>2, <1>3, <1>4, <1>5 DEF Visited

\* The trace of an object that a marking left as it was.
LEMMA TraceOther ==
  ASSUME NEW s \in StateType, NEW t, Marks(s, t), KindOK, Shape(s), NEW o \in Objects, NEW r,
         NEW X, NEW Y, s.gray \cup X \subseteq t.gray \cup Y, TraceOf(s, X, r, o),
         s.grayagain \subseteq t.grayagain, s.weak \subseteq t.weak,
         s.allweak \subseteq t.allweak, s.ephemeron \subseteq t.ephemeron,
         s.twups \subseteq t.twups, t.color[o] = s.color[o], t.age[o] = s.age[o],
         \A x \in Objects : kind[x] = "thread" /\ IsWhite(s, x) /\ ~IsWhite(t, x)
                            => x \in t.gray \cup Y
  PROVE  TraceOf(t, Y, r, o)
<1>1. t.open = s.open /\ t.gcstate = s.gcstate
  BY MarksSame
<1>2. Visited(s, o, r) => Visited(t, o, r)
  BY MarksVisited
<1>3. /\ o \in Marked(t) <=> o \in Marked(s)
      /\ IsGray(t, o) <=> IsGray(s, o)
      /\ IsBlack(t, o) <=> IsBlack(s, o)
      /\ IsOld(t, o) <=> IsOld(s, o)
  BY DEF Marked, IsGray, IsBlack, IsOld
<1>4. s.open[o] # NULL => s.open[o] \in Objects /\ kind[s.open[o]] = "thread"
  BY DEF Shape, ShapeOf, StateType, OrNull, Proper
<1>5. Later(s) \subseteq Later(t) /\ Pending(s) \subseteq Pending(t)
  BY <1>1 DEF Later, Pending
<1> QED BY <1>1, <1>2, <1>3, <1>4, <1>5 DEF TraceOf

\* The value of an upvalue is no upvalue.
LEMMA ValueKind ==
  ASSUME NEW s \in StateType, Shape(s), NEW u \in Objects, kind[u] = "upval",
         UpvalValue(s, u) # NULL
  PROVE  kind[UpvalValue(s, u)] # "upval" /\ UpvalValue(s, u) \in Objects
<1>1. CASE s.open[u] = NULL
  BY <1>1 DEF UpvalValue, Shape, ShapeOf, StateType, OrNull, Proper
<1>2. CASE s.open[u] # NULL
  <2>1. s.open[u] \in Objects /\ kind[s.open[u]] = "thread"
    BY <1>2 DEF Shape, ShapeOf, StateType, OrNull, Proper
  <2> QED BY <1>2, <2>1 DEF UpvalValue, Shape, ShapeOf, StateType, OrNull, Proper
<1> QED BY <1>1, <1>2

\* What marking S colours: besides S only white objects, and with an upvalue or a userdata
\* what it holds.
LEMMA StruckIs ==
  ASSUME NEW s \in StateType, KindOK, Shape(s), NEW S \in SUBSET Objects
  PROVE  /\ S \subseteq Struck(s, S) /\ Struck(s, S) \in SUBSET Objects
         /\ \A o \in Struck(s, S) : o \in S \/ IsWhite(s, o)
         /\ \A o \in Struck(s, S) : kind[o] = "upval" => o \in S
         /\ \A o \in Struck(s, S) : kind[o] \in {"upval", "bareudata"} /\ UpvalValue(s, o) # NULL
               => UpvalValue(s, o) \in Struck(s, S) \/ ~IsWhite(s, UpvalValue(s, o))
<1> DEFINE H == HeldBy(s, S, "upval")
<1>1. S \subseteq H /\ H \in SUBSET Objects /\ \A o \in H : o \in S \/ IsWhite(s, o)
  BY DEF HeldBy
<1>2. ASSUME NEW o \in H, kind[o] = "upval" PROVE o \in S
  <2>1. CASE o \notin S
    <3>1. PICK u \in S : kind[u] = "upval" /\ o = UpvalValue(s, u)
      BY <2>1 DEF HeldBy
    <3>2. o \in Objects /\ o # NULL
      BY <1>1, Null
    <3> QED BY <1>2, <3>1, <3>2, ValueKind
  <2> QED BY <2>1
<1>3. ASSUME NEW o \in S, kind[o] = "upval", UpvalValue(s, o) # NULL, IsWhite(s, UpvalValue(s, o))
      PROVE  UpvalValue(s, o) \in H
  <2>1. UpvalValue(s, o) \in Objects
    BY <1>3, RefsType DEF OrNull, Proper
  <2> QED BY <1>3, <2>1 DEF HeldBy
<1> HIDE DEF H
<1>4. Struck(s, S) = H \cup { v \in Objects : IsWhite(s, v)
                              /\ \E u \in H : kind[u] = "bareudata" /\ v = UpvalValue(s, u) }
  BY DEF Struck, HeldBy, H
<1>5. ASSUME NEW o \in Struck(s, S), o \notin H
      PROVE  IsWhite(s, o) /\ kind[o] \in TableKinds
  <2>1. IsWhite(s, o) /\ o \in Objects
    BY <1>4, <1>5
  <2>2. PICK u \in H : kind[u] = "bareudata" /\ o = UpvalValue(s, u)
    BY <1>4, <1>5
  <2>3. u \in Objects /\ o # NULL
    BY <1>1, <2>1, Null
  <2>4. s.open[u] = NULL /\ o = s.val[u]
    BY <2>2, <2>3 DEF UpvalValue, Shape, ShapeOf
  <2> QED BY <2>1, <2>2, <2>3, <2>4 DEF Shape, ShapeOf
<1>6. ASSUME NEW o \in Struck(s, S), kind[o] \in {"upval", "bareudata"}, UpvalValue(s, o) # NULL,
             IsWhite(s, UpvalValue(s, o))
      PROVE  UpvalValue(s, o) \in Struck(s, S)
  <2>1. o \in H
    BY <1>5, <1>6 DEF TableKinds
  <2>2. o \in Objects
    BY <1>1, <2>1
  <2>3. UpvalValue(s, o) \in Objects
    BY <1>6, <2>2, RefsType DEF OrNull, Proper
  <2>4. CASE kind[o] = "upval"
    BY <1>2, <1>3, <1>4, <1>6, <2>1, <2>4
  <2>5. CASE kind[o] = "bareudata"
    BY <1>4, <1>6, <2>1, <2>3, <2>5
  <2> QED BY <1>6, <2>4, <2>5
<1>7. \A o \in Struck(s, S) : kind[o] = "upval" => o \in S
  BY <1>2, <1>5 DEF TableKinds
<1> QED BY <1>1, <1>4, <1>5, <1>6, <1>7

\* ReallyMark is a marking, and marks exactly what is struck.
LEMMA ReallyMarkMarks ==
  ASSUME NEW s \in StateType, KindOK, Shape(s), NEW S \in SUBSET InUse(s)
  PROVE  LET t == ReallyMark(s, S)
         IN  /\ Marks(s, t) /\ Shape(t)
             /\ Marked(t) = Marked(s) \cup Struck(s, S)
             /\ Same(s, t, {"color", "gray"})
             /\ \A o \in Objects : o \notin Struck(s, S) => t.color[o] = s.color[o]
             /\ t.gray = s.gray \cup { o \in Struck(s, S) : kind[o] \notin {"string", "upval", "bareudata"} }
<1> DEFINE t == ReallyMark(s, S)
<1>1. S \in SUBSET Objects
  BY DEF InUse
<1>2. /\ t \in StateType /\ Same(s, t, {"color", "gray"})
      /\ t.gray = s.gray \cup { o \in Struck(s, S) : kind[o] \notin {"string", "upval", "bareudata"} }
      /\ t.color = [o \in Objects |->
                      IF o \notin Struck(s, S) THEN s.color[o]
                      ELSE IF Done(s, o) THEN "black" ELSE "gray"]
  BY <1>1, ReallyMarkIs
<1> HIDE DEF t
<1>3. Struck(s, S) \subseteq InUse(s)
  BY <1>1, StruckIs, MarkedWhite
<1>4. /\ t.age = s.age /\ t.val = s.val /\ t.key = s.key /\ t.twups = s.twups
      /\ Same(s, t, Changes)
  BY <1>2 DEF Same, Fields, Changes, MarkLists
<1>5. Marks(s, t)
  BY <1>2, <1>3, <1>4 DEF Marks, InUse, Free
<1>6. Marked(t) = Marked(s) \cup Struck(s, S)
  BY <1>2, <1>3 DEF Marked, InUse
<1>7. ASSUME NEW u \in Objects, s.open[u] # NULL PROVE t.color[u] # "black"
  BY <1>2, <1>7 DEF Done, Shape, ShapeOf
<1>8. Shape(t)
  BY <1>4, <1>5, <1>7, MarksShape DEF Shape
<1> QED BY <1>2, <1>5, <1>6, <1>8 DEF t

\* ReallyMark keeps the trace: what it marks is gray, or holds nothing more to visit.
LEMMA ReallyMarkTrace ==
  ASSUME NEW s \in StateType, KindOK, Shape(s), NEW S \in SUBSET InUse(s), NEW X, NEW r,
         Trace(s, X, r)
  PROVE  Trace(ReallyMark(s, S), X, r)
<1> DEFINE t == ReallyMark(s, S)
<1>1. S \in SUBSET Objects
  BY DEF InUse
<1>2. /\ t \in StateType /\ Same(s, t, {"color", "gray"})
      /\ t.gray = s.gray \cup { o \in Struck(s, S) : kind[o] \notin {"string", "upval", "bareudata"} }
      /\ t.color = [o \in Objects |->
                      IF o \notin Struck(s, S) THEN s.color[o]
                      ELSE IF Done(s, o) THEN "black" ELSE "gray"]
  BY <1>1, ReallyMarkIs
<1>3. Marks(s, t) /\ Marked(t) = Marked(s) \cup Struck(s, S)
  BY ReallyMarkMarks
<1> HIDE DEF t
<1>4. /\ t.age = s.age /\ t.val = s.val /\ t.key = s.key /\ t.open = s.open
      /\ t.twups = s.twups /\ t.gcstate = s.gcstate /\ t.grayagain = s.grayagain
      /\ t.weak = s.weak /\ t.allweak = s.allweak /\ t.ephemeron = s.ephemeron
      /\ t.stack = s.stack
  BY <1>2 DEF Same, Fields
<1>5. \A x \in Objects : kind[x] = "thread" /\ IsWhite(s, x) /\ ~IsWhite(t, x) => x \in t.gray
  BY <1>2 DEF IsWhite
<1>6. ASSUME NEW o \in Objects PROVE TraceOf(t, X, r, o)
  <2>0. TraceOf(s, X, r, o)
    BY DEF Trace
  <2>1. CASE o \notin Struck(s, S)
    <3>1. t.color[o] = s.color[o]
      BY <1>2, <2>1
    <3> QED BY <1>2, <1>3, <1>4, <1>5, <2>0, <3>1, TraceOther
  <2>2. CASE o \in Struck(s, S) /\ kind[o] = "string"
    <3>1. Refs(t, o) = {}
      <4>1. t.val[o] = NULL /\ t.key[o] = NULL
        BY <1>4, <2>2 DEF Shape, ShapeOf, WeakKinds
      <4> QED BY <2>2, <4>1, RefsOther
    <3>2. s.open[o] = NULL /\ IsBlack(t, o)
      BY <1>2, <2>2 DEF Shape, ShapeOf, Done, IsBlack
    <3>3. s.age[o] \notin {"touched1", "touched2"}
      BY <2>0, <2>2 DEF TraceOf, Tables
    <3> QED BY <1>4, <2>2, <3>1, <3>2, <3>3 DEF TraceOf, Visited, Full, IsBlack, IsGray
  <2>3. CASE o \in Struck(s, S) /\ kind[o] = "upval"
    <3>1. UpvalValue(s, o) # NULL => UpvalValue(s, o) \in Struck(s, S) \/ ~IsWhite(s, UpvalValue(s, o))
      BY <1>1, <2>3, StruckIs
    <3>2. Full(t, o)
      <4>1. UpvalValue(t, o) = UpvalValue(s, o) /\ UpvalValue(s, o) \in OrNull(Objects)
        BY <1>4, RefsType DEF UpvalValue, OrNull, Proper
      <4>2. UpvalValue(s, o) # NULL => ~IsWhite(t, UpvalValue(s, o))
        BY <1>2, <3>1, <4>1 DEF OrNull, IsWhite
      <4> QED BY <2>3, <4>1, <4>2, RefsUpval DEF Full
    <3>3. s.age[o] \notin {"touched1", "touched2"}
      BY <2>0, <2>3 DEF TraceOf, Tables
    <3>4. IsGray(t, o) => s.open[o] # NULL
      BY <1>2, <2>3 DEF IsGray, Done
    <3>5. s.open[o] # NULL =>
            \/ s.open[o] \in t.twups
            \/ r /\ (IsWhite(t, s.open[o]) \/ s.open[o] \in t.gray \cup X)
      <4> SUFFICES ASSUME s.open[o] # NULL
                   PROVE \/ s.open[o] \in t.twups
                         \/ r /\ (IsWhite(t, s.open[o]) \/ s.open[o] \in t.gray \cup X)
        OBVIOUS
      <4>1. s.open[o] \in Objects /\ kind[s.open[o]] = "thread"
        BY DEF Shape, ShapeOf, StateType, OrNull, Proper
      <4> QED BY <1>2, <1>4, <1>5, <2>0, <4>1 DEF TraceOf
    <3> QED BY <1>4, <2>3, <3>2, <3>3, <3>4, <3>5 DEF TraceOf, Visited
  <2>5. CASE o \in Struck(s, S) /\ kind[o] = "bareudata"
    <3>1. s.open[o] = NULL /\ s.key[o] = NULL /\ s.val[o] \in OrNull(Objects)
      BY <2>5 DEF Shape, ShapeOf, WeakKinds, StateType, OrNull, Proper
    <3>2. UpvalValue(s, o) = s.val[o]
      BY <3>1 DEF UpvalValue
    <3>3. s.val[o] # NULL => s.val[o] \in Struck(s, S) \/ ~IsWhite(s, s.val[o])
      BY <1>1, <2>5, <3>2, StruckIs
    <3>4. s.val[o] # NULL => ~IsWhite(t, s.val[o])
      BY <1>2, <3>1, <3>3 DEF OrNull, IsWhite
    <3>5. Refs(t, o) = {s.val[o]} \ {NULL}
      BY <1>4, <2>5, <3>1, RefsOther
    <3>6. Full(t, o)
      BY <3>4, <3>5 DEF Full
    <3>7. IsBlack(t, o) /\ ~IsGray(t, o)
      BY <1>2, <2>5 DEF Done, IsBlack, IsGray
    <3>8. s.age[o] \notin {"touched1", "touched2"}
      BY <2>0, <2>5 DEF TraceOf, Tables
    <3> QED BY <1>4, <2>5, <3>1, <3>6, <3>7, <3>8 DEF TraceOf, Visited
  <2>4. CASE o \in Struck(s, S) /\ kind[o] \notin {"string", "upval", "bareudata"}
    <3>1. o \in t.gray
      BY <1>2, <2>4
    <3>2. s.open[o] = NULL
      BY <2>4 DEF Shape, ShapeOf
    <3> QED BY <1>4, <2>0, <3>1, <3>2 DEF TraceOf
  <2> QED BY <2>1, <2>2, <2>3, <2>4, <2>5
<1>7. Pending(t) = Pending(s)
  BY <1>4 DEF Pending
<1>8. X \subseteq Marked(t) /\ t.gray \cup Pending(t) \subseteq { o \in Marked(t) : kind[o] \notin {"string", "upval", "bareudata"} }
  BY <1>2, <1>3, <1>7 DEF Trace
<1>9. r => t.twups \subseteq Marked(t)
  BY <1>3, <1>4 DEF Trace
<1> QED BY <1>4, <1>6, <1>8, <1>9 DEF t, Trace

WhitesOf(s, S) == { o \in S \ {NULL} : IsWhite(s, o) }

\* Mark keeps the trace and leaves nothing of S white.
LEMMA MarkTrace ==
  ASSUME NEW s \in StateType, KindOK, Shape(s), NEW S \in SUBSET OrNull(Objects), NEW X, NEW r,
         Trace(s, X, r)
  PROVE  LET t == Mark(s, S)
         IN  /\ Marks(s, t) /\ Shape(t) /\ Trace(t, X, r)
             /\ Same(s, t, {"color", "gray"}) /\ s.gray \subseteq t.gray
             /\ \A o \in S : o # NULL => ~IsWhite(t, o)
             /\ \A o \in Objects : o \in t.gray => o \in s.gray \/ IsWhite(s, o)
             /\ \A o \in Objects : ~IsWhite(s, o) => t.color[o] = s.color[o]
<1> DEFINE W == WhitesOf(s, S)
           t == Mark(s, S)
<1>1. W \in SUBSET InUse(s)
  BY MarkedWhite, Null DEF WhitesOf, OrNull
<1>2. t = ReallyMark(s, W)
  BY DEF Mark, WhitesOf
<1>3. \A o \in Struck(s, W) : IsWhite(s, o)
  <2>1. W \in SUBSET Objects /\ \A o \in W : IsWhite(s, o)
    BY <1>1 DEF WhitesOf, InUse
  <2> HIDE DEF W
  <2> QED BY <2>1, StruckIs
<1>4. Marks(s, t) /\ Shape(t) /\ Trace(t, X, r)
  BY <1>1, <1>2, ReallyMarkMarks, ReallyMarkTrace
<1>5. /\ Marked(t) = Marked(s) \cup Struck(s, W)
      /\ Same(s, t, {"color", "gray"})
      /\ \A o \in Objects : o \notin Struck(s, W) => t.color[o] = s.color[o]
      /\ t.gray = s.gray \cup { o \in Struck(s, W) : kind[o] \notin {"string", "upval", "bareudata"} }
  BY <1>1, <1>2, ReallyMarkMarks
<1>6. ASSUME NEW o \in S, o # NULL PROVE ~IsWhite(t, o)
  <2>1. o \in Objects
    BY <1>6, Null DEF OrNull
  <2>2. CASE IsWhite(s, o)
    <3>1. W \in SUBSET Objects /\ o \in W
      BY <1>1, <1>6, <2>2 DEF WhitesOf, InUse
    <3> HIDE DEF W, t
    <3> QED BY <1>5, <2>1, <3>1, StruckIs DEF Marked, IsWhite
  <2>3. CASE ~IsWhite(s, o)
    BY <1>4, <2>1, <2>3, MarksWhite
  <2> QED BY <2>2, <2>3
<1> HIDE DEF t, W
<1> QED BY <1>3, <1>4, <1>5, <1>6 DEF t, W

(****************************************************************************)
(* Traversals of one object                                                 *)
(****************************************************************************)

\* Link makes the object gray and puts it in one list.
LEMMA LinkIs ==
  ASSUME NEW s \in StateType, NEW o \in Objects
  PROVE  /\ LET t == Link(s, o, "grayagain")
            IN  t \in StateType /\ Same(s, t, {"color", "grayagain"})
                /\ t.color = [s.color EXCEPT ![o] = "gray"] /\ t.grayagain = s.grayagain \cup {o}
         /\ LET t == Link(s, o, "weak")
            IN  t \in StateType /\ Same(s, t, {"color", "weak"})
                /\ t.color = [s.color EXCEPT ![o] = "gray"] /\ t.weak = s.weak \cup {o}
         /\ LET t == Link(s, o, "allweak")
            IN  t \in StateType /\ Same(s, t, {"color", "allweak"})
                /\ t.color = [s.color EXCEPT ![o] = "gray"] /\ t.allweak = s.allweak \cup {o}
         /\ LET t == Link(s, o, "ephemeron")
            IN  t \in StateType /\ Same(s, t, {"color", "ephemeron"})
                /\ t.color = [s.color EXCEPT ![o] = "gray"]
                /\ t.ephemeron = s.ephemeron \cup {o}
<1>1. [s.color EXCEPT ![o] = "gray"] \in [Objects -> Colors]
  BY DEF StateType, Colors
<1> DEFINE C == [s.color EXCEPT ![o] = "gray"]
<1> HIDE DEF C
<1>2. /\ Link(s, o, "grayagain") = [s EXCEPT !.color = C, !.grayagain = s.grayagain \cup {o}]
      /\ Link(s, o, "weak") = [s EXCEPT !.color = C, !.weak = s.weak \cup {o}]
      /\ Link(s, o, "allweak") = [s EXCEPT !.color = C, !.allweak = s.allweak \cup {o}]
      /\ Link(s, o, "ephemeron") = [s EXCEPT !.color = C, !.ephemeron = s.ephemeron \cup {o}]
  BY DEF Link, Paint, C, StateType
<1>3. /\ [s EXCEPT !.color = C, !.grayagain = s.grayagain \cup {o}] \in StateType
      /\ [s EXCEPT !.color = C, !.weak = s.weak \cup {o}] \in StateType
      /\ [s EXCEPT !.color = C, !.allweak = s.allweak \cup {o}] \in StateType
      /\ [s EXCEPT !.color = C, !.ephemeron = s.ephemeron \cup {o}] \in StateType
  BY ZenonT(40), <1>1 DEF StateType, C
<1>4. /\ Same(s, [s EXCEPT !.color = C, !.grayagain = s.grayagain \cup {o}], {"color", "grayagain"})
      /\ Same(s, [s EXCEPT !.color = C, !.weak = s.weak \cup {o}], {"color", "weak"})
      /\ Same(s, [s EXCEPT !.color = C, !.allweak = s.allweak \cup {o}], {"color", "allweak"})
      /\ Same(s, [s EXCEPT !.color = C, !.ephemeron = s.ephemeron \cup {o}], {"color", "ephemeron"})
  BY DEF StateType, Same, Fields
<1>5. /\ [s EXCEPT !.color = C, !.grayagain = s.grayagain \cup {o}].color = C
      /\ [s EXCEPT !.color = C, !.weak = s.weak \cup {o}].color = C
      /\ [s EXCEPT !.color = C, !.allweak = s.allweak \cup {o}].color = C
      /\ [s EXCEPT !.color = C, !.ephemeron = s.ephemeron \cup {o}].color = C
      /\ [s EXCEPT !.color = C, !.grayagain = s.grayagain \cup {o}].grayagain = s.grayagain \cup {o}
      /\ [s EXCEPT !.color = C, !.weak = s.weak \cup {o}].weak = s.weak \cup {o}
      /\ [s EXCEPT !.color = C, !.allweak = s.allweak \cup {o}].allweak = s.allweak \cup {o}
      /\ [s EXCEPT !.color = C, !.ephemeron = s.ephemeron \cup {o}].ephemeron = s.ephemeron \cup {o}
  BY DEF StateType
<1> QED BY <1>2, <1>3, <1>4, <1>5 DEF C

(* t differs from s in the colour, the age and the lists of o alone. *)
At(s, t, o) ==
  /\ Marks(s, t) /\ o \in Marked(s)
  /\ \A x \in Objects : x # o => t.color[x] = s.color[x] /\ t.age[x] = s.age[x]
  /\ t.gray = s.gray
  /\ s.grayagain \subseteq t.grayagain /\ t.grayagain \subseteq s.grayagain \cup {o}
  /\ s.weak \subseteq t.weak /\ s.allweak \subseteq t.allweak
  /\ t.weak \cup t.allweak \subseteq s.weak \cup s.allweak \cup {o}
  /\ s.ephemeron \subseteq t.ephemeron /\ t.ephemeron \subseteq s.ephemeron \cup {o}
  /\ o \in t.weak \cup t.allweak => kind[o] \in WeakKinds \/ o \in s.weak \cup s.allweak
  /\ o \in t.ephemeron => kind[o] = "ephemeron" \/ o \in s.ephemeron
  /\ s.twups \subseteq t.twups /\ t.twups \subseteq s.twups \cup {o}
  /\ o \in t.twups => kind[o] = "thread" \/ o \in s.twups

\* A change at an object still to be visited keeps the trace.
LEMMA AtTrace ==
  ASSUME NEW s \in StateType, KindOK, Shape(s), NEW X, NEW r, Trace(s, X, r),
         NEW o \in X, kind[o] \notin {"string", "upval", "bareudata"}, NEW t, At(s, t, o)
  PROVE  Trace(t, X, r) /\ Shape(t)
<1>0. o \in Objects /\ o \in Marked(s) /\ kind[o] \notin {"string", "upval", "bareudata"}
  BY DEF Trace, Marked
<1>1. Marks(s, t) /\ t.gray = s.gray /\ t.open = s.open /\ t.gcstate = s.gcstate
  BY MarksSame DEF At
<1>2. Shape(t)
  <2>1. \A th \in t.twups : kind[th] = "thread"
    BY DEF At, Shape
  <2>2. ASSUME NEW u \in Objects, s.open[u] # NULL PROVE t.color[u] # "black"
    <3>1. u # o /\ s.color[u] # "black"
      BY <1>0, <2>2 DEF Shape, ShapeOf
    <3> QED BY <3>1 DEF At
  <2> QED BY <1>1, <2>1, <2>2, MarksShape
<1>3. \A x \in Objects : ~(IsWhite(s, x) /\ ~IsWhite(t, x))
  BY <1>0, MarkedWhite DEF At, IsWhite
<1>4. Marked(s) \subseteq Marked(t)
  BY <1>1, MarksWhite DEF Marked
<1>5. ASSUME NEW x \in Objects PROVE TraceOf(t, X, r, x)
  <2>0. TraceOf(s, X, r, x)
    BY DEF Trace
  <2>1. CASE x # o
    <3>1. t.color[x] = s.color[x] /\ t.age[x] = s.age[x]
      BY <2>1 DEF At
    <3> QED BY <1>1, <1>3, <2>0, <3>1, TraceOther DEF At
  <2>2. CASE x = o
    <3>1. s.open[o] = NULL
      BY <1>0 DEF Shape, ShapeOf
    <3>2. t.age[o] \in {"touched1", "touched2"} => s.age[o] \in {"touched1", "touched2"}
      BY <1>0, <1>1 DEF Marks
    <3> QED BY <1>0, <1>1, <2>0, <2>2, <3>1, <3>2 DEF TraceOf
  <2> QED BY <2>1, <2>2
<1>6. Pending(t) \subseteq Pending(s) \cup {o}
  BY DEF At, Pending
<1>7. X \subseteq Marked(t) /\ t.gray \cup Pending(t) \subseteq { x \in Marked(t) : kind[x] \notin {"string", "upval", "bareudata"} }
  BY <1>0, <1>1, <1>4, <1>6 DEF Trace
<1>8. r => t.twups \subseteq Marked(t)
  BY <1>0, <1>4 DEF At, Trace
<1>9. /\ t.weak \cup t.allweak \subseteq { x \in Objects : kind[x] \in WeakKinds }
      /\ t.ephemeron \subseteq { x \in Objects : kind[x] = "ephemeron" }
  BY <1>0 DEF At, Trace
<1> QED BY <1>1, <1>2, <1>5, <1>7, <1>8, <1>9 DEF Trace

\* An object whose own trace holds need not be visited any more.
LEMMA TraceDone ==
  ASSUME NEW t \in StateType, NEW X, NEW o \in Objects, NEW r, Trace(t, X \cup {o}, r),
         TraceOf(t, X, r, o), \A u \in Objects : r /\ t.open[u] = o => o \in t.twups
  PROVE  Trace(t, X, r)
<1>1. ASSUME NEW x \in Objects PROVE TraceOf(t, X, r, x)
  <2>1. TraceOf(t, X \cup {o}, r, x)
    BY DEF Trace
  <2>2. CASE x # o
    BY <2>1, <2>2 DEF TraceOf
  <2> QED BY <2>2
<1> QED BY <1>1 DEF Trace

\* More marked objects may be left to visit.
LEMMA TraceMore ==
  ASSUME NEW t \in StateType, NEW X, NEW Y, X \subseteq Y, NEW r, Trace(t, X, r),
         Y \subseteq Marked(t)
  PROVE  Trace(t, Y, r)
<1>1. ASSUME NEW x \in Objects PROVE TraceOf(t, Y, r, x)
  <2>1. TraceOf(t, X, r, x)
    BY DEF Trace
  <2> QED BY <2>1 DEF TraceOf
<1> QED BY <1>1 DEF Trace

(* One more object has been visited.  *)
Traversed(s, t, X, r) ==
  /\ Marks(s, t) /\ Shape(t) /\ Trace(t, X, r)
  /\ \A x \in Objects : x \in t.gray => x \in s.gray \/ IsWhite(s, x)

\* GenLink puts a touched object back into grayagain, or makes it old.
LEMMA GenLinkIs ==
  ASSUME NEW s \in StateType, NEW o \in Objects, IsBlack(s, o), kind[o] \in Tables
  PROVE  LET t == GenLink(s, o)
         IN  /\ t \in StateType /\ At(s, t, o) /\ t.val = s.val /\ t.key = s.key
             /\ IsGray(t, o) \/ t.age[o] \in {"touched1", "touched2"} => o \in t.grayagain
<1>0. o \in Marked(s)
  BY DEF Marked, IsBlack
<1>1. CASE s.age[o] = "touched1"
  <2> DEFINE t == Link(s, o, "grayagain")
  <2>1. /\ t \in StateType /\ Same(s, t, {"color", "grayagain"})
        /\ t.color = [s.color EXCEPT ![o] = "gray"] /\ t.grayagain = s.grayagain \cup {o}
    BY LinkIs
  <2>2. GenLink(s, o) = t
    BY <1>1 DEF GenLink
  <2> HIDE DEF t
  <2>3. /\ t.age = s.age /\ t.val = s.val /\ t.key = s.key /\ t.gray = s.gray
        /\ t.weak = s.weak /\ t.allweak = s.allweak /\ t.ephemeron = s.ephemeron
        /\ t.twups = s.twups /\ Same(s, t, Changes)
    BY <2>1 DEF Same, Fields, Changes, MarkLists
  <2>4. s.color \in [Objects -> Colors]
    BY DEF StateType
  <2>5. Marks(s, t)
    BY <2>1, <2>3, <2>4, <1>0 DEF Marks, Marked, Free
  <2>6. At(s, t, o)
    BY <1>0, <2>1, <2>3, <2>4, <2>5 DEF At, Tables
  <2> QED BY <2>1, <2>2, <2>3, <2>6
<1>2. CASE s.age[o] = "touched2"
  <2> DEFINE A == [s.age EXCEPT ![o] = "old"]
             t == [s EXCEPT !.age = A]
  <2>1. GenLink(s, o) = t
    BY <1>2 DEF GenLink, SetAge, StateType
  <2>2. A \in [Objects -> Ages]
    BY DEF StateType, Ages
  <2> HIDE DEF A
  <2>3. t \in StateType /\ Same(s, t, {"age"}) /\ t.age = A
    BY <2>2 DEF StateType, Same, Fields
  <2> HIDE DEF t
  <2>4. /\ t.color = s.color /\ t.val = s.val /\ t.key = s.key /\ t.gray = s.gray
        /\ t.weak = s.weak /\ t.allweak = s.allweak /\ t.ephemeron = s.ephemeron
        /\ t.grayagain = s.grayagain /\ t.twups = s.twups /\ Same(s, t, Changes)
    BY <2>3 DEF Same, Fields, Changes, MarkLists
  <2>5. t.age = [s.age EXCEPT ![o] = "old"] /\ s.age \in [Objects -> Ages]
    BY <2>3 DEF A, StateType
  <2>6. Marks(s, t)
    BY <1>2, <2>3, <2>4, <2>5 DEF Marks
  <2>7. At(s, t, o)
    BY <1>0, <2>4, <2>5, <2>6 DEF At, Tables
  <2> QED BY <2>1, <2>3, <2>4, <2>5, <2>7 DEF IsGray, IsBlack
<1>3. CASE s.age[o] \notin {"touched1", "touched2"}
  <2>1. GenLink(s, o) = s
    BY <1>3 DEF GenLink
  <2>2. At(s, s, o)
    BY <1>0, MarksRefl DEF At, Tables
  <2> QED BY <1>3, <2>1, <2>2 DEF IsGray, IsBlack
<1> QED BY <1>1, <1>2, <1>3

\* Link is a change at its object.
LEMMA LinkAt ==
  ASSUME NEW s \in StateType, NEW o \in Objects, o \in Marked(s), kind[o] # "upval"
  PROVE  /\ At(s, Link(s, o, "grayagain"), o) /\ o \in Link(s, o, "grayagain").grayagain
         /\ kind[o] \in WeakKinds =>
              /\ At(s, Link(s, o, "weak"), o) /\ o \in Link(s, o, "weak").weak
              /\ At(s, Link(s, o, "allweak"), o) /\ o \in Link(s, o, "allweak").allweak
         /\ kind[o] = "ephemeron" =>
              At(s, Link(s, o, "ephemeron"), o) /\ o \in Link(s, o, "ephemeron").ephemeron
         /\ \A l \in {"grayagain", "weak", "allweak", "ephemeron"} :
              /\ Link(s, o, l).age = s.age /\ Link(s, o, l).val = s.val
              /\ Link(s, o, l).key = s.key /\ Link(s, o, l) \in StateType
<1>1. s.color \in [Objects -> Colors]
  BY DEF StateType
<1>3. ASSUME NEW t, t = Link(s, o, "grayagain")
      PROVE  /\ t \in StateType /\ Same(s, t, {"color", "grayagain"}) /\ t.grayagain = s.grayagain \cup {o}
             /\ t.color = [s.color EXCEPT ![o] = "gray"]
  BY <1>3, LinkIs
<1>4. ASSUME NEW t, t = Link(s, o, "weak")
      PROVE  /\ t \in StateType /\ Same(s, t, {"color", "weak"}) /\ t.weak = s.weak \cup {o}
             /\ t.color = [s.color EXCEPT ![o] = "gray"]
  BY <1>4, LinkIs
<1>5. ASSUME NEW t, t = Link(s, o, "allweak")
      PROVE  /\ t \in StateType /\ Same(s, t, {"color", "allweak"}) /\ t.allweak = s.allweak \cup {o}
             /\ t.color = [s.color EXCEPT ![o] = "gray"]
  BY <1>5, LinkIs
<1>6. ASSUME NEW t, t = Link(s, o, "ephemeron")
      PROVE  /\ t \in StateType /\ Same(s, t, {"color", "ephemeron"})
             /\ t.ephemeron = s.ephemeron \cup {o} /\ t.color = [s.color EXCEPT ![o] = "gray"]
  BY <1>6, LinkIs
<1>7. ASSUME NEW l \in {"grayagain", "weak", "allweak", "ephemeron"}, NEW t, t = Link(s, o, l)
      PROVE  /\ t.age = s.age /\ t.val = s.val /\ t.key = s.key /\ t \in StateType /\ Marks(s, t)
             /\ t.gray = s.gray /\ t.twups = s.twups
             /\ \A x \in Objects : x # o => t.color[x] = s.color[x] /\ t.age[x] = s.age[x]
  <2>1. t.age = s.age /\ t.val = s.val /\ t.key = s.key /\ t.gray = s.gray /\ t.twups = s.twups
        /\ Same(s, t, Changes) /\ t \in StateType /\ t.color = [s.color EXCEPT ![o] = "gray"]
    BY <1>3, <1>4, <1>5, <1>6, <1>7 DEF Same, Fields, Changes, MarkLists
  <2>2. Marks(s, t)
    BY <1>1, <2>1 DEF Marks, Marked, Free
  <2> QED BY <1>1, <2>1, <2>2
<1>8. ASSUME NEW t, t = Link(s, o, "grayagain")
      PROVE  At(s, t, o) /\ o \in t.grayagain
  <2>1. t.weak = s.weak /\ t.allweak = s.allweak /\ t.ephemeron = s.ephemeron
    BY <1>3, <1>8 DEF Same, Fields
  <2> QED BY <1>3, <1>7, <1>8, <2>1 DEF At
<1>9. ASSUME NEW t, t = Link(s, o, "weak"), kind[o] \in WeakKinds
      PROVE  At(s, t, o) /\ o \in t.weak
  <2>1. t.grayagain = s.grayagain /\ t.allweak = s.allweak /\ t.ephemeron = s.ephemeron
    BY <1>4, <1>9 DEF Same, Fields
  <2> QED BY <1>4, <1>7, <1>9, <2>1 DEF At
<1>10. ASSUME NEW t, t = Link(s, o, "allweak"), kind[o] \in WeakKinds
      PROVE  At(s, t, o) /\ o \in t.allweak
  <2>1. t.grayagain = s.grayagain /\ t.weak = s.weak /\ t.ephemeron = s.ephemeron
    BY <1>5, <1>10 DEF Same, Fields
  <2> QED BY <1>5, <1>7, <1>10, <2>1 DEF At
<1>11. ASSUME NEW t, t = Link(s, o, "ephemeron"), kind[o] = "ephemeron"
      PROVE  At(s, t, o) /\ o \in t.ephemeron
  <2>1. t.grayagain = s.grayagain /\ t.weak = s.weak /\ t.allweak = s.allweak
    BY <1>6, <1>11 DEF Same, Fields
  <2> QED BY <1>6, <1>7, <1>11, <2>1 DEF At
<1> QED BY <1>7, <1>8, <1>9, <1>10, <1>11

\* An object that was visited and linked where it has to be is settled.
LEMMA Settle ==
  ASSUME NEW s \in StateType, KindOK, Shape(s), NEW X, NEW o \in Objects, NEW r,
         Trace(s, X \cup {o}, r), NEW t, At(s, t, o),
         kind[o] \notin {"string", "upval", "bareudata", "thread"}, Visited(t, o, r) \/ o \in Later(t),
         IsGray(t, o) \/ t.age[o] \in {"touched1", "touched2"} => o \in Pending(t)
  PROVE  Trace(t, X, r) /\ Shape(t)
<1>1. Trace(t, X \cup {o}, r) /\ Shape(t)
  BY AtTrace
<1>2. t \in StateType
  BY DEF At, Marks
<1>3. kind[o] # "upval"
  OBVIOUS
<1>4. t.open[o] = NULL /\ \A u \in Objects : t.open[u] # o
  BY <1>1, <1>3, Null DEF Shape, ShapeOf
<1>5. TraceOf(t, X \cup {o}, r, o)
  BY <1>1 DEF Trace
<1>6. TraceOf(t, X, r, o)
  BY <1>4, <1>5 DEF TraceOf
<1> QED BY <1>1, <1>2, <1>4, <1>6, TraceDone

\* Taking a gray object out of the gray list leaves only that one to visit.
LEMMA Begin ==
  ASSUME NEW s \in StateType, KindOK, Shape(s), NEW X, NEW r, Trace(s, X, r), NEW o \in s.gray
  PROVE  LET t == [Paint(s, o, "black") EXCEPT !.gray = @ \ {o}]
         IN  /\ Marks(s, t) /\ Shape(t) /\ Trace(t, X \cup {o}, r) /\ IsBlack(t, o)
             /\ t.gray = s.gray \ {o} /\ \A x \in Objects : IsWhite(t, x) <=> IsWhite(s, x)
<1> DEFINE C == [s.color EXCEPT ![o] = "black"]
           G == s.gray \ {o}
           t == [Paint(s, o, "black") EXCEPT !.gray = @ \ {o}]
<1>0. o \in Objects /\ o \in Marked(s) /\ kind[o] \notin {"string", "upval", "bareudata"}
  BY DEF Trace, Marked
<1>1. t = [s EXCEPT !.color = C, !.gray = G]
  BY DEF Paint, StateType
<1>2. C \in [Objects -> Colors] /\ G \in SUBSET Objects
  BY DEF StateType, Colors
<1> HIDE DEF C, G
<1>3. t \in StateType /\ Same(s, t, {"color", "gray"}) /\ t.color = C /\ t.gray = G
  BY ZenonT(40), <1>1, <1>2 DEF StateType, Same, Fields
<1> HIDE DEF t
<1>4. /\ t.age = s.age /\ t.val = s.val /\ t.key = s.key /\ t.open = s.open
      /\ t.twups = s.twups /\ t.gcstate = s.gcstate /\ t.grayagain = s.grayagain
      /\ t.weak = s.weak /\ t.allweak = s.allweak /\ t.ephemeron = s.ephemeron
      /\ Same(s, t, Changes)
  BY <1>3 DEF Same, Fields, Changes, MarkLists
<1>5. t.color = [s.color EXCEPT ![o] = "black"] /\ s.color \in [Objects -> Colors]
  BY <1>3 DEF C, StateType
<1>6. Marks(s, t)
  BY <1>0, <1>3, <1>4, <1>5 DEF Marks, Marked, Free
<1>7. \A x \in Objects : IsWhite(t, x) <=> IsWhite(s, x)
  BY <1>0, <1>5 DEF Marked, IsWhite
<1>8. Shape(t)
  <2>1. \A u \in Objects : s.open[u] # NULL => t.color[u] # "black"
    BY <1>0, <1>5 DEF Shape, ShapeOf
  <2> QED BY <1>4, <1>6, <2>1, MarksShape DEF Shape
<1>9. ASSUME NEW x \in Objects PROVE TraceOf(t, X \cup {o}, r, x)
  <2>0. TraceOf(s, X, r, x)
    BY DEF Trace
  <2>1. CASE x # o
    <3>1. t.color[x] = s.color[x] /\ t.age[x] = s.age[x]
      BY <1>4, <1>5, <2>1
    <3>2. s.gray \cup X \subseteq t.gray \cup (X \cup {o})
      BY <1>3 DEF G
    <3> QED BY <1>4, <1>6, <1>7, <2>0, <3>1, <3>2, TraceOther
  <2>2. CASE x = o
    <3>1. s.open[o] = NULL
      BY <1>0 DEF Shape, ShapeOf
    <3> QED BY <1>0, <1>4, <1>5, <2>0, <2>2, <3>1 DEF TraceOf
  <2> QED BY <2>1, <2>2
<1>10. Pending(t) = Pending(s) /\ Marked(t) = Marked(s)
  BY <1>0, <1>4, <1>5 DEF Pending, Marked
<1>11. Trace(t, X \cup {o}, r)
  BY <1>0, <1>3, <1>4, <1>9, <1>10 DEF Trace, G
<1>12. IsBlack(t, o) /\ t.gray = s.gray \ {o}
  BY <1>0, <1>3, <1>5 DEF IsBlack, G
<1> QED BY <1>6, <1>7, <1>8, <1>11, <1>12 DEF t

(* Halfway through the traversal of o, from s to u.  *)
Within(s, u, o, X, r) ==
  /\ u \in StateType /\ Marks(s, u) /\ Shape(u) /\ Trace(u, X \cup {o}, r) /\ IsBlack(u, o)
  /\ u.gcstate = s.gcstate
  /\ \A x \in Objects : x \in u.gray => x \in s.gray \/ IsWhite(s, x)

\* A traversal that ends with its object visited keeps the trace.
LEMMA EndTraversal ==
  ASSUME NEW s \in StateType, KindOK, NEW X, NEW o \in Objects, NEW r,
         NEW u, Within(s, u, o, X, r), NEW t, At(u, t, o),
         kind[o] \notin {"string", "upval", "bareudata", "thread"}, Visited(t, o, r) \/ o \in Later(t),
         IsGray(t, o) \/ t.age[o] \in {"touched1", "touched2"} => o \in Pending(t)
  PROVE  Traversed(s, t, X, r)
<1>1. u \in StateType /\ Shape(u) /\ Trace(u, X \cup {o}, r) /\ Marks(s, u)
  BY DEF Within
<1>2. Trace(t, X, r) /\ Shape(t)
  BY <1>1, Settle
<1>3. Marks(u, t) /\ t.gray = u.gray
  BY DEF At
<1>4. Marks(s, t)
  BY <1>1, <1>3, MarksTrans
<1> QED BY <1>2, <1>3, <1>4 DEF Traversed, Within

\* Marking what the object refers to is within its traversal.
LEMMA WithinMark ==
  ASSUME NEW s \in StateType, KindOK, Shape(s), NEW S \in SUBSET OrNull(Objects), NEW X, NEW r,
         NEW o \in Objects, Trace(s, X \cup {o}, r), IsBlack(s, o)
  PROVE  LET u == Mark(s, S)
         IN  /\ Within(s, u, o, X, r) /\ u.val = s.val /\ u.key = s.key
             /\ \A x \in S : x # NULL => ~IsWhite(u, x)
             /\ \A x \in Objects : ~IsWhite(s, x) => ~IsWhite(u, x)
<1> DEFINE u == Mark(s, S)
<1>1. /\ Marks(s, u) /\ Shape(u) /\ Trace(u, X \cup {o}, r)
      /\ Same(s, u, {"color", "gray"})
      /\ \A x \in S : x # NULL => ~IsWhite(u, x)
      /\ \A x \in Objects : x \in u.gray => x \in s.gray \/ IsWhite(s, x)
      /\ \A x \in Objects : ~IsWhite(s, x) => u.color[x] = s.color[x]
  BY MarkTrace
<1> HIDE DEF u
<1>2. u.val = s.val /\ u.key = s.key /\ u.gcstate = s.gcstate /\ u \in StateType
  BY <1>1 DEF Same, Fields, Marks
<1>3. IsBlack(u, o)
  BY <1>1 DEF IsBlack, IsWhite
<1> QED BY <1>1, <1>2, <1>3 DEF u, Within, IsWhite

\* Clearing the key of an empty entry is within the traversal of its table.
LEMMA WithinClearKey ==
  ASSUME NEW s \in StateType, KindOK, Shape(s), NEW X, NEW r, NEW o \in Objects,
         Trace(s, X \cup {o}, r), IsBlack(s, o), kind[o] \in WeakKinds, s.val[o] = NULL
  PROVE  LET u == ClearKey(s, o)
         IN  /\ Within(s, u, o, X, r) /\ u.val[o] = NULL /\ u.key[o] = NULL
             /\ u.color = s.color
<1> DEFINE K == [s.key EXCEPT ![o] = NULL]
           u == ClearKey(s, o)
<1>1. u = [s EXCEPT !.key = K]
  BY DEF ClearKey, StateType
<1>2. K \in [Objects -> OrNull(Proper)]
  BY DEF StateType, OrNull
<1> HIDE DEF K
<1>3. u \in StateType /\ Same(s, u, {"key"}) /\ u.key = K
  BY ZenonT(40), <1>1, <1>2 DEF StateType, Same, Fields
<1> HIDE DEF u
<1>4. /\ u.color = s.color /\ u.age = s.age /\ u.val = s.val /\ u.gray = s.gray
      /\ u.weak = s.weak /\ u.allweak = s.allweak /\ u.ephemeron = s.ephemeron
      /\ u.grayagain = s.grayagain /\ u.twups = s.twups /\ Same(s, u, Changes)
      /\ u.gcstate = s.gcstate
  BY <1>3 DEF Same, Fields, Changes, MarkLists
<1>5. u.key = [s.key EXCEPT ![o] = NULL] /\ s.key \in [Objects -> OrNull(Proper)]
  BY <1>3 DEF K, StateType
<1>6. Marks(s, u)
  BY <1>3, <1>4, <1>5 DEF Marks
<1>7. At(s, u, o)
  BY <1>4, <1>6 DEF At, Marked, IsBlack
<1>8. Shape(u) /\ Trace(u, X \cup {o}, r)
  BY <1>7, AtTrace DEF WeakKinds
<1> QED BY <1>3, <1>4, <1>5, <1>6, <1>8 DEF u, Within, IsBlack

\* A traversal that has marked nothing yet.
LEMMA WithinSelf ==
  ASSUME NEW s \in StateType, Shape(s), NEW X, NEW r, NEW o \in Objects,
         Trace(s, X \cup {o}, r), IsBlack(s, o)
  PROVE  Within(s, s, o, X, r)
  BY MarksRefl DEF Within

\* The lists in which the traversal of a table may leave it, and when.
LEMMA EndLink ==
  ASSUME NEW s \in StateType, KindOK, NEW X, NEW o \in Objects, NEW r,
         NEW u, Within(s, u, o, X, r), kind[o] \in Tables
  PROVE  /\ u.gcstate = "propagate" => Traversed(s, Link(u, o, "grayagain"), X, r)
         /\ kind[o] = "weakvalue" /\ (u.key[o] # NULL => ~IsWhite(u, u.key[o]))
              => Traversed(s, Link(u, o, "weak"), X, r)
         /\ kind[o] = "ephemeron" => Traversed(s, Link(u, o, "ephemeron"), X, r)
         /\ kind[o] = "ephemeron" /\ (u.val[o] # NULL => ~IsWhite(u, u.val[o]))
              => Traversed(s, Link(u, o, "allweak"), X, r)
         /\ kind[o] = "allweak" => Traversed(s, Link(u, o, "allweak"), X, r)
         /\ Full(u, o) => Traversed(s, GenLink(u, o), X, r)
<1>0. u \in StateType /\ o \in Marked(u) /\ IsBlack(u, o)
  BY DEF Within, IsBlack, Marked
<1>1. kind[o] \notin {"upval", "thread"}
  BY DEF Tables
<1>2. ASSUME u.gcstate = "propagate" PROVE Traversed(s, Link(u, o, "grayagain"), X, r)
  <2> DEFINE t == Link(u, o, "grayagain")
  <2>1. At(u, t, o) /\ o \in t.grayagain
    BY <1>0, <1>1, LinkAt
  <2> HIDE DEF t
  <2>2. t.gcstate = "propagate"
    BY <1>2, <2>1, MarksSame DEF At
  <2>3. o \in Later(t) /\ o \in Pending(t)
    BY <2>1, <2>2 DEF Later, Pending
  <2>4. Traversed(s, t, X, r)
    BY <1>1, <2>1, <2>3, EndTraversal DEF Tables
  <2> QED BY <2>4 DEF t
<1>3. ASSUME kind[o] = "weakvalue", u.key[o] # NULL => ~IsWhite(u, u.key[o])
      PROVE  Traversed(s, Link(u, o, "weak"), X, r)
  <2> DEFINE t == Link(u, o, "weak")
  <2>1. At(u, t, o) /\ o \in t.weak /\ t.key = u.key
    BY <1>0, <1>1, <1>3, LinkAt DEF WeakKinds
  <2> HIDE DEF t
  <2>2. t.key[o] # NULL => ~IsWhite(t, t.key[o])
    <3>1. u.key[o] \in OrNull(Proper)
      BY <1>0 DEF StateType
    <3> QED BY <1>3, <2>1, <3>1, MarksWhite DEF At, OrNull, Proper
  <2>3. Visited(t, o, r) /\ o \in Pending(t)
    BY <1>3, <2>1, <2>2 DEF Visited, Pending
  <2>4. Traversed(s, t, X, r)
    BY <1>1, <2>1, <2>3, EndTraversal DEF Tables
  <2> QED BY <2>4 DEF t
<1>4. ASSUME kind[o] = "ephemeron" PROVE Traversed(s, Link(u, o, "ephemeron"), X, r)
  <2> DEFINE t == Link(u, o, "ephemeron")
  <2>1. At(u, t, o) /\ o \in t.ephemeron
    BY <1>0, <1>1, <1>4, LinkAt
  <2> HIDE DEF t
  <2>3. Visited(t, o, r) /\ o \in Pending(t)
    BY <1>4, <2>1 DEF Visited, Pending
  <2>4. Traversed(s, t, X, r)
    BY <1>1, <2>1, <2>3, EndTraversal DEF Tables
  <2> QED BY <2>4 DEF t
<1>5. ASSUME \/ kind[o] = "ephemeron" /\ (u.val[o] # NULL => ~IsWhite(u, u.val[o]))
             \/ kind[o] = "allweak"
      PROVE  Traversed(s, Link(u, o, "allweak"), X, r)
  <2> DEFINE t == Link(u, o, "allweak")
  <2>1. At(u, t, o) /\ o \in t.allweak /\ t.val = u.val
    BY <1>0, <1>1, <1>5, LinkAt DEF WeakKinds
  <2> HIDE DEF t
  <2>2. kind[o] = "ephemeron" => (t.val[o] # NULL => ~IsWhite(t, t.val[o]))
    <3>1. u.val[o] \in OrNull(Proper)
      BY <1>0 DEF StateType
    <3> QED BY <1>5, <2>1, <3>1, MarksWhite DEF At, OrNull, Proper
  <2>3. Visited(t, o, r) /\ o \in Pending(t)
    BY <1>5, <2>1, <2>2 DEF Visited, Pending
  <2>4. Traversed(s, t, X, r)
    BY <1>1, <2>1, <2>3, EndTraversal DEF Tables
  <2> QED BY <2>4 DEF t
<1>6. ASSUME Full(u, o) PROVE Traversed(s, GenLink(u, o), X, r)
  <2> DEFINE t == GenLink(u, o)
  <2>1. At(u, t, o) /\ (IsGray(t, o) \/ t.age[o] \in {"touched1", "touched2"} => o \in t.grayagain)
        /\ t.val = u.val /\ t.key = u.key
    BY <1>0, GenLinkIs
  <2> HIDE DEF t
  <2>2. Full(t, o)
    <3>1. Refs(t, o) = Refs(u, o)
      BY <1>1, <2>1, RefsOther
    <3> QED BY <1>0, <1>6, <2>1, <3>1, RefsType, MarksWhite DEF Full, At
  <2>3. Visited(t, o, r) /\ (IsGray(t, o) \/ t.age[o] \in {"touched1", "touched2"} => o \in Pending(t))
    BY <2>1, <2>2 DEF Visited, Pending
  <2>4. Traversed(s, t, X, r)
    BY <1>1, <2>1, <2>3, EndTraversal DEF Tables
  <2> QED BY <2>4 DEF t
<1> QED BY <1>2, <1>3, <1>4, <1>5, <1>6

\* traversestrongtable (lgc.c) visits its table.
LEMMA StrongTable ==
  ASSUME NEW s \in StateType, KindOK, Shape(s), NEW X, NEW r, NEW o \in Objects,
         Trace(s, X \cup {o}, r), IsBlack(s, o), kind[o] \in {"table", "userdata"}
  PROVE  Traversed(s, TraverseStrongTable(s, o), X, r)
<1> DEFINE u == Mark(s, {s.val[o]})
<1>0. {s.val[o]} \in SUBSET OrNull(Objects) /\ s.key[o] = NULL
  <2>1. ShapeOf(s, o)
    BY DEF Shape
  <2>2. s.key[o] = NULL
    BY <2>1 DEF ShapeOf, WeakKinds
  <2>3. s.val[o] \in OrNull(Objects)
    BY DEF StateType, OrNull, Proper
  <2> QED BY <2>2, <2>3
<1>1. Within(s, u, o, X, r) /\ u.val = s.val /\ u.key = s.key /\ (s.val[o] # NULL => ~IsWhite(u, s.val[o]))
  BY <1>0, WithinMark
<1> HIDE DEF u
<1>2. Full(u, o)
  BY <1>0, <1>1, RefsOther DEF Full
<1>3. Traversed(s, GenLink(u, o), X, r)
  BY <1>1, <1>2, EndLink DEF Tables
<1> QED BY <1>3 DEF u, TraverseStrongTable

\* traverseweakvalue visits its table, or links it where it will be cleared.
LEMMA WeakValue ==
  ASSUME NEW s \in StateType, KindOK, Shape(s), NEW X, NEW r, NEW o \in Objects,
         Trace(s, X \cup {o}, r), IsBlack(s, o), kind[o] = "weakvalue"
  PROVE  Traversed(s, TraverseWeakValue(s, o), X, r)
<1> DEFINE u == IF s.val[o] = NULL THEN ClearKey(s, o)
                ELSE Mark(s, {s.key[o]} \cup Strings({s.val[o]}))
<1>0. s.val[o] \in OrNull(Objects) /\ s.key[o] \in OrNull(Objects)
  BY DEF StateType, OrNull, Proper
<1>1. /\ Within(s, u, o, X, r)
      /\ u.key[o] # NULL => ~IsWhite(u, u.key[o])
      /\ u.val[o] # NULL /\ kind[u.val[o]] = "string" => ~IsWhite(u, u.val[o])
  <2>1. CASE s.val[o] = NULL
    BY <2>1, WithinClearKey DEF WeakKinds
  <2>2. CASE s.val[o] # NULL
    <3>1. {s.key[o]} \cup Strings({s.val[o]}) \in SUBSET OrNull(Objects)
      BY <1>0 DEF Strings
    <3> QED BY <2>2, <3>1, WithinMark DEF Strings
  <2> QED BY <2>1, <2>2
<1> HIDE DEF u
<1>2. CASE u.gcstate = "propagate"
  BY <1>1, <1>2, EndLink DEF u, TraverseWeakValue, LinkWeakValue, Tables
<1>3. CASE u.gcstate # "propagate" /\ IsCleared(u, u.val[o])
  BY <1>1, <1>3, EndLink DEF u, TraverseWeakValue, LinkWeakValue, Tables
<1>4. CASE u.gcstate # "propagate" /\ ~IsCleared(u, u.val[o])
  <2>1. Full(u, o)
    BY <1>1, <1>4, RefsOther DEF Full, IsCleared
  <2> QED BY <1>1, <1>4, <2>1, EndLink DEF u, TraverseWeakValue, LinkWeakValue, Tables
<1> QED BY <1>2, <1>3, <1>4

\* traverseephemeron visits its table, or links it where it will be visited or cleared.
LEMMA Ephemeron ==
  ASSUME NEW s \in StateType, KindOK, Shape(s), NEW X, NEW r, NEW o \in Objects,
         Trace(s, X \cup {o}, r), IsBlack(s, o), kind[o] = "ephemeron"
  PROVE  Traversed(s, TraverseEphemeron(s, o), X, r)
<1> DEFINE cleared == s.val[o] # NULL /\ IsCleared(s, s.key[o])
           hasww == cleared /\ IsWhite(s, s.val[o])
           u == IF s.val[o] = NULL THEN ClearKey(s, o)
                ELSE IF cleared THEN s
                ELSE Mark(s, {s.val[o]} \cup Strings({s.key[o]}))
<1>0. s.val[o] \in OrNull(Objects) /\ s.key[o] \in OrNull(Objects)
  BY DEF StateType, OrNull, Proper
<1>1. /\ Within(s, u, o, X, r)
      /\ ~hasww /\ u.val[o] # NULL => ~IsWhite(u, u.val[o])
      /\ ~cleared /\ u.key[o] # NULL => ~IsWhite(u, u.key[o])
  <2>1. CASE s.val[o] = NULL
    BY <2>1, WithinClearKey DEF WeakKinds
  <2>2. CASE cleared
    BY <2>2, WithinSelf
  <2>3. CASE s.val[o] # NULL /\ ~cleared
    <3>1. {s.val[o]} \cup Strings({s.key[o]}) \in SUBSET OrNull(Objects)
      BY <1>0 DEF Strings
    <3>2. /\ Within(s, u, o, X, r) /\ u.val = s.val /\ u.key = s.key
          /\ \A x \in {s.val[o]} \cup Strings({s.key[o]}) : x # NULL => ~IsWhite(u, x)
          /\ \A x \in Objects : ~IsWhite(s, x) => ~IsWhite(u, x)
      BY <2>3, <3>1, WithinMark
    <3>3. s.key[o] # NULL => ~IsWhite(u, s.key[o])
      BY <1>0, <2>3, <3>2 DEF Strings, IsCleared, OrNull
    <3> QED BY <2>3, <3>2, <3>3
  <2> QED BY <2>1, <2>2, <2>3
<1>2. TraverseEphemeron(s, o) = LinkEphemeron(u, o, cleared, hasww)
  BY DEF TraverseEphemeron
<1> HIDE DEF u, cleared, hasww
<1>3. CASE u.gcstate = "propagate"
  BY <1>1, <1>2, <1>3, EndLink DEF LinkEphemeron, Tables
<1>4. CASE u.gcstate # "propagate" /\ hasww
  BY <1>1, <1>2, <1>4, EndLink DEF LinkEphemeron, Tables
<1>5. CASE u.gcstate # "propagate" /\ ~hasww /\ cleared
  BY <1>1, <1>2, <1>5, EndLink DEF LinkEphemeron, Tables
<1>6. CASE u.gcstate # "propagate" /\ ~hasww /\ ~cleared
  <2>1. Full(u, o)
    BY <1>1, <1>6, RefsOther DEF Full
  <2> QED BY <1>1, <1>2, <1>6, <2>1, EndLink DEF LinkEphemeron, Tables
<1> QED BY <1>3, <1>4, <1>5, <1>6

\* A table with weak keys and values is linked where it will be cleared.
LEMMA AllWeak ==
  ASSUME NEW s \in StateType, KindOK, Shape(s), NEW X, NEW r, NEW o \in Objects,
         Trace(s, X \cup {o}, r), IsBlack(s, o), kind[o] = "allweak"
  PROVE  Traversed(s, TraverseAllWeak(s, o), X, r)
<1>1. Within(s, s, o, X, r)
  BY WithinSelf
<1>2. CASE s.gcstate = "propagate"
  BY <1>1, <1>2, EndLink DEF TraverseAllWeak, Tables
<1>3. CASE s.gcstate # "propagate"
  BY <1>1, <1>3, EndLink DEF TraverseAllWeak, Tables
<1> QED BY <1>2, <1>3

\* traverseLclosure marks what the closure refers to.
LEMMA Closure ==
  ASSUME NEW s \in StateType, KindOK, Shape(s), NEW X, NEW r, NEW o \in Objects,
         Trace(s, X \cup {o}, r), IsBlack(s, o), kind[o] = "closure"
  PROVE  Traversed(s, Mark(s, {s.val[o]}), X, r)
<1> DEFINE u == Mark(s, {s.val[o]})
<1>0. {s.val[o]} \in SUBSET OrNull(Objects) /\ s.key[o] = NULL
  <2>1. s.val[o] \in OrNull(Proper)
    BY DEF StateType
  <2>2. s.key[o] = NULL
    BY DEF Shape, ShapeOf, WeakKinds
  <2> QED BY <2>1, <2>2 DEF OrNull, Proper
<1>1. Within(s, u, o, X, r) /\ u.val = s.val /\ u.key = s.key /\ (s.val[o] # NULL => ~IsWhite(u, s.val[o]))
  BY <1>0, WithinMark
<1> HIDE DEF u
<1>2. Full(u, o)
  BY <1>0, <1>1, RefsOther DEF Full
<1>3. u.age[o] \notin {"touched1", "touched2"} /\ ~IsGray(u, o) /\ o \in Marked(u)
  BY <1>1 DEF Within, Trace, TraceOf, Tables, IsBlack, IsGray, Marked
<1>4. At(u, u, o)
  BY <1>1, <1>3, MarksRefl DEF At, Within
<1> QED BY <1>1, <1>2, <1>3, <1>4, EndTraversal DEF Visited, u

\* traversethread marks the stack and the open upvalues, and keeps the thread watched.
LEMMA ThreadVisited ==
  ASSUME NEW s \in StateType, KindOK, Shape(s), NEW X, NEW r, NEW o \in Objects,
         Trace(s, X \cup {o}, r), IsBlack(s, o), kind[o] = "thread",
         s.gcstate \in {"propagate", "atomic"}
  PROVE  Traversed(s, TraverseThread(s, o), X, r)
<1> DEFINE a == IF IsOld(s, o) \/ s.gcstate = "propagate" THEN Link(s, o, "grayagain") ELSE s
           S == Stack(s, o) \cup OpenUpvals(s, o)
           b == Mark(a, S)
           T == IF s.gcstate = "atomic" /\ OpenUpvals(s, o) # {} THEN s.twups \cup {o} ELSE s.twups
           t == TraverseThread(s, o)
<1>0. o \in Marked(s)
  BY DEF Marked, IsBlack
<1>1. At(s, a, o) /\ a.val = s.val /\ a.age = s.age
  <2>1. CASE IsOld(s, o) \/ s.gcstate = "propagate"
    BY <1>0, <2>1, LinkAt
  <2>2. CASE ~(IsOld(s, o) \/ s.gcstate = "propagate")
    <3>1. At(s, s, o)
      BY <1>0, MarksRefl DEF At
    <3> QED BY <2>2, <3>1
  <2> QED BY <2>1, <2>2
<1>2. o \in a.grayagain \/ (~IsOld(s, o) /\ s.gcstate = "atomic" /\ a = s)
  BY <1>0, LinkAt
<1>3. S \in SUBSET OrNull(Objects)
  BY RefsType, RefsThread DEF OrNull
<1> HIDE DEF a, S
<1>4. Marks(s, a) /\ a \in StateType /\ Trace(a, X \cup {o}, r) /\ Shape(a) /\ a.gray = s.gray
  BY <1>1, AtTrace DEF At, Marks
<1>5. /\ Marks(a, b) /\ Shape(b) /\ Trace(b, X \cup {o}, r)
      /\ Same(a, b, {"color", "gray"})
      /\ \A x \in S : x # NULL => ~IsWhite(b, x)
      /\ \A x \in Objects : x \in b.gray => x \in a.gray \/ IsWhite(a, x)
      /\ \A x \in Objects : ~IsWhite(a, x) => b.color[x] = a.color[x]
  BY <1>3, <1>4, MarkTrace
<1>6. /\ a.open = s.open /\ a.gcstate = s.gcstate /\ a.stack = s.stack
      /\ b.open = s.open /\ b.gcstate = s.gcstate /\ b.stack = s.stack
  BY <1>4, <1>5, MarksSame
<1> HIDE DEF b
<1>7. b \in StateType /\ b.twups = a.twups /\ b.val = s.val /\ b.age = s.age /\ b.grayagain = a.grayagain
  BY <1>1, <1>5 DEF Same, Fields, Marks
<1>8. a.twups = s.twups
  <2>1. CASE IsOld(s, o) \/ s.gcstate = "propagate"
    <3>1. a = Link(s, o, "grayagain")
      BY <2>1 DEF a
    <3>2. Same(s, a, {"color", "grayagain"})
      BY <3>1, LinkIs
    <3> QED BY <3>2 DEF Same, Fields
  <2>2. CASE ~(IsOld(s, o) \/ s.gcstate = "propagate")
    BY <2>2 DEF a
  <2> QED BY <2>1, <2>2
<1>9. OpenUpvals(b, o) = OpenUpvals(s, o)
  BY <1>6 DEF OpenUpvals
<1>10. t = [b EXCEPT !.twups = T]
  <2>1. t = RejoinTwups(b, o)
    BY DEF t, TraverseThread, a, b, S
  <2>2. CASE s.gcstate = "atomic" /\ OpenUpvals(s, o) # {}
    BY <1>6, <1>7, <1>8, <1>9, <2>1, <2>2 DEF RejoinTwups
  <2>3. CASE ~(s.gcstate = "atomic" /\ OpenUpvals(s, o) # {})
    BY <1>6, <1>7, <1>8, <1>9, <2>1, <2>3 DEF RejoinTwups, StateType
  <2> QED BY <2>2, <2>3
<1>11. T \in SUBSET Objects /\ s.twups \subseteq T /\ T \subseteq s.twups \cup {o}
  BY DEF StateType
<1>12. s.gcstate = "atomic" /\ (\E u \in Objects : s.open[u] = o) => o \in T
  BY DEF OpenUpvals
<1> HIDE DEF t, T
<1>13. t \in StateType /\ Same(b, t, {"twups"}) /\ t.twups = T
  BY <1>7, <1>10, <1>11 DEF StateType, Same, Fields
<1>14. /\ t.color = b.color /\ t.age = b.age /\ t.val = b.val /\ t.key = b.key /\ t.gray = b.gray
       /\ t.weak = b.weak /\ t.allweak = b.allweak /\ t.ephemeron = b.ephemeron
       /\ t.grayagain = b.grayagain /\ Same(b, t, Changes) /\ t.gcstate = b.gcstate
       /\ t.open = b.open /\ t.stack = b.stack
  BY <1>13 DEF Same, Fields, Changes, MarkLists
<1>15. Marks(b, t)
  BY <1>13, <1>14 DEF Marks
<1>16. At(b, t, o)
  <2>1. o \in Marked(b)
    BY <1>0, <1>4, <1>5, MarksWhite
  <2> QED BY <1>7, <1>8, <1>11, <1>13, <1>14, <1>15, <2>1 DEF At
<1>17. Trace(t, X \cup {o}, r) /\ Shape(t)
  BY <1>5, <1>7, <1>16, AtTrace
<1>18. Full(t, o)
  <2>1. Refs(t, o) = S
    BY <1>6, <1>7, <1>14, RefsThread DEF S, Stack, OpenUpvals
  <2>2. \A x \in S : x # NULL => ~IsWhite(t, x)
    BY <1>5, <1>14 DEF IsWhite
  <2>3. \A x \in Refs(t, o) : x # NULL
    BY <1>13, Null, RefsType
  <2> QED BY <2>1, <2>2, <2>3 DEF Full
<1>19. TraceOf(t, X, r, o)
  <2>1. TraceOf(t, X \cup {o}, r, o)
    BY <1>17 DEF Trace
  <2>2. s.open[o] = NULL
    BY DEF Shape, ShapeOf
  <2>3. CASE o \in a.grayagain
    <3>1. o \in t.grayagain
      BY <1>7, <1>14, <2>3
    <3> QED BY <1>6, <1>14, <1>18, <2>1, <2>2, <3>1 DEF TraceOf, Visited, Pending
  <2>4. CASE ~IsOld(s, o) /\ s.gcstate = "atomic" /\ a = s
    <3>1. ~IsOld(t, o) /\ IsBlack(t, o)
      BY <1>5, <1>7, <1>14, <2>4 DEF IsOld, IsBlack, IsWhite
    <3>2. t.age[o] \notin {"touched1", "touched2"} /\ ~IsGray(t, o)
      BY <3>1 DEF IsOld, IsBlack, IsGray
    <3> QED BY <1>6, <1>14, <1>18, <2>1, <2>2, <2>4, <3>1, <3>2 DEF TraceOf, Visited
  <2> QED BY <1>2, <2>3, <2>4
<1>20. ASSUME NEW u \in Objects, r, t.open[u] = o PROVE o \in t.twups
  <2>1. s.gcstate = "atomic"
    BY <1>20 DEF Trace
  <2> QED BY <1>6, <1>12, <1>13, <1>14, <1>20, <2>1
<1>21. Trace(t, X, r)
  BY <1>13, <1>17, <1>19, <1>20, TraceDone
<1>22. Marks(s, t)
  BY <1>4, <1>5, <1>15, MarksTrans
<1>23. \A x \in Objects : x \in t.gray => x \in s.gray \/ IsWhite(s, x)
  BY <1>4, <1>5, <1>14, MarksWhite
<1> QED BY <1>17, <1>21, <1>22, <1>23 DEF t, Traversed

\* What marking may still colour: each step has less of it.
Work(s) == White(s) \cup s.gray

\* propagatemark keeps the trace, and there is less to do after it.
LEMMA PropagateMarkTrace ==
  ASSUME NEW s \in StateType, KindOK, Shape(s), NEW X, NEW r, Trace(s, X, r), NEW o \in s.gray,
         s.gcstate \in {"propagate", "atomic"}
  PROVE  LET t == PropagateMark(s, o)
         IN  Traversed(s, t, X, r) /\ Work(t) \subseteq Work(s) \ {o}
<1> DEFINE b == [Paint(s, o, "black") EXCEPT !.gray = @ \ {o}]
<1>0. o \in Objects /\ kind[o] \in Kinds \ {"string", "upval", "bareudata"} /\ ~IsWhite(s, o)
  BY DEF Trace, Marked, KindOK, IsWhite
<1>1. /\ Marks(s, b) /\ Shape(b) /\ Trace(b, X \cup {o}, r) /\ IsBlack(b, o)
      /\ b.gray = s.gray \ {o} /\ \A x \in Objects : IsWhite(b, x) <=> IsWhite(s, x)
  BY Begin
<1>2. b \in StateType /\ b.gcstate = s.gcstate
  BY ZenonT(40), <1>1, MarksSame DEF Marks
<1>3. Traversed(b, PropagateMark(s, o), X, r)
  <2> HIDE DEF b
  <2>1. CASE kind[o] \in {"table", "userdata"}
    <3>1. PropagateMark(s, o) = TraverseStrongTable(b, o)
      BY <2>1 DEF PropagateMark, b
    <3> QED BY <1>0, <1>1, <1>2, <2>1, <3>1, StrongTable
  <2>2. CASE kind[o] = "weakvalue"
    <3>1. PropagateMark(s, o) = TraverseWeakValue(b, o)
      BY <2>2 DEF PropagateMark, b
    <3> QED BY <1>0, <1>1, <1>2, <2>2, <3>1, WeakValue
  <2>3. CASE kind[o] = "ephemeron"
    <3>1. PropagateMark(s, o) = TraverseEphemeron(b, o)
      BY <2>3 DEF PropagateMark, b
    <3> QED BY <1>0, <1>1, <1>2, <2>3, <3>1, Ephemeron
  <2>4. CASE kind[o] = "allweak"
    <3>1. PropagateMark(s, o) = TraverseAllWeak(b, o)
      BY <2>4 DEF PropagateMark, b
    <3> QED BY <1>0, <1>1, <1>2, <2>4, <3>1, AllWeak
  <2>5. CASE kind[o] = "closure"
    <3>1. PropagateMark(s, o) = Mark(b, {b.val[o]})
      BY <2>5 DEF PropagateMark, b
    <3> QED BY <1>0, <1>1, <1>2, <2>5, <3>1, Closure
  <2>6. CASE kind[o] = "thread"
    <3>1. PropagateMark(s, o) = TraverseThread(b, o)
      BY <2>6 DEF PropagateMark, b
    <3> QED BY <1>0, <1>1, <1>2, <2>6, <3>1, ThreadVisited
  <2> QED BY <1>0, <2>1, <2>2, <2>3, <2>4, <2>5, <2>6 DEF Kinds
<1> DEFINE t == PropagateMark(s, o)
<1> HIDE DEF t, b
<1>4. /\ Marks(b, t) /\ Shape(t) /\ Trace(t, X, r)
      /\ \A x \in Objects : x \in t.gray => x \in b.gray \/ IsWhite(b, x)
  BY <1>3 DEF t, Traversed
<1>5. Marks(s, t)
  BY <1>1, <1>4, MarksTrans
<1>6. \A x \in Objects : x \in t.gray => (x \in s.gray /\ x # o) \/ IsWhite(s, x)
  BY <1>1, <1>4
<1>7. White(t) \subseteq White(s)
  BY <1>5, MarksWhite DEF White
<1>8. t.gray \subseteq Objects
  BY <1>4 DEF Trace, Marked
<1>9. Work(t) \subseteq Work(s) \ {o}
  BY <1>0, <1>6, <1>7, <1>8 DEF Work, White
<1> QED BY <1>4, <1>5, <1>6, <1>9 DEF t, Traversed

(****************************************************************************)
(* Marking to the end, and convergeephemerons                               *)
(****************************************************************************)

\* The states of a loop of N turns.
TurnsOf(f, N, V, v0, G) ==
  f \in [0..N -> V] /\ f[0] = v0 /\ \A n \in 1..N : f[n] = G[f[n - 1]]

\* A loop of N turns has a sequence of states.
LEMMA Turns ==
  ASSUME NEW N \in Nat, NEW V, NEW v0 \in V, NEW G \in [V -> V]
  PROVE  \E f : TurnsOf(f, N, V, v0, G)
<1> DEFINE H == [p \in (1..N) \X V |-> G[p[2]]]
<1>1. H \in [(1..N) \X V -> V]
  OBVIOUS
<1>2. \E f \in [0..N -> V] : Recursive(f, N, v0, H)
  <2> HIDE DEF H
  <2> QED BY <1>1, RecursiveFunction
<1>3. PICK f \in [0..N -> V] : Recursive(f, N, v0, H)
  BY <1>2
<1>4. ASSUME NEW n \in 1..N PROVE f[n] = G[f[n - 1]]
  <2>1. n - 1 \in 0..N
    OBVIOUS
  <2>2. f[n - 1] \in V
    BY <2>1
  <2>3. <<n, f[n - 1]>> \in (1..N) \X V
    BY <2>2
  <2>4. f[n] = H[<<n, f[n - 1]>>]
    BY <1>3 DEF Recursive
  <2> QED BY <2>3, <2>4
<1>5. f[0] = v0
  BY <1>3 DEF Recursive
<1> QED BY <1>4, <1>5 DEF TurnsOf

\* What holds at first and after each turn holds always.
LEMMA TurnsStay ==
  ASSUME NEW N \in Nat, NEW V, NEW h, h[0] \in V, \A n \in 1..N : h[n - 1] \in V => h[n] \in V
  PROVE  \A n \in 0..N : h[n] \in V
<1> DEFINE S == { n \in 0..N : h[n] \in V }
<1>1. 0 \in S
  OBVIOUS
<1>2. ASSUME NEW n \in 0..(N - 1), n \in S PROVE n + 1 \in S
  <2>1. n + 1 \in 1..N /\ (n + 1) - 1 = n
    OBVIOUS
  <2> QED BY <1>2, <2>1
<1> HIDE DEF S
<1>3. 0..N \subseteq S
  BY <1>1, <1>2, BoundedInduction
<1> QED BY <1>3 DEF S

(* A number that starts at most N and falls at each turn that is not the last.  *)
LEMMA TurnsEnd ==
  ASSUME NEW N \in Nat, NEW w \in [0..N -> Nat], NEW d \in [0..N -> BOOLEAN], w[0] <= N,
         \A n \in 1..N : d[n - 1] \/ w[n] < w[n - 1],
         \A n \in 1..N : d[n - 1] => d[n],
         \A n \in 0..N : w[n] = 0 => d[n]
  PROVE  d[N]
<1> DEFINE S == { n \in 0..N : d[n] \/ w[n] + n <= N }
<1>1. 0 \in S
  OBVIOUS
<1>2. ASSUME NEW n \in 0..(N - 1), n \in S PROVE n + 1 \in S
  <2>1. n + 1 \in 1..N /\ (n + 1) - 1 = n /\ n \in 0..N
    OBVIOUS
  <2>2. w[n] \in Nat /\ w[n + 1] \in Nat
    BY <2>1
  <2>3. CASE d[n]
    BY <2>1, <2>3
  <2>4. CASE ~d[n]
    <3>1. w[n] + n <= N
      BY <1>2, <2>4
    <3>2. w[n + 1] < w[n]
      BY <2>1, <2>4
    <3> QED BY <2>1, <2>2, <3>1, <3>2
  <2> QED BY <2>3, <2>4
<1> HIDE DEF S
<1>3. 0..N \subseteq S
  BY <1>1, <1>2, BoundedInduction
<1>4. N \in S
  BY <1>3
<1>41. d[N] \/ w[N] + N <= N
  BY <1>4 DEF S
<1>5. w[N] \in Nat
  OBVIOUS
<1>6. d[N] \/ w[N] = 0
  BY <1>41, <1>5
<1> QED BY <1>6

\* No traversal at all.
LEMMA TraversedRefl ==
  ASSUME NEW s \in StateType, Shape(s), NEW X, NEW r, Trace(s, X, r)
  PROVE  Traversed(s, s, X, r)
  BY MarksRefl DEF Traversed

\* Traversals compose.
LEMMA TraversedTrans ==
  ASSUME NEW s \in StateType, NEW t, NEW u, NEW X, NEW Y, NEW r, Traversed(s, t, X, r),
         Traversed(t, u, Y, r)
  PROVE  Traversed(s, u, Y, r)
<1>1. Marks(s, u)
  BY MarksTrans DEF Traversed
<1>2. \A x \in Objects : x \in u.gray => x \in s.gray \/ IsWhite(s, x)
  BY MarksWhite DEF Traversed
<1> QED BY <1>1, <1>2 DEF Traversed

\* There is no more to do than there are objects.
LEMMA WorkFinite ==
  ASSUME NEW s \in StateType
  PROVE  /\ IsFiniteSet(Work(s)) /\ Cardinality(Work(s)) \in Nat
         /\ Cardinality(Work(s)) <= Cardinality(Objects)
<1>1. Work(s) \subseteq Objects
  BY DEF Work, White, StateType
<1>2. IsFiniteSet(Work(s)) /\ Cardinality(Work(s)) <= Cardinality(Objects)
  BY <1>1, Null, FS_Subset
<1> QED BY <1>2, FS_CardinalityType

\* A set without one of its elements is smaller.
LEMMA FewerWork ==
  ASSUME NEW A, NEW B, IsFiniteSet(A), NEW o \in A, B \subseteq A \ {o}
  PROVE  Cardinality(B) < Cardinality(A)
<1>1. IsFiniteSet(A \ {o}) /\ Cardinality(A \ {o}) = Cardinality(A) - 1
  BY FS_RemoveElement
<1>2. IsFiniteSet(B) /\ Cardinality(B) <= Cardinality(A \ {o})
  BY <1>1, FS_Subset
<1>3. Cardinality(A) \in Nat /\ Cardinality(B) \in Nat
  BY <1>2, FS_CardinalityType
<1> QED BY <1>1, <1>2, <1>3

\* propagateall empties the gray list and keeps the trace.
LEMMA PropagateAllTrace ==
  ASSUME NEW s \in StateType, KindOK, Shape(s), NEW X, NEW r, Trace(s, X, r),
         s.gcstate \in {"propagate", "atomic"}
  PROVE  LET t == PropagateAll(s) IN Traversed(s, t, X, r) /\ t.gray = {}
<1> DEFINE N == Cardinality(Objects)
           Step(t) == IF t.gray = {} THEN t ELSE PropagateMark(t, CHOOSE o \in t.gray : TRUE)
           V == { t \in StateType : Traversed(s, t, X, r) }
           G == [t \in V |-> Step(t)]
           Rec(f) == [n \in 0..N |-> IF n = 0 THEN s ELSE Step(f[n - 1])]
<1>0. N \in Nat
  BY Null
<1>1. s \in V
  BY TraversedRefl
<1>2. ASSUME NEW t \in V
      PROVE  Step(t) \in V /\ (t.gray = {} \/ Cardinality(Work(Step(t))) < Cardinality(Work(t)))
  <2>1. CASE t.gray = {}
    BY <1>2, <2>1
  <2>2. CASE t.gray # {}
    <3> DEFINE o == CHOOSE x \in t.gray : TRUE
               u == PropagateMark(t, o)
    <3>1. o \in t.gray
      BY <2>2
    <3>2. Step(t) = u
      BY <2>2
    <3> HIDE DEF o, Step
    <3>3. Marks(s, t) /\ Shape(t) /\ Trace(t, X, r) /\ t \in StateType
      BY DEF Traversed
    <3>4. t.gcstate \in {"propagate", "atomic"}
      BY <3>3, MarksSame
    <3>5. Traversed(t, u, X, r) /\ Work(u) \subseteq Work(t) \ {o}
      BY <3>1, <3>3, <3>4, PropagateMarkTrace
    <3> HIDE DEF u
    <3>6. Traversed(s, u, X, r) /\ u \in StateType
      BY <3>5, TraversedTrans DEF Traversed, Marks
    <3>7. o \in Work(t)
      BY <3>1 DEF Work
    <3>8. Cardinality(Work(u)) < Cardinality(Work(t))
      BY <3>3, <3>5, <3>7, WorkFinite, FewerWork
    <3> QED BY <3>2, <3>6, <3>8
  <2> QED BY <2>1, <2>2
<1>3. G \in [V -> V]
  BY <1>2
<1>4. PICK f : TurnsOf(f, N, V, s, G)
  <2> HIDE DEF G, V, N
  <2> QED BY <1>0, <1>1, <1>3, Turns
<1>5. f = Rec(f)
  <2> HIDE DEF Step, N, V
  <2>1. f \in [0..N -> V] /\ f[0] = s /\ \A n \in 1..N : f[n] = G[f[n - 1]]
    BY <1>4 DEF TurnsOf
  <2>2. ASSUME NEW n \in 1..N PROVE f[n] = Step(f[n - 1])
    <3>1. f[n - 1] \in V
      BY <1>0, <2>1
    <3> QED BY <2>1, <3>1
  <2>3. \A n \in 0..N : f[n] = IF n = 0 THEN s ELSE Step(f[n - 1])
    BY <1>0, <2>1, <2>2
  <2> QED BY <2>1, <2>3
<1> DEFINE g0 == CHOOSE h : h = Rec(h)
<1>6. g0 = Rec(g0)
  <2> HIDE DEF Rec
  <2> QED BY <1>5, Zenon
<1>7. PropagateAll(s) = g0[N]
  BY Zenon DEF PropagateAll
<1> HIDE DEF g0, N, Step
<1>8. g0[0] = s /\ \A n \in 1..N : g0[n] = Step(g0[n - 1])
  BY <1>0, <1>6
<1>9. \A n \in 0..N : g0[n] \in V
  <2> HIDE DEF V
  <2>1. \A n \in 1..N : g0[n - 1] \in V => g0[n] \in V
    BY <1>2, <1>8
  <2> QED BY <1>0, <1>1, <1>8, <2>1, TurnsStay
<1> DEFINE w == [n \in 0..N |-> Cardinality(Work(g0[n]))]
           d == [n \in 0..N |-> g0[n].gray = {}]
<1>10. w \in [0..N -> Nat] /\ d \in [0..N -> BOOLEAN]
  BY <1>9, WorkFinite
<1>11. w[0] <= N
  BY <1>0, <1>8, WorkFinite DEF N
<1>12. ASSUME NEW n \in 1..N PROVE (d[n - 1] \/ w[n] < w[n - 1]) /\ (d[n - 1] => d[n])
  <2>1. n - 1 \in 0..N /\ n \in 0..N /\ g0[n] = Step(g0[n - 1]) /\ g0[n - 1] \in V
    BY <1>0, <1>8, <1>9
  <2>2. g0[n - 1].gray = {} \/ Cardinality(Work(g0[n])) < Cardinality(Work(g0[n - 1]))
    BY <1>2, <2>1
  <2>3. g0[n - 1].gray = {} => g0[n] = g0[n - 1]
    BY <2>1 DEF Step
  <2> QED BY <2>1, <2>2, <2>3
<1>13. ASSUME NEW n \in 0..N, w[n] = 0 PROVE d[n]
  <2>1. g0[n] \in StateType
    BY <1>9
  <2>2. Work(g0[n]) = {}
    BY <1>13, <2>1, WorkFinite, FS_EmptySet
  <2> QED BY <2>2 DEF Work
<1>14. d[N]
  <2> HIDE DEF w, d
  <2> QED BY <1>0, <1>10, <1>11, <1>12, <1>13, TurnsEnd
<1>15. g0[N] \in V /\ g0[N].gray = {}
  <2>1. N \in 0..N
    BY <1>0
  <2>2. d[N] = (g0[N].gray = {})
    BY <2>1
  <2> HIDE DEF d, V
  <2> QED BY <1>9, <1>14, <2>1, <2>2
<1> QED BY <1>7, <1>15

\* Marking strings leaves nothing to visit.
LEMMA MarkStrings ==
  ASSUME NEW s \in StateType, KindOK, Shape(s), NEW S \in SUBSET OrNull(Objects),
         \A x \in S : x # NULL /\ IsWhite(s, x) => kind[x] = "string"
  PROVE  LET t == Mark(s, S)
         IN  /\ Marks(s, t) /\ Shape(t) /\ Same(s, t, {"color", "gray"}) /\ t.gray = s.gray
             /\ \A x \in Objects : kind[x] # "string" => t.color[x] = s.color[x]
<1> DEFINE W == WhitesOf(s, S)
           t == Mark(s, S)
<1>1. W \in SUBSET InUse(s)
  BY MarkedWhite, Null DEF WhitesOf, OrNull
<1>2. t = ReallyMark(s, W)
  BY DEF Mark, WhitesOf
<1>3. Struck(s, W) = W /\ \A x \in W : kind[x] = "string"
  BY DEF Struck, HeldBy, WhitesOf
<1> HIDE DEF W
<1>4. /\ Marks(s, t) /\ Shape(t)
      /\ Same(s, t, {"color", "gray"})
      /\ \A o \in Objects : o \notin Struck(s, W) => t.color[o] = s.color[o]
      /\ t.gray = s.gray \cup { o \in Struck(s, W) : kind[o] \notin {"string", "upval", "bareudata"} }
  BY <1>1, <1>2, ReallyMarkMarks
<1> HIDE DEF t
<1>5. t.gray = s.gray
  BY <1>3, <1>4
<1> QED BY <1>3, <1>4, <1>5 DEF t

\* LinkEphemeron is a change at its table.
LEMMA LinkEphemeronAt ==
  ASSUME NEW u \in StateType, NEW o \in Objects, IsBlack(u, o), kind[o] = "ephemeron",
         NEW cleared \in BOOLEAN, NEW hasww \in BOOLEAN
  PROVE  LET t == LinkEphemeron(u, o, cleared, hasww)
         IN  /\ At(u, t, o) /\ t.key = u.key
             /\ o \in t.ephemeron => o \in u.ephemeron \/ hasww
<1>0. o \in Marked(u) /\ kind[o] # "upval"
  BY DEF Marked, IsBlack
<1> DEFINE t == LinkEphemeron(u, o, cleared, hasww)
<1>1. CASE u.gcstate = "propagate"
  <2>1. t = Link(u, o, "grayagain")
    BY <1>1 DEF LinkEphemeron
  <2> HIDE DEF t
  <2>2. At(u, t, o) /\ t.key = u.key
    BY <1>0, <2>1, LinkAt
  <2>4. Same(u, t, {"color", "grayagain"})
    BY <2>1, LinkIs
  <2>3. t.ephemeron = u.ephemeron
    BY <2>4 DEF Same, Fields
  <2> QED BY <2>2, <2>3 DEF t
<1>2. CASE u.gcstate # "propagate" /\ hasww
  <2>1. t = Link(u, o, "ephemeron")
    BY <1>2 DEF LinkEphemeron
  <2>2. At(u, t, o) /\ t.key = u.key
    BY <1>0, <2>1, LinkAt
  <2> QED BY <1>2, <2>2
<1>3. CASE u.gcstate # "propagate" /\ ~hasww /\ cleared
  <2>1. t = Link(u, o, "allweak")
    BY <1>3 DEF LinkEphemeron
  <2> HIDE DEF t
  <2>2. At(u, t, o) /\ t.key = u.key
    BY <1>0, <2>1, LinkAt DEF WeakKinds
  <2>4. Same(u, t, {"color", "allweak"})
    BY <2>1, LinkIs
  <2>3. t.ephemeron = u.ephemeron
    BY <2>4 DEF Same, Fields
  <2> QED BY <2>2, <2>3 DEF t
<1>4. CASE u.gcstate # "propagate" /\ ~hasww /\ ~cleared
  <2>1. t = GenLink(u, o)
    BY <1>4 DEF LinkEphemeron
  <2>2. At(u, t, o) /\ t.key = u.key
    BY <1>0, <2>1, GenLinkIs DEF Tables
  <2>3. t.ephemeron = u.ephemeron
    <3>1. CASE u.age[o] = "touched1"
      <4>0. t = Link(u, o, "grayagain")
        BY <2>1, <3>1 DEF GenLink
      <4> HIDE DEF t
      <4>1. Same(u, t, {"color", "grayagain"})
        BY <4>0, LinkIs
      <4> QED BY <4>1 DEF Same, Fields
    <3>2. CASE u.age[o] # "touched1"
      BY <2>1, <3>2 DEF GenLink, SetAge, StateType
    <3> QED BY <3>1, <3>2
  <2> QED BY <2>2, <2>3
<1> QED BY <1>1, <1>2, <1>3, <1>4

\* A traversal of an ephemeron table that marks no value changes no colour but of strings.
LEMMA EphemeronEffect ==
  ASSUME NEW s \in StateType, KindOK, Shape(s), NEW o \in Objects, IsBlack(s, o),
         kind[o] = "ephemeron", NEW X, NEW r, Trace(s, X \cup {o}, r)
  PROVE  LET t == TraverseEphemeron(s, o)
         IN  /\ EphemeronMarks(s, o) => s.val[o] \in Objects /\ ~IsWhite(t, s.val[o])
             /\ ~EphemeronMarks(s, o) =>
                  /\ t.gray = s.gray
                  /\ \A x \in Objects : kind[x] # "string" => (IsWhite(s, x) <=> IsWhite(t, x))
                  /\ t.ephemeron \subseteq s.ephemeron \cup {o}
                  /\ o \in t.ephemeron => o \in s.ephemeron \/ IsCleared(t, t.key[o])
                  /\ \A x \in Objects : x # o => t.key[x] = s.key[x]
<1> DEFINE cleared == s.val[o] # NULL /\ IsCleared(s, s.key[o])
           hasww == cleared /\ IsWhite(s, s.val[o])
           u == IF s.val[o] = NULL THEN ClearKey(s, o)
                ELSE IF cleared THEN s
                ELSE Mark(s, {s.val[o]} \cup Strings({s.key[o]}))
           t == TraverseEphemeron(s, o)
<1>0. s.val[o] \in OrNull(Objects) /\ s.key[o] \in OrNull(Objects)
  BY DEF StateType, OrNull, Proper
<1>1. t = LinkEphemeron(u, o, cleared, hasww) /\ cleared \in BOOLEAN /\ hasww \in BOOLEAN
  BY DEF TraverseEphemeron
<1>2. /\ Within(s, u, o, X, r)
      /\ EphemeronMarks(s, o) => s.val[o] \in Objects /\ ~IsWhite(u, s.val[o])
      /\ ~EphemeronMarks(s, o) =>
           /\ u.gray = s.gray
           /\ \A x \in Objects : kind[x] # "string" => (IsWhite(s, x) <=> IsWhite(u, x))
           /\ u.ephemeron = s.ephemeron
           /\ \A x \in Objects : x # o => u.key[x] = s.key[x]
      /\ hasww => u = s
  <2>1. CASE s.val[o] = NULL
    <3>1. u = ClearKey(s, o)
      BY <2>1
    <3>2. /\ Within(s, u, o, X, r) /\ u.color = s.color
      BY <2>1, <3>1, WithinClearKey DEF WeakKinds
    <3>3. u.gray = s.gray /\ u.ephemeron = s.ephemeron /\ u.key = [s.key EXCEPT ![o] = NULL]
      BY <3>1 DEF ClearKey, StateType
    <3>4. ~EphemeronMarks(s, o) /\ ~hasww
      BY <2>1 DEF EphemeronMarks
    <3> QED BY <3>2, <3>3, <3>4 DEF IsWhite, StateType
  <2>2. CASE cleared
    <3>1. u = s /\ ~EphemeronMarks(s, o)
      BY <2>2 DEF EphemeronMarks
    <3> QED BY <3>1, WithinSelf
  <2>3. CASE s.val[o] # NULL /\ ~cleared
    <3>0. {s.val[o]} \cup Strings({s.key[o]}) \in SUBSET OrNull(Objects)
      BY <1>0 DEF Strings
    <3>1. u = Mark(s, {s.val[o]} \cup Strings({s.key[o]})) /\ s.val[o] \in Objects
      BY <1>0, <2>3 DEF OrNull
    <3>2. /\ Within(s, u, o, X, r) /\ u.val = s.val /\ u.key = s.key
          /\ \A x \in {s.val[o]} \cup Strings({s.key[o]}) : x # NULL => ~IsWhite(u, x)
      BY <3>0, <3>1, WithinMark
    <3>3. ~IsWhite(u, s.val[o])
      BY <2>3, <3>2
    <3>4. ASSUME ~EphemeronMarks(s, o)
          PROVE  /\ u.gray = s.gray /\ u.ephemeron = s.ephemeron
                 /\ \A x \in Objects : kind[x] # "string" => (IsWhite(s, x) <=> IsWhite(u, x))
      <4>1. ~IsWhite(s, s.val[o])
        BY <2>3, <3>4 DEF EphemeronMarks
      <4>2. \A x \in {s.val[o]} \cup Strings({s.key[o]}) : x # NULL /\ IsWhite(s, x) => kind[x] = "string"
        BY <4>1 DEF Strings
      <4>3. /\ Same(s, u, {"color", "gray"}) /\ u.gray = s.gray
            /\ \A x \in Objects : kind[x] # "string" => u.color[x] = s.color[x]
        BY <3>0, <3>1, <4>2, MarkStrings
      <4> HIDE DEF u
      <4>4. u.ephemeron = s.ephemeron
        BY <4>3 DEF Same, Fields
      <4> QED BY <4>3, <4>4 DEF IsWhite
    <3> QED BY <2>3, <3>1, <3>2, <3>3, <3>4
  <2> QED BY <2>1, <2>2, <2>3
<1>3. hasww => IsCleared(s, s.key[o])
  OBVIOUS
<1> HIDE DEF u, cleared, hasww, t
<1>4. u \in StateType /\ IsBlack(u, o)
  BY <1>2 DEF Within
<1>5. /\ At(u, t, o) /\ t.key = u.key
      /\ o \in t.ephemeron => o \in u.ephemeron \/ hasww
  BY <1>1, <1>4, LinkEphemeronAt
<1>6. \A x \in Objects : IsWhite(t, x) <=> IsWhite(u, x)
  <2>1. Marks(u, t)
    BY <1>5 DEF At
  <2>2. ~IsWhite(u, o)
    BY <1>4 DEF IsBlack, IsWhite
  <2>3. ~IsWhite(t, o)
    BY <2>1, <2>2, MarksWhite
  <2> QED BY <1>5, <2>2, <2>3 DEF At, IsWhite
<1>7. ASSUME ~EphemeronMarks(s, o), o \in t.ephemeron, o \notin s.ephemeron
      PROVE IsCleared(t, t.key[o])
  <2>1. hasww /\ u = s
    BY <1>2, <1>5, <1>7
  <2>2. IsCleared(s, s.key[o]) /\ t.key = s.key
    BY <1>3, <1>5, <2>1
  <2> QED BY <1>0, <1>6, <2>1, <2>2 DEF IsCleared, OrNull
<1>8. t.gray = u.gray /\ t.ephemeron \subseteq u.ephemeron \cup {o}
  BY <1>5 DEF At
<1> QED BY <1>2, <1>5, <1>6, <1>7, <1>8 DEF t

\* Painting a marked table black is a change at it.
LEMMA PaintBlackAt ==
  ASSUME NEW s \in StateType, NEW h \in Objects, h \in Marked(s), kind[h] \in Tables
  PROVE  LET t == Paint(s, h, "black")
         IN  /\ t \in StateType /\ At(s, t, h) /\ IsBlack(t, h) /\ Same(s, t, {"color"})
             /\ \A x \in Objects : IsWhite(t, x) <=> IsWhite(s, x)
<1> DEFINE C == [s.color EXCEPT ![h] = "black"]
           t == Paint(s, h, "black")
<1>1. t = [s EXCEPT !.color = C] /\ C \in [Objects -> Colors]
  BY DEF Paint, StateType, Colors
<1> HIDE DEF C
<1>2. t \in StateType /\ Same(s, t, {"color"}) /\ t.color = C
  BY ZenonT(40), <1>1 DEF StateType, Same, Fields
<1> HIDE DEF t
<1>3. /\ t.age = s.age /\ t.val = s.val /\ t.key = s.key /\ t.gray = s.gray
      /\ t.weak = s.weak /\ t.allweak = s.allweak /\ t.ephemeron = s.ephemeron
      /\ t.grayagain = s.grayagain /\ t.twups = s.twups /\ Same(s, t, Changes)
  BY <1>2 DEF Same, Fields, Changes, MarkLists
<1>4. t.color = [s.color EXCEPT ![h] = "black"] /\ s.color \in [Objects -> Colors]
  BY <1>2 DEF C, StateType
<1>5. Marks(s, t)
  BY <1>2, <1>3, <1>4 DEF Marks, Marked, Free
<1>6. At(s, t, h)
  BY <1>3, <1>4, <1>5 DEF At, Tables
<1> QED BY <1>2, <1>4, <1>6 DEF t, IsBlack, IsWhite, Marked

Rounds == [g : StateType, todo : SUBSET Objects, changed : BOOLEAN]

\* A round of convergeephemerons from s, when st is reached.
Round(s, st, X, r) ==
  /\ Marks(s, st.g) /\ Shape(st.g) /\ Trace(st.g, X \cup st.todo, r) /\ st.g.gray = {}
  /\ \A x \in st.todo : kind[x] = "ephemeron"
  /\ st.changed => \E x \in Objects : IsWhite(s, x) /\ ~IsWhite(st.g, x)
  /\ ~st.changed => /\ st.g.ephemeron \cap st.todo = {}
                    /\ \A x \in st.g.ephemeron : IsCleared(st.g, st.g.key[x])

\* convergeephemerons starts a round with every ephemeron table to visit.
LEMMA RoundBegins ==
  ASSUME NEW s \in StateType, KindOK, Shape(s), NEW X, NEW r, Trace(s, X, r), s.gray = {}
  PROVE  LET st == [g |-> [s EXCEPT !.ephemeron = {}], todo |-> s.ephemeron, changed |-> FALSE]
         IN  st \in Rounds /\ Round(s, st, X, r)
<1> DEFINE t == [s EXCEPT !.ephemeron = {}]
           T == s.ephemeron
<1>1. t \in StateType /\ Same(s, t, {"ephemeron"}) /\ t.ephemeron = {} /\ T \in SUBSET Objects
  BY DEF StateType, Same, Fields
<1> HIDE DEF t
<1>2. /\ t.color = s.color /\ t.age = s.age /\ t.val = s.val /\ t.key = s.key /\ t.gray = s.gray
      /\ t.weak = s.weak /\ t.allweak = s.allweak
      /\ t.grayagain = s.grayagain /\ t.twups = s.twups /\ Same(s, t, Changes)
      /\ t.open = s.open /\ t.gcstate = s.gcstate /\ t.stack = s.stack
  BY <1>1 DEF Same, Fields, Changes, MarkLists
<1>3. Marks(s, t)
  BY <1>1, <1>2 DEF Marks
<1>4. Shape(t)
  BY <1>2 DEF Shape, ShapeOf, InUse
<1>5. ASSUME NEW o \in Objects PROVE TraceOf(t, X \cup T, r, o)
  <2>1. TraceOf(s, X, r, o)
    BY DEF Trace
  <2>2. Refs(t, o) = Refs(s, o)
    BY <1>2 DEF Refs, Stack, OpenUpvals, UpvalValue
  <2>3. Visited(s, o, r) => Visited(t, o, r) \/ o \in T
    BY <1>2, <2>2 DEF Visited, Full, IsWhite
  <2>4. Pending(s) = Pending(t) \cup T
    BY <1>1, <1>2 DEF Pending
  <2> QED BY <1>2, <2>1, <2>3, <2>4 DEF TraceOf, Later, Marked, IsGray, IsBlack, IsWhite, IsOld
<1>6. Trace(t, X \cup T, r)
  <2>1. Pending(s) = Pending(t) \cup T /\ Marked(t) = Marked(s)
    BY <1>1, <1>2 DEF Pending, Marked
  <2> HIDE DEF T
  <2> QED BY <1>1, <1>2, <1>5, <2>1 DEF Trace
<1>7. \A x \in T : kind[x] = "ephemeron"
  BY DEF Trace
<1> HIDE DEF T
<1> DEFINE st == [g |-> t, todo |-> T, changed |-> FALSE]
<1>8. st \in Rounds /\ st.g = t /\ st.todo = T /\ st.changed = FALSE
  BY <1>1 DEF Rounds
<1> HIDE DEF st
<1>9. Round(s, st, X, r)
  BY <1>1, <1>2, <1>3, <1>4, <1>6, <1>7, <1>8 DEF Round
<1> QED BY <1>8, <1>9 DEF st, t, T

\* A visit in a round keeps what is known of the round.
LEMMA RoundNext ==
  ASSUME NEW s \in StateType, KindOK, NEW X, NEW r, s.gcstate = "atomic",
         NEW st \in Rounds, Round(s, st, X, r), st.todo # {}
  PROVE  LET nt == VisitNext(st)
         IN  nt \in Rounds /\ Round(s, nt, X, r) /\ \E h \in st.todo : nt.todo = st.todo \ {h}
<1> DEFINE p == st.g
           h == CHOOSE x \in st.todo : TRUE
           b == Paint(p, h, "black")
           t == TraverseEphemeron(b, h)
           marks == EphemeronMarks(p, h)
           u == IF marks THEN PropagateAll(t) ELSE t
           T == st.todo \ {h}
           Y == X \cup T
           nt == [g |-> u, todo |-> T, changed |-> st.changed \/ marks]
<1>1. h \in st.todo
  OBVIOUS
<1>2. VisitNext(st) = nt
  BY DEF VisitNext, VisitAgain
<1>3. /\ p \in StateType /\ T \in SUBSET Objects /\ h \in Objects
      /\ st.changed \in BOOLEAN /\ X \cup st.todo = Y \cup {h}
  BY <1>1 DEF Rounds
<1> HIDE DEF h
<1>4. /\ Marks(s, p) /\ Shape(p) /\ Trace(p, Y \cup {h}, r) /\ p.gray = {} /\ kind[h] = "ephemeron"
  BY <1>1, <1>3 DEF Round
<1>5. h \in Marked(p)
  BY <1>4 DEF Trace
<1>6. /\ b \in StateType /\ At(p, b, h) /\ IsBlack(b, h) /\ Same(p, b, {"color"})
      /\ \A x \in Objects : IsWhite(b, x) <=> IsWhite(p, x)
  BY <1>3, <1>4, <1>5, PaintBlackAt DEF Tables
<1> HIDE DEF p, b, T
<1>7. b.val = p.val /\ b.key = p.key /\ b.gray = {} /\ b.ephemeron = p.ephemeron
  BY <1>4, <1>6 DEF Same, Fields
<1>8. Trace(b, Y \cup {h}, r) /\ Shape(b) /\ Marks(p, b)
  <2>1. Trace(b, Y \cup {h}, r) /\ Shape(b)
    <3> HIDE DEF Y
    <3> QED BY <1>3, <1>4, <1>6, AtTrace
  <2> QED BY <1>6, <2>1 DEF At
<1> HIDE DEF Y
<1>9. Traversed(b, t, Y, r)
  BY <1>3, <1>4, <1>6, <1>8, Ephemeron
<1>10. p.val[h] \in OrNull(Objects) /\ p.key[h] \in OrNull(Objects)
  BY <1>3 DEF StateType, OrNull, Proper
<1>11. EphemeronMarks(b, h) <=> marks
  BY <1>6, <1>7, <1>10 DEF EphemeronMarks, IsCleared, OrNull
<1>12. /\ EphemeronMarks(b, h) => b.val[h] \in Objects /\ ~IsWhite(t, b.val[h])
       /\ ~EphemeronMarks(b, h) =>
            /\ t.gray = b.gray
            /\ \A x \in Objects : kind[x] # "string" => (IsWhite(b, x) <=> IsWhite(t, x))
            /\ t.ephemeron \subseteq b.ephemeron \cup {h}
            /\ h \in t.ephemeron => h \in b.ephemeron \/ IsCleared(t, t.key[h])
            /\ \A x \in Objects : x # h => t.key[x] = b.key[x]
  BY <1>3, <1>4, <1>6, <1>8, EphemeronEffect
<1> HIDE DEF t
<1>13. /\ Marks(b, t) /\ Shape(t) /\ Trace(t, Y, r) /\ t \in StateType /\ t.gcstate = "atomic"
  BY <1>4, <1>8, <1>9, MarksSame DEF Traversed, Marks
<1>14. /\ Marks(t, u) /\ Shape(u) /\ Trace(u, Y, r) /\ u \in StateType /\ u.gray = {}
       /\ ~marks => u = t
  <2>1. CASE marks
    <3>1. u = PropagateAll(t)
      BY <2>1
    <3> HIDE DEF u
    <3> QED BY <1>4, <1>13, <2>1, <3>1, PropagateAllTrace DEF Traversed, Marks
  <2>2. CASE ~marks
    <3>1. u = t
      BY <2>2
    <3> HIDE DEF u
    <3> QED BY <1>7, <1>11, <1>12, <1>13, <2>2, <3>1, MarksRefl
  <2> QED BY <2>1, <2>2
<1> HIDE DEF u
<1>15. Marks(s, t) /\ Marks(s, u) /\ Marks(p, u) /\ Marks(p, t)
  BY <1>4, <1>8, <1>13, <1>14, MarksTrans
<1>16. ASSUME marks PROVE \E x \in Objects : IsWhite(s, x) /\ ~IsWhite(u, x)
  <2>1. p.val[h] \in Objects /\ IsWhite(p, p.val[h])
    BY <1>10, <1>16, <1>7, <1>11, <1>12 DEF EphemeronMarks
  <2>2. ~IsWhite(t, p.val[h])
    BY <1>7, <1>11, <1>12, <1>16
  <2>3. IsWhite(s, p.val[h]) /\ ~IsWhite(u, p.val[h])
    BY <1>4, <1>14, <2>1, <2>2, MarksWhite
  <2> QED BY <2>1, <2>3
<1>17. ASSUME st.changed PROVE \E x \in Objects : IsWhite(s, x) /\ ~IsWhite(u, x)
  <2>1. PICK x \in Objects : IsWhite(s, x) /\ ~IsWhite(p, x)
    BY <1>17 DEF Round, p
  <2>2. ~IsWhite(u, x)
    BY <1>15, <2>1, MarksWhite
  <2> QED BY <2>1, <2>2
<1>18. ASSUME ~st.changed, ~marks
       PROVE  u.ephemeron \cap T = {} /\ \A x \in u.ephemeron : IsCleared(u, u.key[x])
  <2>1. p.ephemeron \cap st.todo = {} /\ \A x \in p.ephemeron : IsCleared(p, p.key[x])
    BY <1>18 DEF Round, p
  <2>2. u = t /\ ~EphemeronMarks(b, h)
    BY <1>11, <1>14, <1>18
  <2>3. t.ephemeron \subseteq p.ephemeron \cup {h} /\ h \notin p.ephemeron
    BY <1>1, <1>7, <1>12, <2>1, <2>2
  <2>4. ASSUME NEW x \in t.ephemeron PROVE IsCleared(t, t.key[x])
    <3>1. CASE x = h
      BY <1>7, <1>12, <2>2, <2>3, <2>4, <3>1
    <3>2. CASE x # h
      <4>1. x \in p.ephemeron /\ x \in Objects
        BY <1>3, <2>3, <2>4, <3>2 DEF StateType
      <4>2. IsCleared(p, p.key[x]) /\ t.key[x] = p.key[x]
        BY <1>7, <1>12, <2>1, <2>2, <3>2, <4>1
      <4>3. p.key[x] \in OrNull(Objects)
        BY <1>3, <4>1 DEF StateType, OrNull, Proper
      <4> QED BY <1>6, <1>12, <2>2, <4>2, <4>3 DEF IsCleared, OrNull
    <3> QED BY <3>1, <3>2
  <2> QED BY <1>1, <2>1, <2>2, <2>3, <2>4 DEF T
<1>19. \A x \in T : kind[x] = "ephemeron"
  BY DEF T, Round
<1> HIDE DEF marks
<1>20. /\ nt.g = u /\ nt.todo = T /\ nt.changed = (st.changed \/ marks)
       /\ nt \in Rounds
  <2>1. marks \in BOOLEAN
    BY DEF marks, EphemeronMarks
  <2> QED BY <1>3, <1>14, <2>1 DEF Rounds
<1> HIDE DEF nt
<1>21. Round(s, nt, X, r)
  BY <1>14, <1>15, <1>16, <1>17, <1>18, <1>19, <1>20 DEF Round, Y
<1> QED BY <1>1, <1>2, <1>20, <1>21 DEF T

\* A round visits all the tables of the list.
LEMMA ConvergeOnceRound ==
  ASSUME NEW s \in StateType, KindOK, Shape(s), NEW X, NEW r, Trace(s, X, r),
         s.gcstate = "atomic", s.gray = {}
  PROVE  LET st == ConvergeOnce(s)
         IN  st \in Rounds /\ Round(s, st, X, r) /\ st.todo = {}
<1> DEFINE N == Cardinality(Objects)
           Step(st) == IF st.todo = {} THEN st ELSE VisitNext(st)
           v0 == [g |-> [s EXCEPT !.ephemeron = {}], todo |-> s.ephemeron, changed |-> FALSE]
           V == { st \in Rounds : Round(s, st, X, r) }
           G == [st \in V |-> Step(st)]
           Rec(f) == [n \in 0..N |-> IF n = 0 THEN v0 ELSE Step(f[n - 1])]
<1>0. N \in Nat
  BY Null
<1>1. v0 \in V
  BY RoundBegins
<1> HIDE DEF v0
<1>2. ASSUME NEW st \in V
      PROVE  Step(st) \in V /\ (st.todo = {} \/ \E h \in st.todo : Step(st).todo = st.todo \ {h})
  <2>1. CASE st.todo = {}
    BY <1>2, <2>1
  <2>2. CASE st.todo # {}
    <3>1. Step(st) = VisitNext(st)
      BY <2>2
    <3> HIDE DEF Step
    <3> QED BY <2>2, <3>1, RoundNext
  <2> QED BY <2>1, <2>2
<1>3. G \in [V -> V]
  BY <1>2
<1>4. PICK f : TurnsOf(f, N, V, v0, G)
  <2> HIDE DEF G, V, N
  <2> QED BY <1>0, <1>1, <1>3, Turns
<1>5. f = Rec(f)
  <2> HIDE DEF Step, N, V
  <2>1. f \in [0..N -> V] /\ f[0] = v0 /\ \A n \in 1..N : f[n] = G[f[n - 1]]
    BY <1>4 DEF TurnsOf
  <2>2. ASSUME NEW n \in 1..N PROVE f[n] = Step(f[n - 1])
    <3>1. f[n - 1] \in V
      BY <1>0, <2>1
    <3> QED BY <2>1, <3>1
  <2>3. \A n \in 0..N : f[n] = IF n = 0 THEN v0 ELSE Step(f[n - 1])
    BY <1>0, <2>1, <2>2
  <2> QED BY <2>1, <2>3
<1> DEFINE g0 == CHOOSE h : h = Rec(h)
<1>6. g0 = Rec(g0)
  <2> HIDE DEF Rec
  <2> QED BY <1>5, Zenon
<1>7. ConvergeOnce(s) = g0[N]
  BY Zenon DEF ConvergeOnce, v0
<1> HIDE DEF g0, N, Step
<1>8. g0[0] = v0 /\ \A n \in 1..N : g0[n] = Step(g0[n - 1])
  BY <1>0, <1>6
<1>9. \A n \in 0..N : g0[n] \in V
  <2> HIDE DEF V
  <2>1. \A n \in 1..N : g0[n - 1] \in V => g0[n] \in V
    BY <1>2, <1>8
  <2> QED BY <1>0, <1>1, <1>8, <2>1, TurnsStay
<1>10. ASSUME NEW st \in V
       PROVE  /\ IsFiniteSet(st.todo) /\ Cardinality(st.todo) \in Nat
              /\ Cardinality(st.todo) <= N
  <2>1. st.todo \subseteq Objects
    BY DEF Rounds
  <2>2. IsFiniteSet(st.todo) /\ Cardinality(st.todo) <= Cardinality(Objects)
    BY <2>1, Null, FS_Subset
  <2> QED BY <2>2, FS_CardinalityType DEF N
<1> DEFINE w == [n \in 0..N |-> Cardinality(g0[n].todo)]
           d == [n \in 0..N |-> g0[n].todo = {}]
<1>11. w \in [0..N -> Nat] /\ d \in [0..N -> BOOLEAN] /\ w[0] <= N
  <2> HIDE DEF V
  <2> QED BY <1>0, <1>9, <1>10
<1>12. ASSUME NEW n \in 1..N PROVE (d[n - 1] \/ w[n] < w[n - 1]) /\ (d[n - 1] => d[n])
  <2>1. n - 1 \in 0..N /\ n \in 0..N /\ g0[n] = Step(g0[n - 1]) /\ g0[n - 1] \in V
    BY <1>0, <1>8, <1>9
  <2> HIDE DEF V
  <2>2. g0[n - 1].todo = {} \/ \E h \in g0[n - 1].todo : g0[n].todo = g0[n - 1].todo \ {h}
    BY <1>2, <2>1
  <2>3. g0[n - 1].todo = {} \/ Cardinality(g0[n].todo) < Cardinality(g0[n - 1].todo)
    BY <1>10, <2>1, <2>2, FewerWork
  <2>4. g0[n - 1].todo = {} => g0[n] = g0[n - 1]
    BY <2>1 DEF Step
  <2> QED BY <2>1, <2>3, <2>4
<1>13. ASSUME NEW n \in 0..N, w[n] = 0 PROVE d[n]
  <2> HIDE DEF V
  <2> QED BY <1>9, <1>10, <1>13, FS_EmptySet
<1>14. d[N]
  <2> HIDE DEF w, d
  <2> QED BY <1>0, <1>11, <1>12, <1>13, TurnsEnd
<1>15. g0[N] \in V /\ g0[N].todo = {}
  <2>1. N \in 0..N
    BY <1>0
  <2>2. d[N] = (g0[N].todo = {})
    BY <2>1
  <2> HIDE DEF d, V
  <2> QED BY <1>9, <1>14, <2>1, <2>2
<1> QED BY <1>7, <1>15

(* What the loop of convergeephemerons ends with.  *)
Converged(t) == \A h \in t.ephemeron : IsCleared(t, t.key[h])

\* t is reached from s with an empty gray list and X to visit.
Settled(s, t, X, r) ==
  Marks(s, t) /\ Shape(t) /\ Trace(t, X, r) /\ t.gray = {}

\* convergeephemerons ends: no entry is left whose key is marked and whose value is not.
LEMMA ConvergeTrace ==
  ASSUME NEW s \in StateType, KindOK, Shape(s), NEW X, NEW r, Trace(s, X, r),
         s.gcstate = "atomic", s.gray = {}
  PROVE  LET t == ConvergeEphemerons(s) IN Settled(s, t, X, r) /\ Converged(t)
<1> DEFINE N == Cardinality(Objects)
           M == N + 1
           Step(st) == IF st.changed THEN ConvergeOnce(st.g) ELSE st
           v0 == [g |-> s, todo |-> {}, changed |-> TRUE]
           V == { st \in Rounds : Settled(s, st.g, X, r) /\ (~st.changed => Converged(st.g)) }
           G == [st \in V |-> Step(st)]
           Rec(f) == [n \in 0..M |-> IF n = 0 THEN v0 ELSE Step(f[n - 1])]
           size(st) == IF st.changed THEN Cardinality(White(st.g)) + 1 ELSE 0
<1>0. N \in Nat /\ M \in Nat
  BY Null
<1>1. v0 \in V
  BY MarksRefl DEF Settled, Rounds
<1>2. ASSUME NEW st \in V
      PROVE  Step(st) \in V /\ size(st) \in Nat /\ size(st) <= M
             /\ (~st.changed \/ size(Step(st)) < size(st))
  <2>0. st.g \in StateType /\ st.changed \in BOOLEAN
    BY DEF Rounds
  <2>1. /\ IsFiniteSet(White(st.g)) /\ Cardinality(White(st.g)) \in Nat
        /\ Cardinality(White(st.g)) <= N
    <3>1. White(st.g) \subseteq Objects
      BY DEF White
    <3>2. IsFiniteSet(White(st.g)) /\ Cardinality(White(st.g)) <= Cardinality(Objects)
      BY <3>1, Null, FS_Subset
    <3> QED BY <3>2, FS_CardinalityType
  <2>2. size(st) \in Nat /\ size(st) <= M
    BY <1>0, <2>1
  <2>3. CASE ~st.changed
    BY <2>2, <2>3
  <2>4. CASE st.changed
    <3> DEFINE nt == ConvergeOnce(st.g)
    <3>1. Step(st) = nt
      BY <2>4
    <3>2. Marks(s, st.g) /\ Shape(st.g) /\ Trace(st.g, X, r) /\ st.g.gray = {}
      BY DEF Settled
    <3>3. st.g.gcstate = "atomic"
      BY <3>2, MarksSame
    <3>4. nt \in Rounds /\ Round(st.g, nt, X, r) /\ nt.todo = {}
      BY <2>0, <3>2, <3>3, ConvergeOnceRound
    <3> HIDE DEF nt, Step
    <3>5. Marks(st.g, nt.g) /\ X \cup nt.todo = X
      BY <3>4 DEF Round
    <3>6. Settled(s, nt.g, X, r)
      BY <3>2, <3>4, <3>5, MarksTrans DEF Round, Settled
    <3>7. ~nt.changed => Converged(nt.g)
      BY <3>4 DEF Round, Converged
    <3>8. nt.changed => Cardinality(White(nt.g)) < Cardinality(White(st.g))
      <4>1. SUFFICES ASSUME nt.changed PROVE Cardinality(White(nt.g)) < Cardinality(White(st.g))
        OBVIOUS
      <4>2. PICK x \in Objects : IsWhite(st.g, x) /\ ~IsWhite(nt.g, x)
        BY <3>4, <4>1 DEF Round
      <4>3. x \in White(st.g) /\ White(nt.g) \subseteq White(st.g) \ {x}
        BY <3>5, <4>2, MarksWhite DEF White
      <4> QED BY <2>1, <4>3, FewerWork
    <3>9. Cardinality(White(nt.g)) \in Nat
      <4>1. White(nt.g) \subseteq Objects
        BY DEF White
      <4>2. IsFiniteSet(White(nt.g))
        BY <4>1, Null, FS_Subset
      <4> QED BY <4>2, FS_CardinalityType
    <3>10. size(nt) < size(st)
      BY <2>1, <2>4, <3>8, <3>9
    <3> HIDE DEF size
    <3> QED BY <2>2, <3>1, <3>4, <3>6, <3>7, <3>10
  <2> QED BY <2>3, <2>4
<1> HIDE DEF v0
<1>3. G \in [V -> V]
  BY <1>2
<1>4. PICK f : TurnsOf(f, M, V, v0, G)
  <2> HIDE DEF G, V, M
  <2> QED BY <1>0, <1>1, <1>3, Turns
<1>5. f = Rec(f)
  <2> HIDE DEF Step, M, V
  <2>1. f \in [0..M -> V] /\ f[0] = v0 /\ \A n \in 1..M : f[n] = G[f[n - 1]]
    BY <1>4 DEF TurnsOf
  <2>2. ASSUME NEW n \in 1..M PROVE f[n] = Step(f[n - 1])
    <3>1. f[n - 1] \in V
      BY <1>0, <2>1
    <3> QED BY <2>1, <3>1
  <2>3. \A n \in 0..M : f[n] = IF n = 0 THEN v0 ELSE Step(f[n - 1])
    BY <1>0, <2>1, <2>2
  <2> QED BY <2>1, <2>3
<1> DEFINE g0 == CHOOSE h : h = Rec(h)
<1>6. g0 = Rec(g0)
  <2> HIDE DEF Rec
  <2> QED BY <1>5, Zenon
<1>7. ConvergeEphemerons(s) = g0[M].g
  BY Zenon DEF ConvergeEphemerons, v0
<1> HIDE DEF g0, M, N, Step, size
<1>8. g0[0] = v0 /\ \A n \in 1..M : g0[n] = Step(g0[n - 1])
  BY <1>0, <1>6
<1>9. \A n \in 0..M : g0[n] \in V
  <2> HIDE DEF V
  <2>1. \A n \in 1..M : g0[n - 1] \in V => g0[n] \in V
    BY <1>2, <1>8
  <2> QED BY <1>0, <1>1, <1>8, <2>1, TurnsStay
<1> DEFINE w == [n \in 0..M |-> size(g0[n])]
           d == [n \in 0..M |-> g0[n].changed = FALSE]
<1>11. w \in [0..M -> Nat] /\ d \in [0..M -> BOOLEAN] /\ w[0] <= M
  <2> HIDE DEF V
  <2> QED BY <1>0, <1>2, <1>9
<1>12. ASSUME NEW n \in 1..M PROVE (d[n - 1] \/ w[n] < w[n - 1]) /\ (d[n - 1] => d[n])
  <2>1. n - 1 \in 0..M /\ n \in 0..M /\ g0[n] = Step(g0[n - 1]) /\ g0[n - 1] \in V
    BY <1>0, <1>8, <1>9
  <2>2. g0[n - 1].changed \in BOOLEAN
    BY <2>1 DEF Rounds
  <2> HIDE DEF V
  <2>3. ~g0[n - 1].changed \/ size(g0[n]) < size(g0[n - 1])
    BY <1>2, <2>1
  <2>4. ~g0[n - 1].changed => g0[n] = g0[n - 1]
    BY <2>1 DEF Step
  <2> QED BY <2>1, <2>2, <2>3, <2>4
<1>13. ASSUME NEW n \in 0..M, w[n] = 0 PROVE d[n]
  <2>1. g0[n] \in V
    BY <1>9
  <2>2. g0[n].changed \in BOOLEAN
    BY <2>1 DEF Rounds
  <2>3. Cardinality(White(g0[n].g)) \in Nat
    <3>1. White(g0[n].g) \subseteq Objects
      BY DEF White
    <3>2. IsFiniteSet(White(g0[n].g))
      BY <3>1, Null, FS_Subset
    <3> QED BY <3>2, FS_CardinalityType
  <2>4. size(g0[n]) = 0
    BY <1>13
  <2>5. ~g0[n].changed
    BY <2>3, <2>4 DEF size
  <2> HIDE DEF V
  <2> QED BY <2>2, <2>5
<1>14. d[M]
  <2> HIDE DEF w, d
  <2> QED BY <1>0, <1>11, <1>12, <1>13, TurnsEnd
<1>15. g0[M] \in V /\ g0[M].changed = FALSE
  <2>1. M \in 0..M
    BY <1>0
  <2>2. d[M] = (g0[M].changed = FALSE)
    BY <2>1
  <2> HIDE DEF d, V
  <2> QED BY <1>9, <1>14, <2>1, <2>2
<1> QED BY <1>7, <1>15

(****************************************************************************)
(* The atomic step                                                          *)
(****************************************************************************)

\* What Mark marks is gray, strings, upvalues and userdata without user values apart.
LEMMA MarkGray ==
  ASSUME NEW s \in StateType, KindOK, Shape(s), NEW S \in SUBSET OrNull(Objects)
  PROVE  LET t == Mark(s, S)
         IN  \A x \in Objects :
               IsWhite(s, x) /\ ~IsWhite(t, x) /\ kind[x] \notin {"string", "upval", "bareudata"} => x \in t.gray
<1> DEFINE W == WhitesOf(s, S)
           t == Mark(s, S)
<1>1. W \in SUBSET InUse(s)
  BY MarkedWhite, Null DEF WhitesOf, OrNull
<1>2. t = ReallyMark(s, W)
  BY DEF Mark, WhitesOf
<1> HIDE DEF W
<1>3. /\ t.gray = s.gray \cup { o \in Struck(s, W) : kind[o] \notin {"string", "upval", "bareudata"} }
      /\ \A o \in Objects : o \notin Struck(s, W) => t.color[o] = s.color[o]
  BY <1>1, <1>2, ReallyMarkMarks
<1> HIDE DEF t
<1>4. \A x \in Objects : IsWhite(s, x) /\ ~IsWhite(t, x) => x \in Struck(s, W)
  BY <1>3 DEF IsWhite
<1>5. \A x \in Objects : IsWhite(s, x) /\ ~IsWhite(t, x) /\ kind[x] \notin {"string", "upval", "bareudata"} => x \in t.gray
  BY <1>3, <1>4
<1> QED BY <1>5 DEF t

\* The atomic phase starts: what is in grayagain is still to be visited.
LEMMA StartAtomic ==
  ASSUME NEW s \in StateType, KindOK, Shape(s), NEW X, Trace(s, X, FALSE), s.gcstate # "atomic"
  PROVE  LET a == [s EXCEPT !.gcstate = "atomic", !.grayagain = {}]
         IN  /\ a \in StateType /\ Shape(a) /\ Trace(a, X \cup s.grayagain, FALSE)
             /\ Same(s, a, {"gcstate", "grayagain"}) /\ a.gcstate = "atomic"
<1> DEFINE a == [s EXCEPT !.gcstate = "atomic", !.grayagain = {}]
           Y == X \cup s.grayagain
<1>1. /\ a \in StateType /\ Same(s, a, {"gcstate", "grayagain"})
      /\ a.gcstate = "atomic" /\ a.grayagain = {}
  BY DEF StateType, Same, Fields, Phases
<1> HIDE DEF a
<1>2. /\ a.color = s.color /\ a.age = s.age /\ a.val = s.val /\ a.key = s.key /\ a.gray = s.gray
      /\ a.weak = s.weak /\ a.allweak = s.allweak /\ a.ephemeron = s.ephemeron
      /\ a.twups = s.twups /\ a.open = s.open /\ a.stack = s.stack
  BY <1>1 DEF Same, Fields
<1>3. Shape(a)
  BY <1>2 DEF Shape, ShapeOf, InUse
<1>4. ASSUME NEW o \in Objects PROVE TraceOf(a, Y, FALSE, o)
  <2>1. TraceOf(s, X, FALSE, o)
    BY DEF Trace
  <2>2. Refs(a, o) = Refs(s, o)
    BY <1>2 DEF Refs, Stack, OpenUpvals, UpvalValue
  <2>3. Visited(s, o, FALSE) => Visited(a, o, FALSE)
    BY <1>2, <2>2 DEF Visited, Full, IsWhite
  <2>4. Pending(s) \cup X = Pending(a) \cup Y /\ Later(a) = {} /\ Later(s) = s.grayagain
    BY <1>1, <1>2 DEF Pending, Later
  <2> QED BY <1>1, <1>2, <2>1, <2>3, <2>4 DEF TraceOf, Marked, IsGray, IsBlack, IsWhite, IsOld
<1>5. Pending(s) \cup X = Pending(a) \cup Y /\ Marked(a) = Marked(s)
  BY <1>1, <1>2 DEF Pending, Marked
<1>6. Trace(a, Y, FALSE)
  <2>1. Y \subseteq Marked(a)
    BY <1>5 DEF Trace, Pending
  <2>2. Pending(a) \subseteq Pending(s)
    BY <1>1, <1>2 DEF Pending
  <2> HIDE DEF Y
  <2> QED BY <1>1, <1>2, <1>4, <1>5, <2>1, <2>2 DEF Trace
<1> QED BY <1>1, <1>3, <1>6 DEF a

\* Up to remarkupvals the atomic phase keeps the trace and marks the main thread.
LEMMA BeforeRemarkTrace ==
  ASSUME NEW s \in StateType, KindOK, Shape(s), NEW X, Trace(s, X, FALSE), s.gcstate # "atomic",
         NEW a, a = [s EXCEPT !.gcstate = "atomic", !.grayagain = {}]
  PROVE  LET b == BeforeRemark(s)
         IN  Settled(a, b, X \cup s.grayagain, FALSE) /\ ~IsWhite(b, MainThread)
<1> DEFINE Y == X \cup s.grayagain
           m == Mark(a, {MainThread})
           b == BeforeRemark(s)
<1>1. a \in StateType /\ Shape(a) /\ Trace(a, Y, FALSE) /\ a.gcstate = "atomic"
  BY StartAtomic
<1>2. {MainThread} \in SUBSET OrNull(Objects) /\ MainThread # NULL /\ MainThread \in Objects
  BY Null DEF OrNull
<1> HIDE DEF Y
<1>3. Marks(a, m) /\ Shape(m) /\ Trace(m, Y, FALSE) /\ ~IsWhite(m, MainThread)
  BY <1>1, <1>2, MarkTrace
<1>4. b = PropagateAll(m)
  BY DEF BeforeRemark, MarkRoots
<1> HIDE DEF m, b
<1>5. m \in StateType /\ m.gcstate = "atomic"
  <2>1. m \in StateType
    BY <1>3 DEF Marks
  <2>2. m.gcstate = a.gcstate
    BY <1>3, MarksSame
  <2> QED BY <1>1, <2>1, <2>2
<1>6. Traversed(m, b, Y, FALSE) /\ b.gray = {}
  BY <1>3, <1>4, <1>5, PropagateAllTrace
<1>7. Marks(m, b) /\ Shape(b) /\ Trace(b, Y, FALSE)
  BY <1>6 DEF Traversed
<1>8. Marks(a, b)
  BY <1>3, <1>7, MarksTrans
<1>9. ~IsWhite(b, MainThread)
  BY <1>2, <1>3, <1>7, MarksWhite
<1> QED BY <1>6, <1>7, <1>8, <1>9 DEF b, Settled, Y

\* ReallyMark does not depend on twups.
LEMMA ReallyMarkTwups ==
  ASSUME NEW s \in StateType, NEW S \in SUBSET Objects, NEW T \in SUBSET Objects
  PROVE  ReallyMark([s EXCEPT !.twups = T], S) = [ReallyMark(s, S) EXCEPT !.twups = T]
<1> DEFINE a == [s EXCEPT !.twups = T]
           C == Painted(s, S)
           G == Greyed(s, S)
<1>1. a.color = s.color /\ a.gray = s.gray /\ a.open = s.open /\ a.val = s.val
  BY DEF StateType
<1> HIDE DEF a
<1>2. AlikeIn(a, s, WithHeld(s, S, "upval"))
  BY <1>1 DEF UpvalValue, AlikeIn, IsWhite
<1>4. Painted(a, S) = C /\ Greyed(a, S) = G
  BY <1>1, <1>2, ReallyMarkAlike
<1>5. ReallyMark(a, S) = [a EXCEPT !.color = Painted(a, S), !.gray = Greyed(a, S)]
      /\ ReallyMark(s, S) = [s EXCEPT !.color = C, !.gray = G]
  BY ReallyMarkFields
<1>6. ReallyMark(a, S) = [a EXCEPT !.color = C, !.gray = G]
      /\ ReallyMark(s, S) = [s EXCEPT !.color = C, !.gray = G]
  BY <1>4, <1>5
<1> HIDE DEF C, G
<1> QED BY <1>6 DEF a, StateType

\* Mark does not depend on twups.
LEMMA MarkTwups ==
  ASSUME NEW s \in StateType, NEW S \in SUBSET OrNull(Objects), NEW T \in SUBSET Objects
  PROVE  Mark([s EXCEPT !.twups = T], S) = [Mark(s, S) EXCEPT !.twups = T]
<1> DEFINE a == [s EXCEPT !.twups = T]
           W == WhitesOf(s, S)
<1>1. a.color = s.color
  BY DEF StateType
<1>2. WhitesOf(a, S) = W
  BY <1>1 DEF WhitesOf, IsWhite
<1>3. Mark(a, S) = ReallyMark(a, W) /\ Mark(s, S) = ReallyMark(s, W)
  BY <1>2 DEF Mark, WhitesOf
<1>4. W \in SUBSET Objects
  BY DEF WhitesOf, OrNull
<1> HIDE DEF W
<1>5. ReallyMark(a, W) = [ReallyMark(s, W) EXCEPT !.twups = T]
  BY <1>4, ReallyMarkTwups
<1> QED BY <1>3, <1>5

\* Marking objects that are no upvalues colours no upvalue.
LEMMA MarkNoUpval ==
  ASSUME NEW s \in StateType, KindOK, Shape(s), NEW S \in SUBSET OrNull(Objects),
         \A x \in S : x # NULL => kind[x] # "upval"
  PROVE  LET t == Mark(s, S) IN \A o \in Objects : kind[o] = "upval" => t.color[o] = s.color[o]
<1> DEFINE W == WhitesOf(s, S)
           t == Mark(s, S)
<1>1. W \in SUBSET InUse(s)
  BY MarkedWhite, Null DEF WhitesOf, OrNull
<1>2. t = ReallyMark(s, W)
  BY DEF Mark, WhitesOf
<1>3. \A x \in W : kind[x] # "upval"
  BY DEF WhitesOf
<1> HIDE DEF W, t
<1>4. W \in SUBSET Objects
  BY <1>1 DEF InUse
<1>5. \A o \in Objects : o \notin Struck(s, W) => t.color[o] = s.color[o]
  BY <1>1, <1>2, ReallyMarkMarks
<1>7. \A o \in Objects : kind[o] = "upval" => o \notin Struck(s, W)
  BY <1>3, <1>4, StruckIs
<1>6. \A o \in Objects : kind[o] = "upval" => t.color[o] = s.color[o]
  BY <1>5, <1>7
<1> QED BY <1>6 DEF t

\* remarkupvals marks the values of the upvalues whose thread is not marked.
LEMMA RemarkTrace ==
  ASSUME NEW s \in StateType, KindOK, Shape(s), NEW X, Trace(s, X, FALSE), s.gcstate = "atomic"
  PROVE  LET t == RemarkUpvals(s)
         IN  Marks(s, t) /\ Shape(t) /\ Trace(t, X, TRUE)
<1> DEFINE leaving == { th \in s.twups : IsWhite(s, th) \/ OpenUpvals(s, th) = {} }
           visited == { u \in UNION { OpenUpvals(s, th) : th \in leaving } : ~IsWhite(s, u) }
           S == { UpvalValue(s, u) : u \in visited }
           T == s.twups \ leaving
           m == Mark(s, S)
           t == RemarkUpvals(s)
<1>1. visited \subseteq Objects /\ leaving \subseteq s.twups /\ T \in SUBSET Objects
  BY DEF OpenUpvals, StateType
<1>2. S \in SUBSET OrNull(Objects)
  BY <1>1, RefsType DEF OrNull, Proper
<1>3. ASSUME NEW u \in Objects, s.open[u] \in leaving, ~IsWhite(s, u)
      PROVE  UpvalValue(s, u) \in S
  <2>1. u \in OpenUpvals(s, s.open[u])
    BY DEF OpenUpvals
  <2> QED BY <1>3, <2>1
<1>4. ASSUME NEW th \in s.twups, th \notin leaving PROVE th \in Objects /\ th \in Marked(s)
  <2>1. th \in Objects /\ ~IsWhite(s, th)
    BY <1>4 DEF StateType
  <2>2. PICK u \in Objects : s.open[u] = th
    BY <1>4 DEF OpenUpvals
  <2>3. th \in InUse(s)
    BY <2>1, <2>2, Null DEF Shape, ShapeOf
  <2> QED BY <2>1, <2>3, MarkedWhite
<1>5. \A th \in leaving : IsWhite(s, th) \/ \A u \in Objects : s.open[u] # th
  BY DEF OpenUpvals
<1>6. t = [m EXCEPT !.twups = T]
  <2>1. t = Mark([s EXCEPT !.twups = T], S)
    BY DEF RemarkUpvals
  <2> HIDE DEF t, S, T
  <2> QED BY <1>1, <1>2, <2>1, MarkTwups
<1>61. \A x \in S : x # NULL => kind[x] # "upval"
  <2>1. \A u \in visited : kind[u] = "upval"
    BY Null DEF OpenUpvals, Shape, ShapeOf, StateType
  <2> QED BY <1>1, <2>1, ValueKind
<1> HIDE DEF leaving, visited, S, t
<1>7. /\ Marks(s, m) /\ Shape(m) /\ Trace(m, X, FALSE)
      /\ Same(s, m, {"color", "gray"}) /\ s.gray \subseteq m.gray
      /\ \A o \in S : o # NULL => ~IsWhite(m, o)
      /\ \A o \in Objects : o \in m.gray => o \in s.gray \/ IsWhite(s, o)
      /\ \A o \in Objects : ~IsWhite(s, o) => m.color[o] = s.color[o]
  BY <1>2, MarkTrace
<1>8. \A x \in Objects :
        IsWhite(s, x) /\ ~IsWhite(m, x) /\ kind[x] \notin {"string", "upval", "bareudata"} => x \in m.gray
  BY <1>2, MarkGray
<1>81. \A o \in Objects : kind[o] = "upval" => m.color[o] = s.color[o]
  BY <1>2, <1>61, MarkNoUpval
<1> HIDE DEF m
<1>9. m \in StateType /\ m.twups = s.twups /\ m.open = s.open /\ m.val = s.val /\ m.gcstate = s.gcstate
  BY <1>7 DEF Marks, Same, Fields
<1>10. t \in StateType /\ Same(m, t, {"twups"}) /\ t.twups = T
  BY <1>1, <1>6, <1>9 DEF StateType, Same, Fields
<1>11. /\ t.color = m.color /\ t.age = m.age /\ t.val = m.val /\ t.key = m.key /\ t.gray = m.gray
       /\ t.weak = m.weak /\ t.allweak = m.allweak /\ t.ephemeron = m.ephemeron
       /\ t.grayagain = m.grayagain /\ Same(m, t, Changes) /\ t.gcstate = m.gcstate
       /\ t.open = m.open /\ t.stack = m.stack
  BY <1>10 DEF Same, Fields, Changes, MarkLists
<1>12. Marks(m, t)
  BY <1>10, <1>11 DEF Marks
<1>13. Marks(s, t)
  BY <1>7, <1>12, MarksTrans
<1>14. Shape(t)
  BY <1>7, <1>9, <1>10, <1>11 DEF Shape, ShapeOf, InUse
<1>15. ASSUME NEW o \in Objects PROVE TraceOf(t, X, TRUE, o)
  <2>1. TraceOf(m, X, FALSE, o)
    BY <1>7 DEF Trace
  <2>2. Refs(t, o) = Refs(m, o)
    BY <1>11 DEF Refs, Stack, OpenUpvals, UpvalValue
  <2>3. Visited(m, o, FALSE) => Visited(t, o, FALSE)
    BY <1>11, <2>2 DEF Visited, Full, IsWhite
  <2>4. s.open[o] # NULL => s.open[o] \in Objects /\ kind[s.open[o]] = "thread" /\ kind[o] = "upval"
    BY DEF Shape, ShapeOf, StateType, OrNull, Proper
  <2>5. s.open[o] # NULL => s.open[o] \in s.twups
    BY <1>9, <2>1 DEF TraceOf
  <2>6. ASSUME s.open[o] # NULL, s.open[o] \in leaving
        PROVE  IsWhite(t, s.open[o]) \/ s.open[o] \in t.gray \cup X
    <3>1. IsWhite(s, s.open[o])
      BY <1>5, <2>6
    <3> QED BY <1>8, <1>11, <2>4, <2>6, <3>1 DEF IsWhite
  <2>7. ASSUME o \in Marked(t), Visited(t, o, FALSE), o \notin t.gray \cup X
        PROVE  Visited(t, o, TRUE)
    <3>1. CASE s.open[o] = NULL
      BY <1>9, <1>11, <2>7, <3>1 DEF Visited
    <3>2. CASE s.open[o] # NULL /\ ~IsWhite(t, s.open[o])
      BY <1>9, <1>11, <3>2 DEF Visited
    <3>3. CASE s.open[o] # NULL /\ IsWhite(t, s.open[o])
      <4>1. IsWhite(s, s.open[o])
        BY <1>13, <2>4, <3>3, MarksWhite
      <4>2. s.open[o] \in leaving
        <5>1. s.open[o] \notin Marked(s)
          BY <4>1 DEF Marked, IsWhite
        <5> QED BY <1>4, <2>5, <3>3, <5>1
      <4>3. CASE ~IsWhite(s, o)
        <5>1. UpvalValue(s, o) \in S
          BY <1>3, <4>2, <4>3
        <5>2. UpvalValue(t, o) = UpvalValue(s, o)
          BY <1>9, <1>11 DEF UpvalValue
        <5>3. UpvalValue(s, o) # NULL => ~IsWhite(t, UpvalValue(s, o))
          BY <1>7, <1>11, <5>1 DEF IsWhite
        <5>4. Full(t, o)
          BY <2>4, <3>3, <5>2, <5>3, RefsUpval DEF Full
        <5> QED BY <5>4 DEF Visited
      <4>4. CASE IsWhite(s, o)
        <5>1. IsWhite(t, o)
          BY <1>11, <1>81, <2>4, <3>3, <4>4 DEF IsWhite
        <5> QED BY <2>7, <5>1 DEF Marked, IsWhite
      <4> QED BY <4>3, <4>4
    <3> QED BY <3>1, <3>2, <3>3
  <2> QED BY <1>9, <1>10, <1>11, <2>1, <2>3, <2>5, <2>6, <2>7
          DEF TraceOf, Marked, IsGray, IsBlack, IsOld, IsWhite, Later, Pending
<1>16. Pending(t) = Pending(m) /\ Marked(t) = Marked(m)
  BY <1>11 DEF Pending, Marked
<1>17. t.twups \subseteq Marked(t)
  <2>1. T \subseteq Marked(s)
    BY <1>4
  <2>2. Marked(s) \subseteq Marked(t)
    BY <1>13, MarksWhite DEF Marked
  <2> QED BY <1>10, <2>1, <2>2
<1>18. Trace(t, X, TRUE)
  BY <1>7, <1>9, <1>11, <1>15, <1>16, <1>17 DEF Trace
<1> QED BY <1>13, <1>14, <1>18 DEF t

\* The objects of grayagain are visited again from the gray list.
LEMMA Regray ==
  ASSUME NEW s \in StateType, KindOK, Shape(s), NEW Y \in SUBSET Objects, NEW r, Trace(s, Y, r),
         s.gray = {}, \A o \in Y : kind[o] \notin {"string", "upval", "bareudata"}
  PROVE  LET t == [s EXCEPT !.gray = Y] IN Marks(s, t) /\ Shape(t) /\ Trace(t, {}, r)
<1> DEFINE t == [s EXCEPT !.gray = Y]
<1>1. t \in StateType /\ Same(s, t, {"gray"}) /\ t.gray = Y
  BY DEF StateType, Same, Fields
<1> HIDE DEF t
<1>2. /\ t.color = s.color /\ t.age = s.age /\ t.val = s.val /\ t.key = s.key
      /\ t.weak = s.weak /\ t.allweak = s.allweak /\ t.ephemeron = s.ephemeron
      /\ t.grayagain = s.grayagain /\ t.twups = s.twups /\ Same(s, t, Changes)
      /\ t.open = s.open /\ t.gcstate = s.gcstate /\ t.stack = s.stack
  BY <1>1 DEF Same, Fields, Changes, MarkLists
<1>3. Marks(s, t)
  BY <1>1, <1>2 DEF Marks
<1>4. Shape(t)
  BY <1>2 DEF Shape, ShapeOf, InUse
<1>5. ASSUME NEW o \in Objects PROVE TraceOf(t, {}, r, o)
  <2>1. TraceOf(s, Y, r, o)
    BY DEF Trace
  <2>2. Refs(t, o) = Refs(s, o)
    BY <1>2 DEF Refs, Stack, OpenUpvals, UpvalValue
  <2>3. Visited(s, o, r) <=> Visited(t, o, r)
    BY <1>2, <2>2 DEF Visited, Full, IsWhite
  <2>4. Pending(s) = Pending(t)
    BY <1>2 DEF Pending
  <2> QED BY <1>1, <1>2, <2>1, <2>3, <2>4 DEF TraceOf, Later, Marked, IsGray, IsBlack, IsWhite, IsOld
<1>6. Trace(t, {}, r)
  <2>1. Pending(s) = Pending(t) /\ Marked(t) = Marked(s)
    BY <1>2 DEF Pending, Marked
  <2> QED BY <1>1, <1>2, <1>5, <2>1 DEF Trace
<1> QED BY <1>3, <1>4, <1>6 DEF t

\* When the atomic phase has marked what is strongly accessible all of it has been visited.
LEMMA MarkAccessibleTrace ==
  ASSUME NEW s \in StateType, KindOK, Shape(s), Trace(s, {}, FALSE), s.gcstate # "atomic",
         NEW a, a = [s EXCEPT !.gcstate = "atomic", !.grayagain = {}]
  PROVE  LET t == MarkAccessible(s)
         IN  Settled(a, t, {}, TRUE) /\ Converged(t) /\ ~IsWhite(t, MainThread)
<1> DEFINE Y == s.grayagain
           b == BeforeRemark(s)
           c == RemarkUpvals(b)
           d == PropagateAll(c)
           e == [d EXCEPT !.gray = Y]
           f == PropagateAll(e)
           t == ConvergeEphemerons(f)
<1>1. Settled(a, b, {} \cup Y, FALSE) /\ ~IsWhite(b, MainThread)
  BY BeforeRemarkTrace
<1>2. a.gcstate = "atomic" /\ Y \in SUBSET Objects /\ {} \cup Y = Y
  BY DEF StateType
<1>0. \A o \in Y : kind[o] \notin {"string", "upval", "bareudata"}
  BY DEF Trace, Pending
<1>3. MarkAccessible(s) = t
  BY DEF MarkAccessible
<1> HIDE DEF b, Y
<1>4. Marks(a, b) /\ Shape(b) /\ Trace(b, Y, FALSE) /\ b \in StateType
  BY <1>1, <1>2 DEF Settled, Marks
<1>5. b.gcstate = "atomic"
  BY <1>2, <1>4, MarksSame
<1>6. Marks(b, c) /\ Shape(c) /\ Trace(c, Y, TRUE)
  BY <1>4, <1>5, RemarkTrace
<1> HIDE DEF c
<1>7. c \in StateType /\ c.gcstate = "atomic"
  <2>1. c.gcstate = b.gcstate
    BY <1>6, MarksSame
  <2> QED BY <1>5, <1>6, <2>1 DEF Marks
<1>8. Traversed(c, d, Y, TRUE) /\ d.gray = {}
  BY <1>6, <1>7, PropagateAllTrace
<1> HIDE DEF d
<1>9. Marks(c, d) /\ Shape(d) /\ Trace(d, Y, TRUE) /\ d \in StateType
  BY <1>8 DEF Traversed, Marks
<1>10. Marks(d, e) /\ Shape(e) /\ Trace(e, {}, TRUE)
  BY <1>0, <1>2, <1>8, <1>9, Regray
<1> HIDE DEF e
<1>11. Marks(a, e)
  <2>1. Marks(a, c)
    BY <1>4, <1>6, MarksTrans
  <2>2. Marks(a, d)
    BY <1>9, <2>1, MarksTrans
  <2> QED BY <1>10, <2>2, MarksTrans
<1>12. e \in StateType /\ e.gcstate = "atomic"
  <2>1. e.gcstate = a.gcstate
    BY <1>11, MarksSame
  <2> QED BY <1>2, <1>10, <2>1 DEF Marks
<1>13. Traversed(e, f, {}, TRUE) /\ f.gray = {}
  BY <1>10, <1>12, PropagateAllTrace
<1> HIDE DEF f
<1>14. Marks(e, f) /\ Shape(f) /\ Trace(f, {}, TRUE) /\ f \in StateType
  BY <1>13 DEF Traversed, Marks
<1>15. Marks(a, f)
  BY <1>11, <1>14, MarksTrans
<1>16. f.gcstate = "atomic"
  BY <1>2, <1>15, MarksSame
<1>17. Settled(f, t, {}, TRUE) /\ Converged(t)
  BY <1>13, <1>14, <1>16, ConvergeTrace
<1> HIDE DEF t
<1>18. Marks(f, t) /\ Shape(t) /\ Trace(t, {}, TRUE) /\ t.gray = {}
  BY <1>17 DEF Settled
<1>19. Marks(a, t)
  BY <1>15, <1>18, MarksTrans
<1>20. Marks(b, t)
  <2>1. Marks(b, d)
    BY <1>6, <1>9, MarksTrans
  <2>2. Marks(b, e)
    BY <1>10, <2>1, MarksTrans
  <2>3. Marks(b, f)
    BY <1>14, <2>2, MarksTrans
  <2> QED BY <1>18, <2>3, MarksTrans
<1>21. ~IsWhite(t, MainThread)
  BY <1>1, <1>20, Null, MarksWhite
<1> QED BY <1>3, <1>17, <1>18, <1>19, <1>21 DEF Settled

(* An entry has been cleared or what it had to say about field has been kept.  *)
Cleared(t, h, f) == t[f][h] = NULL \/ ~IsWhite(t, t[f][h])

\* clearbyvalues and clearbykeys leave no entry whose value or key is not marked.
LEMMA ClearByTrace ==
  ASSUME NEW s \in StateType, KindOK, Shape(s), NEW r, Trace(s, {}, r), s.gray = {},
         NEW S \in SUBSET { o \in Objects : kind[o] \in WeakKinds }, NEW f \in {"val", "key"}
  PROVE  LET t == ClearBy(s, S, f)
         IN  /\ Settled(s, t, {}, r) /\ Same(s, t, {"color", "val", "key"})
             /\ \A o \in Objects : kind[o] # "string" => t.color[o] = s.color[o]
             /\ \A h \in S : Cleared(t, h, f)
             /\ \A h \in S : IsCleared(s, s[f][h]) => t.val[h] = NULL /\ t.key[h] = NULL
<1> DEFINE R == Strings({ s[f][h] : h \in S })
           m == Mark(s, R)
           cleared == { h \in S : s.val[h] = NULL \/ IsCleared(s, s[f][h]) }
           A == [o \in Objects |-> IF o \in cleared THEN NULL ELSE s.val[o]]
           B == [o \in Objects |-> IF o \in cleared THEN NULL ELSE s.key[o]]
           t == ClearBy(s, S, f)
<1>0. \A h \in Objects : s.val[h] \in OrNull(Objects) /\ s.key[h] \in OrNull(Objects)
  BY DEF StateType, OrNull, Proper
<1>1. \A h \in S : s[f][h] \in OrNull(Objects)
  <2>1. CASE f = "val"
    BY <1>0, <2>1
  <2>2. CASE f = "key"
    BY <1>0, <2>2
  <2> QED BY <2>1, <2>2
<1>2. R \in SUBSET OrNull(Objects) /\ \A x \in R : kind[x] = "string"
  BY <1>1 DEF Strings
<1>3. /\ Marks(s, m) /\ Shape(m) /\ Same(s, m, {"color", "gray"}) /\ m.gray = s.gray
      /\ \A x \in Objects : kind[x] # "string" => m.color[x] = s.color[x]
  BY <1>2, MarkStrings
<1>4. Trace(m, {}, r) /\ \A x \in R : x # NULL => ~IsWhite(m, x)
  BY <1>2, MarkTrace
<1>5. \A h \in S : s[f][h] # NULL /\ kind[s[f][h]] = "string" => s[f][h] \in R
  BY DEF Strings
<1> HIDE DEF R
<1>6. t = [m EXCEPT !.val = [o \in Objects |-> IF o \in cleared THEN NULL ELSE @[o]],
                    !.key = [o \in Objects |-> IF o \in cleared THEN NULL ELSE @[o]]]
  BY DEF ClearBy, R
<1> HIDE DEF m
<1>7. m.val = s.val /\ m.key = s.key /\ m \in StateType
  BY <1>3 DEF Same, Fields, Marks
<1>8. t = [m EXCEPT !.val = A, !.key = B]
  BY <1>6, <1>7
<1>9. A \in [Objects -> OrNull(Proper)] /\ B \in [Objects -> OrNull(Proper)]
  BY DEF StateType, OrNull
<1> HIDE DEF A, B, t
<1>10. t \in StateType /\ Same(m, t, {"val", "key"}) /\ t.val = A /\ t.key = B
  BY <1>7, <1>8, <1>9 DEF StateType, Same, Fields
<1>11. /\ t.color = m.color /\ t.age = m.age /\ t.gray = m.gray
       /\ t.weak = m.weak /\ t.allweak = m.allweak /\ t.ephemeron = m.ephemeron
       /\ t.grayagain = m.grayagain /\ t.twups = m.twups /\ Same(m, t, Changes)
       /\ t.open = m.open /\ t.gcstate = m.gcstate
  BY <1>10 DEF Same, Fields, Changes, MarkLists
<1>12. \A o \in Objects : /\ t.val[o] = IF o \in cleared THEN NULL ELSE m.val[o]
                          /\ t.key[o] = IF o \in cleared THEN NULL ELSE m.key[o]
  BY <1>7, <1>10 DEF A, B
<1>13. Marks(m, t)
  BY <1>10, <1>11, <1>12 DEF Marks
<1>14. Shape(t)
  <2>1. \A th \in t.twups : kind[th] = "thread"
    BY <1>3, <1>11 DEF Shape
  <2>2. \A u \in Objects : m.open[u] # NULL => t.color[u] # "black"
    BY <1>3, <1>11 DEF Shape, ShapeOf
  <2> QED BY <1>3, <1>7, <1>13, <2>1, <2>2, MarksShape
<1>15. ASSUME NEW o \in Objects PROVE TraceOf(t, {}, r, o)
  <2>1. TraceOf(m, {}, r, o)
    BY <1>4 DEF Trace
  <2>2. \A x \in Objects : ~(IsWhite(m, x) /\ ~IsWhite(t, x))
    BY <1>11 DEF IsWhite
  <2> QED BY <1>3, <1>7, <1>11, <1>13, <2>1, <2>2, TraceOther
<1>16. Pending(t) = Pending(m) /\ Marked(t) = Marked(m)
  BY <1>11 DEF Pending, Marked
<1>17. Trace(t, {}, r)
  BY <1>4, <1>11, <1>15, <1>16 DEF Trace
<1>18. Settled(s, t, {}, r)
  <2>1. Marks(s, t)
    BY <1>3, <1>13, MarksTrans
  <2> QED BY <1>3, <1>11, <1>14, <1>17, <2>1 DEF Settled
<1>19. Same(s, t, {"color", "val", "key"})
  BY <1>3, <1>10, <1>11 DEF Same, Fields
<1>20. ASSUME NEW h \in S PROVE Cleared(t, h, f)
  <2>0. t[f][h] = IF h \in cleared THEN NULL ELSE s[f][h]
    <3>1. CASE f = "val"
      BY <1>7, <1>12, <3>1
    <3>2. CASE f = "key"
      BY <1>7, <1>12, <3>2
    <3> QED BY <3>1, <3>2
  <2>1. CASE h \in cleared
    BY <2>0, <2>1 DEF Cleared
  <2>2. CASE h \notin cleared
    <3>1. t[f][h] = s[f][h] /\ ~IsCleared(s, s[f][h])
      BY <2>0, <2>2
    <3>2. s[f][h] # NULL => ~IsWhite(m, s[f][h])
      BY <1>1, <1>3, <1>4, <1>5, <3>1 DEF IsCleared, IsWhite, OrNull
    <3> QED BY <1>11, <3>1, <3>2 DEF Cleared, IsWhite
  <2> QED BY <2>1, <2>2
<1>21. \A h \in S : IsCleared(s, s[f][h]) => t.val[h] = NULL /\ t.key[h] = NULL
  BY <1>12
<1>22. \A o \in Objects : kind[o] # "string" => t.color[o] = s.color[o]
  BY <1>3, <1>11
<1> QED BY <1>18, <1>19, <1>20, <1>21, <1>22 DEF t

(****************************************************************************)
(* The lists of objects, and finalizers                                     *)
(****************************************************************************)

\* Where a pointer into a list may point.
Pointers(s) == In(s) \cup {NULL}

\* The place of a pointer into a list, or one past its end.
LEMMA PlaceIs ==
  ASSUME NEW s \in Seq(Objects), NEW p \in Pointers(s)
  PROVE  /\ Place(s, p) \in 1..(Len(s) + 1)
         /\ p = NULL => Place(s, p) = Len(s) + 1
         /\ p # NULL => Place(s, p) \in DOMAIN s /\ s[Place(s, p)] = p
<1>1. CASE p = NULL
  BY <1>1 DEF Place
<1>2. CASE p # NULL
  <2>1. \E i \in DOMAIN s : s[i] = p
    BY <1>2 DEF In, Pointers
  <2>2. Place(s, p) \in DOMAIN s /\ s[Place(s, p)] = p
    BY <1>2, <2>1 DEF Place
  <2> QED BY <1>2, <2>2
<1> QED BY <1>1, <1>2

\* A list is its first k - 1 elements and the others.
LEMMA SplitIs ==
  ASSUME NEW s \in Seq(Objects), NEW k \in 1..(Len(s) + 1)
  PROVE  LET a == SubSeq(s, 1, k - 1)
             b == SubSeq(s, k, Len(s))
         IN  /\ a \in Seq(Objects) /\ b \in Seq(Objects) /\ s = a \o b
             /\ Len(a) = k - 1 /\ Len(b) = Len(s) + 1 - k
             /\ \A i \in 1..(k - 1) : a[i] = s[i]
             /\ \A i \in 1..(Len(s) + 1 - k) : b[i] = s[k - 1 + i]
<1> DEFINE a == SubSeq(s, 1, k - 1)
           b == SubSeq(s, k, Len(s))
<1>1. Len(s) \in Nat /\ DOMAIN s = 1..Len(s)
  OBVIOUS
<1>2. a \in Seq(Objects) /\ Len(a) = k - 1 /\ \A i \in 1..(k - 1) : a[i] = s[i]
  OBVIOUS
<1>3. b \in Seq(Objects) /\ Len(b) = Len(s) + 1 - k /\ \A i \in 1..(Len(s) + 1 - k) : b[i] = s[k - 1 + i]
  OBVIOUS
<1> HIDE DEF a, b
<1>4. a \o b \in Seq(Objects) /\ Len(a \o b) = Len(s)
  <2>1. a \in Seq(Objects) /\ b \in Seq(Objects) => a \o b \in Seq(Objects) /\ Len(a \o b) = Len(a) + Len(b)
    OBVIOUS
  <2>2. Len(a) + Len(b) = Len(s)
    BY <1>1, <1>2, <1>3
  <2> QED BY <1>2, <1>3, <2>1, <2>2
<1>41. /\ \A i \in 1..Len(a) : (a \o b)[i] = a[i]
       /\ \A i \in 1..Len(b) : (a \o b)[Len(a) + i] = b[i]
  <2>1. a \in Seq(Objects) /\ b \in Seq(Objects)
    BY <1>2, <1>3
  <2> QED BY <2>1
<1>5. ASSUME NEW i \in 1..Len(s) PROVE (a \o b)[i] = s[i]
  <2>1. CASE i <= k - 1
    BY <1>2, <1>41, <2>1
  <2>2. CASE i > k - 1
    <3>1. i - (k - 1) \in 1..Len(b) /\ Len(a) + (i - (k - 1)) = i /\ k - 1 + (i - (k - 1)) = i
      BY <1>1, <1>2, <1>3, <2>2
    <3>2. (a \o b)[i] = b[i - (k - 1)]
      BY <1>41, <3>1
    <3>3. b[i - (k - 1)] = s[i]
      BY <1>3, <3>1
    <3> QED BY <3>2, <3>3
  <2>3. k - 1 \in Int /\ i \in Int
    BY <1>1
  <2>4. i <= k - 1 \/ i > k - 1
    BY <2>3
  <2> QED BY <2>1, <2>2, <2>4
<1> DEFINE c == a \o b
<1>51. c \in Seq(Objects) /\ Len(c) = Len(s) /\ \A i \in 1..Len(s) : c[i] = s[i]
  BY <1>4, <1>5
<1> HIDE DEF c
<1>52. c = s
  BY <1>51
<1>6. s = a \o b
  BY <1>52 DEF c
<1> QED BY <1>2, <1>3, <1>6 DEF a, b

\* Two lists put together hold each element once if both do and share none.
LEMMA OnceConcat ==
  ASSUME NEW s \in Seq(Objects), NEW t \in Seq(Objects)
  PROVE  IsInjective(s \o t) <=> IsInjective(s) /\ IsInjective(t) /\ In(s) \cap In(t) = {}
<1> DEFINE u == s \o t
<1>0. DOMAIN s = 1..Len(s) /\ DOMAIN t = 1..Len(t) /\ Len(s) \in Nat /\ Len(t) \in Nat
  OBVIOUS
<1>1. u \in Seq(Objects) /\ Len(u) = Len(s) + Len(t) /\ DOMAIN u = 1..(Len(s) + Len(t))
  OBVIOUS
<1>2. \A i \in 1..Len(s) : i \in DOMAIN u /\ u[i] = s[i]
  OBVIOUS
<1>3. \A i \in 1..Len(t) : Len(s) + i \in DOMAIN u /\ u[Len(s) + i] = t[i]
  OBVIOUS
<1>4. \A i \in DOMAIN u : \/ i \in 1..Len(s) /\ u[i] = s[i]
                          \/ i - Len(s) \in 1..Len(t) /\ u[i] = t[i - Len(s)]
  OBVIOUS
<1> HIDE DEF u
<1>5. ASSUME IsInjective(u) PROVE IsInjective(s) /\ IsInjective(t) /\ In(s) \cap In(t) = {}
  <2>1. IsInjective(s)
    BY <1>0, <1>2, <1>5 DEF IsInjective
  <2>2. IsInjective(t)
    <3>1. ASSUME NEW i \in 1..Len(t), NEW j \in 1..Len(t), t[i] = t[j] PROVE i = j
      <4>1. Len(s) + i = Len(s) + j
        BY <1>3, <1>5, <3>1 DEF IsInjective
      <4> QED BY <1>0, <4>1
    <3> QED BY <1>0, <3>1 DEF IsInjective
  <2>3. ASSUME NEW x \in In(s), x \in In(t) PROVE FALSE
    <3>1. PICK i \in 1..Len(s) : s[i] = x
      BY <1>0 DEF In
    <3>2. PICK j \in 1..Len(t) : t[j] = x
      BY <1>0, <2>3 DEF In
    <3>3. i = Len(s) + j
      BY <1>2, <1>3, <1>5, <3>1, <3>2 DEF IsInjective
    <3> QED BY <1>0, <3>3
  <2> QED BY <2>1, <2>2, <2>3
<1>6. ASSUME IsInjective(s), IsInjective(t), In(s) \cap In(t) = {},
             NEW i \in DOMAIN u, NEW j \in DOMAIN u, u[i] = u[j]
      PROVE  i = j
  <2>1. CASE i \in 1..Len(s) /\ u[i] = s[i] /\ j \in 1..Len(s) /\ u[j] = s[j]
    BY <1>0, <1>6, <2>1 DEF IsInjective
  <2>2. CASE i - Len(s) \in 1..Len(t) /\ u[i] = t[i - Len(s)] /\ j - Len(s) \in 1..Len(t) /\ u[j] = t[j - Len(s)]
    <3>1. i - Len(s) = j - Len(s)
      BY <1>0, <1>6, <2>2 DEF IsInjective
    <3> QED BY <1>0, <1>1, <3>1
  <2>3. CASE i \in 1..Len(s) /\ u[i] = s[i] /\ j - Len(s) \in 1..Len(t) /\ u[j] = t[j - Len(s)]
    BY <1>0, <1>6, <2>3 DEF In
  <2>4. CASE j \in 1..Len(s) /\ u[j] = s[j] /\ i - Len(s) \in 1..Len(t) /\ u[i] = t[i - Len(s)]
    BY <1>0, <1>6, <2>4 DEF In
  <2> QED BY <1>4, <2>1, <2>2, <2>3, <2>4
<1>7. IsInjective(s) /\ IsInjective(t) /\ In(s) \cap In(t) = {} => IsInjective(u)
  BY <1>6 DEF IsInjective
<1> QED BY <1>5, <1>7 DEF u

\* A pointer splits its list into what is before it and what is from there.
LEMMA BeforeFrom ==
  ASSUME NEW s \in Seq(Objects), NEW p \in Pointers(s), IsInjective(s)
  PROVE  /\ Before(s, p) \in Seq(Objects) /\ From(s, p) \in Seq(Objects)
         /\ s = Before(s, p) \o From(s, p)
         /\ IsInjective(Before(s, p)) /\ IsInjective(From(s, p))
         /\ In(s) = In(Before(s, p)) \cup In(From(s, p))
         /\ In(Before(s, p)) = In(s) \ In(From(s, p))
         /\ p = NULL => Before(s, p) = s /\ From(s, p) = << >>
         /\ p # NULL => From(s, p) # << >> /\ Head(From(s, p)) = p
         /\ First(From(s, p)) = p
<1> DEFINE k == Place(s, p)
           a == Before(s, p)
           b == From(s, p)
<1>1. /\ k \in 1..(Len(s) + 1)
      /\ p = NULL => k = Len(s) + 1
      /\ p # NULL => k \in DOMAIN s /\ s[k] = p
  BY PlaceIs
<1>2. /\ a \in Seq(Objects) /\ b \in Seq(Objects) /\ s = a \o b
      /\ Len(a) = k - 1 /\ Len(b) = Len(s) + 1 - k
      /\ \A i \in 1..(Len(s) + 1 - k) : b[i] = s[k - 1 + i]
  BY <1>1, SplitIs DEF Before, From
<1> HIDE DEF a, b, k
<1>3. IsInjective(a) /\ IsInjective(b) /\ In(a) \cap In(b) = {}
  BY <1>2, OnceConcat
<1>4. In(s) = In(a) \cup In(b)
  BY <1>2, InConcat
<1>5. ASSUME p = NULL PROVE a = s /\ b = << >>
  <2>1. Len(b) = 0
    BY <1>1, <1>2, <1>5
  <2>2. b = << >>
    BY <1>2, <2>1
  <2> QED BY <1>2, <2>2
<1>6. ASSUME p # NULL PROVE b # << >> /\ Head(b) = p /\ b[1] = p
  <2>1. Len(b) >= 1 /\ 1 \in 1..(Len(s) + 1 - k)
    BY <1>1, <1>2, <1>6
  <2>2. b[1] = s[k]
    BY <1>1, <1>2, <2>1
  <2> QED BY <1>1, <1>2, <1>6, <2>1, <2>2
<1>7. First(b) = p
  BY <1>5, <1>6 DEF First
<1> QED BY <1>2, <1>3, <1>4, <1>5, <1>6, <1>7 DEF a, b

\* The first element of a list is a pointer into it.
LEMMA FirstIs ==
  ASSUME NEW s \in Seq(Objects)
  PROVE  First(s) \in Pointers(s) /\ (First(s) = NULL <=> s = << >>)
<1>1. CASE s = << >>
  BY <1>1 DEF First, Pointers
<1>2. CASE s # << >>
  <2>1. 1 \in DOMAIN s /\ s[1] \in Objects
    BY <1>2
  <2> QED BY <1>2, <2>1, Null DEF First, Pointers, In
<1> QED BY <1>1, <1>2

\* A pointer to the first element of the second of two lists splits them again.
LEMMA FromConcat ==
  ASSUME NEW s \in Seq(Objects), NEW t \in Seq(Objects), IsInjective(s \o t)
  PROVE  /\ From(s \o t, First(t)) = t /\ Before(s \o t, First(t)) = s
         /\ First(t) \in Pointers(s \o t)
         /\ \A p \in Pointers(t) : From(s \o t, p) = From(t, p)
<1> DEFINE u == s \o t
<1>1. u \in Seq(Objects) /\ Len(u) = Len(s) + Len(t) /\ DOMAIN u = 1..(Len(s) + Len(t))
      /\ \A i \in 1..Len(t) : u[Len(s) + i] = t[i]
  OBVIOUS
<1>2. \A i \in 1..Len(s) : u[i] = s[i]
  OBVIOUS
<1>3. In(u) = In(s) \cup In(t)
  BY InConcat
<1>4. Len(s) \in Nat /\ Len(t) \in Nat /\ DOMAIN s = 1..Len(s) /\ DOMAIN t = 1..Len(t)
  OBVIOUS
<1> HIDE DEF u
<1>5. ASSUME NEW p \in Pointers(t)
      PROVE  Place(u, p) = Len(s) + Place(t, p) /\ Place(t, p) \in 1..(Len(t) + 1)
  <2>1. /\ Place(t, p) \in 1..(Len(t) + 1)
        /\ p = NULL => Place(t, p) = Len(t) + 1
        /\ p # NULL => Place(t, p) \in DOMAIN t /\ t[Place(t, p)] = p
    BY PlaceIs
  <2>2. p \in Pointers(u)
    BY <1>3 DEF Pointers
  <2>3. /\ p = NULL => Place(u, p) = Len(u) + 1
        /\ p # NULL => Place(u, p) \in DOMAIN u /\ u[Place(u, p)] = p
    BY <1>1, <2>2, PlaceIs
  <2>4. CASE p = NULL
    BY <1>1, <1>4, <2>1, <2>3, <2>4
  <2>5. CASE p # NULL
    <3>1. Len(s) + Place(t, p) \in DOMAIN u /\ u[Len(s) + Place(t, p)] = p
      BY <1>1, <1>4, <2>1, <2>5
    <3>2. IsInjective(u)
      BY DEF u
    <3> QED BY <2>1, <2>3, <2>5, <3>1, <3>2 DEF IsInjective
  <2> QED BY <2>4, <2>5
<1>6. ASSUME NEW p \in Pointers(t) PROVE From(u, p) = From(t, p)
  <2> DEFINE k == Place(t, p)
             a == SubSeq(u, Len(s) + k, Len(u))
             b == SubSeq(t, k, Len(t))
  <2>1. k \in 1..(Len(t) + 1) /\ Place(u, p) = Len(s) + k
    BY <1>5
  <2>2. From(u, p) = a /\ From(t, p) = b
    BY <2>1 DEF From
  <2> HIDE DEF k
  <2>3. Len(s) + k \in 1..(Len(u) + 1)
    BY <1>1, <1>4, <2>1
  <2>4. /\ a \in Seq(Objects) /\ Len(a) = Len(u) + 1 - (Len(s) + k)
        /\ \A i \in 1..(Len(u) + 1 - (Len(s) + k)) : a[i] = u[(Len(s) + k) - 1 + i]
    BY <1>1, <2>3, SplitIs
  <2>5. /\ b \in Seq(Objects) /\ Len(b) = Len(t) + 1 - k
        /\ \A i \in 1..(Len(t) + 1 - k) : b[i] = t[k - 1 + i]
    BY <2>1, SplitIs
  <2> HIDE DEF a, b
  <2>6. Len(a) = Len(b)
    BY <1>1, <1>4, <2>1, <2>4, <2>5
  <2>7. ASSUME NEW i \in 1..Len(b) PROVE a[i] = b[i]
    <3>1. k - 1 + i \in 1..Len(t) /\ (Len(s) + k) - 1 + i = Len(s) + (k - 1 + i)
      BY <1>4, <2>1, <2>5
    <3>2. a[i] = u[(Len(s) + k) - 1 + i] /\ b[i] = t[k - 1 + i]
      BY <2>4, <2>5, <2>6
    <3> QED BY <1>1, <3>1, <3>2
  <2>8. a = b
    BY <2>4, <2>5, <2>6, <2>7
  <2> QED BY <2>2, <2>8
<1>7. First(t) \in Pointers(t)
  BY FirstIs
<1>8. First(t) \in Pointers(u)
  BY <1>3, <1>7 DEF Pointers
<1>9. Place(t, First(t)) = 1
  <2>1. IsInjective(t)
    BY OnceConcat
  <2>2. CASE t = << >>
    BY <2>2 DEF First, Place
  <2>3. CASE t # << >>
    <3>1. 1 \in DOMAIN t /\ First(t) = t[1] /\ First(t) # NULL
      BY <2>3, FirstIs DEF First
    <3>2. Place(t, First(t)) \in DOMAIN t /\ t[Place(t, First(t))] = First(t)
      BY <1>7, <3>1, PlaceIs
    <3> QED BY <2>1, <3>1, <3>2 DEF IsInjective
  <2> QED BY <2>2, <2>3
<1>10. From(t, First(t)) = t
  <2>1. SubSeq(t, 1, Len(t)) = t
    OBVIOUS
  <2> QED BY <1>9, <2>1 DEF From
<1>11. Before(u, First(t)) = s
  <2>1. Place(u, First(t)) = Len(s) + 1
    BY <1>5, <1>7, <1>9
  <2>2. Before(u, First(t)) = SubSeq(u, 1, Len(s))
    BY <1>4, <2>1 DEF Before
  <2>3. SubSeq(u, 1, Len(s)) = s
    BY DEF u
  <2> QED BY <2>2, <2>3
<1> QED BY <1>6, <1>7, <1>8, <1>10, <1>11 DEF u

\* Keep takes out of a list what is not in S.
LEMMA OnceKeep ==
  ASSUME NEW s \in Seq(Objects), IsInjective(s), NEW S
  PROVE  /\ Keep(s, S) \in Seq(Objects) /\ In(Keep(s, S)) = In(s) \cap S
         /\ IsInjective(Keep(s, S))
<1>1. /\ Keep(s, S) \in Seq(Objects) /\ In(Keep(s, S)) = In(s) \cap S
      /\ Follows(Keep(s, S), s, Len(s))
  BY KeepFacts
<1> DEFINE t == Keep(s, S)
<1> HIDE DEF t
<1>2. DOMAIN t = 1..Len(t) /\ DOMAIN s = 1..Len(s)
  BY <1>1 DEF t
<1>3. \A i, j \in 1..Len(t) : i < j => t[i] # t[j]
  BY SMTT(30), <1>1, <1>2 DEF Follows, IsInjective, t
<1>4. IsInjective(t)
  BY <1>1, <1>2, <1>3 DEF IsInjective, t
<1> QED BY <1>1, <1>4 DEF t

\* Unlink takes one element out of a list.
LEMMA UnlinkIs ==
  ASSUME NEW s \in Seq(Objects), IsInjective(s), NEW o \in In(s)
  PROVE  /\ Unlink(s, o) \in Seq(Objects) /\ In(Unlink(s, o)) = In(s) \ {o}
         /\ IsInjective(Unlink(s, o))
         /\ From(s, o) # << >> /\ Tail(From(s, o)) \in Seq(Objects)
         /\ In(Tail(From(s, o))) = In(From(s, o)) \ {o} /\ o \in In(From(s, o))
         /\ s = Before(s, o) \o From(s, o) /\ Unlink(s, o) = Before(s, o) \o Tail(From(s, o))
         /\ Before(s, o) \in Seq(Objects)
<1> DEFINE a == Before(s, o)
           b == From(s, o)
<1>0. o \in Pointers(s) /\ o # NULL
  BY InType, Null DEF Pointers
<1>1. /\ a \in Seq(Objects) /\ b \in Seq(Objects) /\ s = a \o b
      /\ IsInjective(a) /\ IsInjective(b)
      /\ In(s) = In(a) \cup In(b) /\ In(a) = In(s) \ In(b)
      /\ b # << >> /\ Head(b) = o
  BY <1>0, BeforeFrom
<1>2. Unlink(s, o) = a \o Tail(b)
  BY DEF Unlink
<1> HIDE DEF a, b
<1>3. Tail(b) \in Seq(Objects) /\ In(b) = {o} \cup In(Tail(b)) /\ b = <<o>> \o Tail(b) /\ <<o>> \in Seq(Objects)
  BY <1>1, InHeadTail
<1>31. IsInjective(<<o>> \o Tail(b))
  BY <1>1, <1>3
<1>4. IsInjective(Tail(b)) /\ In(<<o>>) \cap In(Tail(b)) = {}
  <2> DEFINE c == <<o>>
             d == Tail(b)
  <2> HIDE DEF c, d
  <2>1. c \in Seq(Objects) /\ d \in Seq(Objects) /\ IsInjective(c \o d)
    BY <1>3, <1>31 DEF c, d
  <2>2. IsInjective(d) /\ In(c) \cap In(d) = {}
    BY <2>1, OnceConcat
  <2> QED BY <2>2 DEF c, d
<1>5. o \notin In(Tail(b))
  BY <1>4 DEF In
<1>6. IsInjective(a \o Tail(b)) /\ In(a \o Tail(b)) = In(a) \cup In(Tail(b))
  <2> DEFINE d == Tail(b)
  <2> HIDE DEF d
  <2>1. d \in Seq(Objects) /\ IsInjective(d) /\ In(a) \cap In(d) = {}
    BY <1>1, <1>3, <1>4 DEF d
  <2>2. IsInjective(a \o d) /\ In(a \o d) = In(a) \cup In(d)
    BY <1>1, <2>1, OnceConcat, InConcat
  <2> QED BY <2>2 DEF d
<1>7. a \o Tail(b) \in Seq(Objects)
  BY <1>1, <1>3
<1> QED BY <1>1, <1>2, <1>3, <1>5, <1>6, <1>7 DEF a, b

\* Each object in use is in one of the lists of objects, once.
Lists(s) ==
  /\ IsInjective(s.allgc) /\ IsInjective(s.finobj) /\ IsInjective(s.tobefnz)
  /\ In(s.allgc) \cap In(s.finobj) = {} /\ In(s.allgc) \cap In(s.tobefnz) = {}
  /\ In(s.finobj) \cap In(s.tobefnz) = {}
  /\ InUse(s) = In(s.allgc) \cup In(s.finobj) \cup In(s.tobefnz)
(* Pointers into a list, in this order.  *)
Divided(list, p, q, r) ==
  /\ p \in Pointers(list) /\ q \in Pointers(From(list, p)) /\ r \in Pointers(From(list, q))

\* Two pointers in order split a list into three.
LEMMA ThreeParts ==
  ASSUME NEW s \in Seq(Objects), IsInjective(s), NEW p \in Pointers(s),
         NEW q \in Pointers(From(s, p))
  PROVE  LET a == Before(s, p)
             b == Before(From(s, p), q)
             c == From(s, q)
         IN  /\ a \in Seq(Objects) /\ b \in Seq(Objects) /\ c \in Seq(Objects)
             /\ IsInjective(a) /\ IsInjective(b) /\ IsInjective(c)
             /\ s = a \o (b \o c) /\ From(s, p) = b \o c /\ First(c) = q
             /\ In(a) \cap In(b) = {} /\ In(a) \cap In(c) = {} /\ In(b) \cap In(c) = {}
             /\ In(s) = In(a) \cup In(b) \cup In(c) /\ q \in Pointers(s)
             /\ In(From(s, p)) = In(b) \cup In(c) /\ In(Before(s, q)) = In(a) \cup In(b)
<1> DEFINE a == Before(s, p)
           d == From(s, p)
           b == Before(d, q)
           c == From(s, q)
<1>1. /\ a \in Seq(Objects) /\ d \in Seq(Objects) /\ s = a \o d
      /\ IsInjective(a) /\ IsInjective(d) /\ In(s) = In(a) \cup In(d)
      /\ In(a) = In(s) \ In(d) /\ First(d) = p
  BY BeforeFrom
<1>2. From(s, q) = From(d, q)
  <2> HIDE DEF a, d
  <2>1. IsInjective(a \o d)
    BY <1>1
  <2>2. From(a \o d, q) = From(d, q)
    BY <1>1, <2>1, FromConcat DEF d
  <2> QED BY <1>1, <2>2
<1>3. /\ b \in Seq(Objects) /\ c \in Seq(Objects) /\ d = b \o c
      /\ IsInjective(b) /\ IsInjective(c) /\ In(d) = In(b) \cup In(c)
      /\ In(b) = In(d) \ In(c) /\ First(c) = q
  <2>1. q \in Pointers(d)
    OBVIOUS
  <2> HIDE DEF d
  <2>2. /\ Before(d, q) \in Seq(Objects) /\ From(d, q) \in Seq(Objects)
        /\ d = Before(d, q) \o From(d, q)
        /\ IsInjective(Before(d, q)) /\ IsInjective(From(d, q))
        /\ In(d) = In(Before(d, q)) \cup In(From(d, q))
        /\ In(Before(d, q)) = In(d) \ In(From(d, q)) /\ First(From(d, q)) = q
    BY <1>1, <2>1, BeforeFrom
  <2> QED BY <1>2, <2>2
<1>4. q \in Pointers(s)
  BY <1>1 DEF Pointers
<1>5. In(Before(s, q)) = In(s) \ In(c)
  BY <1>4, BeforeFrom
<1> QED BY <1>1, <1>3, <1>4, <1>5

\* separatetobefnz moves objects from finobj to tobefnz, and the pointers still divide
\* finobj.
LEMMA SeparateIs ==
  ASSUME NEW s \in StateType, Lists(s), Divided(s.finobj, s.finobjsur, s.finobjold1, s.finobjrold)
  PROVE  LET t == SeparateToBeFnz(s)
         IN  /\ t \in StateType /\ Same(s, t, {"finobj", "tobefnz", "finobjsur"}) /\ Lists(t)
             /\ Divided(t.finobj, t.finobjsur, t.finobjold1, t.finobjrold)
             /\ In(s.tobefnz) \subseteq In(t.tobefnz) /\ In(t.finobj) \subseteq In(s.finobj)
             /\ In(t.tobefnz) \subseteq In(s.tobefnz) \cup In(s.finobj)
             /\ In(From(t.finobj, t.finobjsur)) \subseteq In(From(s.finobj, s.finobjsur))
             /\ From(t.finobj, t.finobjold1) = From(s.finobj, s.finobjold1)
             /\ t.finobjsur = NULL <=> From(t.finobj, t.finobjsur) = << >>
<1> DEFINE L == s.finobj
           p == s.finobjsur
           q == s.finobjold1
           w == { o \in Objects : IsWhite(s, o) }
           live == Objects \ w
           a == Before(L, p)
           b == Before(From(L, p), q)
           c == From(L, q)
           y == Before(L, q)
           R == Keep(b, live) \o c
           F == Keep(a, live) \o R
           B == s.tobefnz \o Keep(y, w)
           t == SeparateToBeFnz(s)
<1>0. /\ s.allgc \in Seq(Objects) /\ L \in Seq(Proper) /\ s.tobefnz \in Seq(Proper)
      /\ L \in Seq(Objects) /\ s.tobefnz \in Seq(Objects)
  BY DEF StateType, Proper
<1>1. t = [s EXCEPT !.finobj = F, !.tobefnz = B, !.finobjsur = First(R)]
  BY DEF SeparateToBeFnz, StateType
<1>2. /\ a \in Seq(Objects) /\ b \in Seq(Objects) /\ c \in Seq(Objects)
      /\ IsInjective(a) /\ IsInjective(b) /\ IsInjective(c)
      /\ L = a \o (b \o c) /\ From(L, p) = b \o c /\ First(c) = q
      /\ In(a) \cap In(b) = {} /\ In(a) \cap In(c) = {} /\ In(b) \cap In(c) = {}
      /\ In(L) = In(a) \cup In(b) \cup In(c) /\ q \in Pointers(L)
      /\ In(From(L, p)) = In(b) \cup In(c) /\ In(y) = In(a) \cup In(b)
  <2>1. IsInjective(L) /\ p \in Pointers(L) /\ q \in Pointers(From(L, p))
    BY DEF Lists, Divided
  <2> HIDE DEF L, p, q
  <2> QED BY SMTT(30), <1>0, <2>1, ThreeParts
<1>3. y \in Seq(Objects) /\ IsInjective(y)
  BY <1>0, <1>2, BeforeFrom DEF Lists
<1>4. In(L) \subseteq Proper /\ In(s.tobefnz) \subseteq Proper
  BY <1>0, InType
<1> HIDE DEF a, b, c, y, w, live
<1>5. /\ Keep(a, live) \in Seq(Objects) /\ In(Keep(a, live)) = In(a) \cap live
      /\ IsInjective(Keep(a, live))
      /\ Keep(b, live) \in Seq(Objects) /\ In(Keep(b, live)) = In(b) \cap live
      /\ IsInjective(Keep(b, live))
      /\ Keep(y, w) \in Seq(Objects) /\ In(Keep(y, w)) = In(y) \cap w
      /\ IsInjective(Keep(y, w))
  BY <1>2, <1>3, OnceKeep
<1>6. R \in Seq(Objects) /\ IsInjective(R) /\ In(R) = (In(b) \cap live) \cup In(c)
  BY <1>2, <1>5, OnceConcat, InConcat
<1>7. F \in Seq(Objects) /\ IsInjective(F) /\ In(F) = (In(a) \cap live) \cup In(R)
  <2> HIDE DEF R
  <2> QED BY <1>2, <1>5, <1>6, OnceConcat, InConcat
<1>8. B \in Seq(Objects) /\ IsInjective(B) /\ In(B) = In(s.tobefnz) \cup (In(y) \cap w)
  <2>1. In(s.tobefnz) \cap In(y) = {}
    BY <1>2 DEF Lists
  <2>2. IsInjective(s.tobefnz)
    BY DEF Lists
  <2> QED BY <1>0, <1>5, <2>1, <2>2, OnceConcat, InConcat
<1>9. live \cup w = Objects /\ live \cap w = {}
  BY DEF live, w
<1>10. From(F, First(R)) = R /\ First(R) \in Pointers(F)
       /\ \A x \in Pointers(R) : From(F, x) = From(R, x)
  <2> HIDE DEF R
  <2> QED BY <1>5, <1>6, <1>7, FromConcat
<1>11. From(R, q) = c /\ q \in Pointers(R)
  BY <1>2, <1>5, <1>6, FromConcat
<1>12. First(R) \in Pointers(R) /\ (First(R) = NULL <=> R = << >>)
  BY <1>6, FirstIs
<1> HIDE DEF R, F, B, t
<1>13. In(F) \subseteq Proper /\ In(B) \subseteq Proper /\ In(F) \cap In(B) = {}
       /\ In(F) \cup In(B) = In(L) \cup In(s.tobefnz) /\ In(F) \subseteq In(L)
  <2>1. In(L) \cap In(s.tobefnz) = {}
    BY DEF Lists
  <2>2. In(a) \subseteq Objects /\ In(b) \subseteq Objects /\ In(c) \subseteq Objects
    BY <1>2, InType
  <2> QED BY <1>2, <1>4, <1>6, <1>7, <1>8, <1>9, <2>1, <2>2
<1>14. F \in Seq(Proper) /\ B \in Seq(Proper)
  <2>1. ASSUME NEW z \in Seq(Objects), In(z) \subseteq Proper PROVE z \in Seq(Proper)
    <3>1. \A i \in 1..Len(z) : z[i] \in Proper
      BY <2>1 DEF In
    <3> QED BY <3>1
  <2> QED BY <1>7, <1>8, <1>13, <2>1
<1>15. First(R) \in OrNull(Objects)
  BY <1>6, <1>12, InType DEF Pointers, OrNull
<1>16. /\ t \in StateType /\ Same(s, t, {"finobj", "tobefnz", "finobjsur"})
       /\ t.finobj = F /\ t.tobefnz = B /\ t.finobjsur = First(R)
  BY <1>1, <1>14, <1>15 DEF StateType, Same, Fields
<1>17. t.allgc = s.allgc /\ t.color = s.color /\ t.finobjold1 = q /\ t.finobjrold = s.finobjrold
  BY <1>16 DEF Same, Fields
<1>18. Lists(t)
  <2>1. InUse(t) = InUse(s)
    BY <1>17 DEF InUse
  <2>2. IsInjective(s.allgc) /\ In(s.allgc) \cap In(L) = {} /\ In(s.allgc) \cap In(s.tobefnz) = {}
        /\ InUse(s) = In(s.allgc) \cup In(s.finobj) \cup In(s.tobefnz)
    BY DEF Lists
  <2>3. In(s.allgc) \cap In(F) = {} /\ In(s.allgc) \cap In(B) = {}
    BY <1>13, <2>2
  <2>4. InUse(t) = In(s.allgc) \cup In(F) \cup In(B)
    BY <1>13, <2>1, <2>2
  <2> QED BY <1>7, <1>8, <1>13, <1>16, <1>17, <2>2, <2>3, <2>4 DEF Lists
<1>19. From(F, q) = c
  BY <1>10, <1>11
<1>20. Divided(t.finobj, t.finobjsur, t.finobjold1, t.finobjrold)
  <2>1. s.finobjrold \in Pointers(c)
    BY DEF Divided, c
  <2> QED BY <1>10, <1>11, <1>16, <1>17, <1>19, <2>1 DEF Divided
<1>21. In(R) \subseteq In(From(L, p))
  BY <1>2, <1>6
<1>22. In(s.tobefnz) \subseteq In(B) /\ In(B) \subseteq In(s.tobefnz) \cup In(L)
  BY <1>2, <1>8
<1> QED BY <1>10, <1>12, <1>13, <1>16, <1>17, <1>18, <1>19, <1>20, <1>21, <1>22 DEF t, c

(* What marking neither reads nor changes.  *)
Unseen == {"allgc", "finobj", "tobefnz", "survival", "old1", "reallyold", "firstold1",
           "finobjsur", "finobjold1", "finobjrold", "gckind", "sweepgc", "emergency", "infin"}

\* The trace does not depend on the lists of objects or the state of the sweep.
LEMMA UnseenTrace ==
  ASSUME NEW s \in StateType, NEW t \in StateType, Same(s, t, Unseen)
  PROVE  /\ Shape(s) => Shape(t)
         /\ \A X, r : Trace(s, X, r) => Trace(t, X, r)
         /\ \A o \in Objects : Refs(s, o) = Refs(t, o) /\ (Full(s, o) <=> Full(t, o))
         /\ t.color = s.color /\ t.age = s.age /\ t.val = s.val /\ t.key = s.key
         /\ t.open = s.open /\ t.stack = s.stack /\ t.gcstate = s.gcstate
         /\ t.twups = s.twups /\ t.gray = s.gray /\ t.grayagain = s.grayagain
         /\ t.weak = s.weak /\ t.allweak = s.allweak /\ t.ephemeron = s.ephemeron
<1>1. /\ t.color = s.color /\ t.age = s.age /\ t.val = s.val /\ t.key = s.key
      /\ t.open = s.open /\ t.stack = s.stack /\ t.gcstate = s.gcstate
      /\ t.twups = s.twups /\ t.gray = s.gray /\ t.grayagain = s.grayagain
      /\ t.weak = s.weak /\ t.allweak = s.allweak /\ t.ephemeron = s.ephemeron
  BY DEF Same, Fields, Unseen
<1>2. Shape(s) => Shape(t)
  BY <1>1 DEF Shape, ShapeOf, InUse
<1>3. ASSUME NEW o \in Objects PROVE Refs(s, o) = Refs(t, o) /\ (Full(s, o) <=> Full(t, o))
  <2>1. Refs(s, o) = Refs(t, o)
    BY <1>1 DEF Refs, Stack, OpenUpvals, UpvalValue
  <2> QED BY <1>1, <2>1 DEF Full, IsWhite
<1>4. ASSUME NEW X, NEW r, Trace(s, X, r) PROVE Trace(t, X, r)
  <2>1. Pending(s) = Pending(t) /\ Later(s) = Later(t) /\ Marked(s) = Marked(t)
    BY <1>1 DEF Pending, Later, Marked
  <2>2. ASSUME NEW o \in Objects PROVE TraceOf(t, X, r, o)
    <3>1. TraceOf(s, X, r, o)
      BY <1>4 DEF Trace
    <3>2. Visited(s, o, r) => Visited(t, o, r)
      BY <1>1, <1>3 DEF Visited, IsWhite
    <3> QED BY <1>1, <2>1, <3>1, <3>2 DEF TraceOf, IsGray, IsOld, IsBlack, IsWhite
  <2> QED BY <1>1, <1>4, <2>1, <2>2 DEF Trace
<1> QED BY <1>1, <1>2, <1>3, <1>4

\* A cleared entry stays cleared when more is marked.
LEMMA ClearedStays ==
  ASSUME NEW s \in StateType, NEW t, Marks(s, t), NEW h \in Objects, NEW f \in {"val", "key"},
         Cleared(s, h, f)
  PROVE  Cleared(t, h, f)
<1>1. CASE f = "val"
  <2>1. s.val[h] \in OrNull(Objects) /\ (t.val[h] = s.val[h] \/ t.val[h] = NULL)
    BY DEF Marks, StateType, OrNull, Proper
  <2> QED BY <1>1, <2>1, MarksWhite DEF Cleared, OrNull
<1>2. CASE f = "key"
  <2>1. s.key[h] \in OrNull(Objects) /\ (t.key[h] = s.key[h] \/ t.key[h] = NULL)
    BY DEF Marks, StateType, OrNull, Proper
  <2> QED BY <1>2, <2>1, MarksWhite DEF Cleared, OrNull
<1> QED BY <1>1, <1>2

(* The finalizers found in an atomic phase: what waits for one is marked, and  *)
(* the lists change as separatetobefnz does.                                   *)
LEMMA ResurrectTrace ==
  ASSUME NEW s \in StateType, KindOK, Shape(s), Trace(s, {}, TRUE), s.gray = {},
         s.gcstate = "atomic", Lists(s),
         Divided(s.finobj, s.finobjsur, s.finobjold1, s.finobjrold),
         NEW p, p = SeparateToBeFnz(s)
  PROVE  LET t == Resurrect(s)
         IN  /\ p \in StateType /\ Settled(p, t, {}, TRUE) /\ Converged(t)
             /\ \A o \in In(t.tobefnz) : ~IsWhite(t, o)
<1> DEFINE S == In(p.tobefnz)
           m == Mark(p, S)
           q == PropagateAll(m)
           t == Resurrect(s)
<1>1. p \in StateType /\ Same(s, p, {"finobj", "tobefnz", "finobjsur"})
  BY SeparateIs
<1>2. Same(s, p, Unseen)
  BY <1>1 DEF Same, Unseen
<1>3. Shape(p) /\ Trace(p, {}, TRUE) /\ p.gray = {} /\ p.gcstate = "atomic"
  BY <1>1, <1>2, UnseenTrace
<1>4. S \in SUBSET OrNull(Objects)
  <2>1. p.tobefnz \in Seq(Proper)
    BY <1>1 DEF StateType
  <2> QED BY <2>1, InType DEF OrNull, Proper
<1>5. t = ConvergeEphemerons(q)
  BY DEF Resurrect, MarkBeingFnz
<1>6. /\ Marks(p, m) /\ Shape(m) /\ Trace(m, {}, TRUE)
      /\ \A o \in S : o # NULL => ~IsWhite(m, o)
  BY <1>1, <1>3, <1>4, MarkTrace
<1> HIDE DEF m
<1>7. m \in StateType /\ m.gcstate = "atomic"
  BY <1>3, <1>6, MarksSame DEF Marks
<1>8. Traversed(m, q, {}, TRUE) /\ q.gray = {}
  BY <1>6, <1>7, PropagateAllTrace
<1> HIDE DEF q
<1>9. Marks(m, q) /\ Shape(q) /\ Trace(q, {}, TRUE) /\ q \in StateType
  BY <1>8 DEF Traversed, Marks
<1>10. Marks(p, q)
  BY <1>6, <1>9, MarksTrans
<1>11. q.gcstate = "atomic"
  BY <1>3, <1>10, MarksSame
<1>12. Settled(q, t, {}, TRUE) /\ Converged(t)
  BY <1>5, <1>8, <1>9, <1>11, ConvergeTrace
<1> HIDE DEF t
<1>13. Marks(q, t)
  BY <1>12 DEF Settled
<1>14. Marks(p, t) /\ Marks(m, t)
  BY <1>9, <1>10, <1>13, MarksTrans
<1>15. ASSUME NEW o \in In(t.tobefnz) PROVE ~IsWhite(t, o)
  <2>1. t.tobefnz = p.tobefnz
    BY <1>14, MarksSame
  <2>2. o \in S /\ o \in Objects
    <3>1. p.tobefnz \in Seq(Proper)
      BY <1>1 DEF StateType
    <3> QED BY <1>15, <2>1, <3>1, InType DEF Proper
  <2> QED BY <1>6, <1>14, <2>2, MarksWhite, Null
<1> QED BY <1>1, <1>12, <1>14, <1>15 DEF Settled, t

(* A state of the atomic phase with nothing left to visit.  *)
Quiet(s) ==
  s \in StateType /\ Shape(s) /\ Trace(s, {}, TRUE) /\ s.gray = {} /\ s.gcstate = "atomic"

(* Two clearings by the same field, of the tables in S and in T.  *)
LEMMA ClearTwice ==
  ASSUME NEW s, Quiet(s), KindOK, NEW f \in {"val", "key"},
         NEW S \in SUBSET { o \in Objects : kind[o] \in WeakKinds },
         NEW T \in SUBSET { o \in Objects : kind[o] \in WeakKinds }
  PROVE  LET t == ClearBy(ClearBy(s, S, f), T, f)
         IN  /\ Quiet(t) /\ Settled(s, t, {}, TRUE) /\ Same(s, t, {"color", "val", "key"})
             /\ \A h \in S \cup T : Cleared(t, h, f)
             /\ \A h \in S : IsCleared(s, s[f][h]) => t.val[h] = NULL /\ t.key[h] = NULL
<1> DEFINE u == ClearBy(s, S, f)
           t == ClearBy(u, T, f)
<1>1. s \in StateType /\ Shape(s) /\ Trace(s, {}, TRUE) /\ s.gray = {} /\ s.gcstate = "atomic"
  BY DEF Quiet
<1>2. /\ Settled(s, u, {}, TRUE) /\ Same(s, u, {"color", "val", "key"})
      /\ \A h \in S : Cleared(u, h, f)
      /\ \A h \in S : IsCleared(s, s[f][h]) => u.val[h] = NULL /\ u.key[h] = NULL
  BY <1>1, ClearByTrace
<1> HIDE DEF u
<1>3. Marks(s, u) /\ Shape(u) /\ Trace(u, {}, TRUE) /\ u.gray = {} /\ u \in StateType
  BY <1>2 DEF Settled, Marks
<1>4. /\ Settled(u, t, {}, TRUE) /\ Same(u, t, {"color", "val", "key"})
      /\ \A h \in T : Cleared(t, h, f)
  BY <1>3, ClearByTrace
<1> HIDE DEF t
<1>5. Marks(u, t) /\ Shape(t) /\ Trace(t, {}, TRUE) /\ t.gray = {} /\ t \in StateType
  BY <1>4 DEF Settled, Marks
<1>6. Marks(s, t)
  BY <1>3, <1>5, MarksTrans
<1>7. t.gcstate = "atomic"
  BY <1>1, <1>6, MarksSame
<1>8. Same(s, t, {"color", "val", "key"})
  BY <1>2, <1>4 DEF Same
<1>9. \A h \in S : Cleared(t, h, f)
  BY <1>2, <1>3, <1>5, ClearedStays
<1>10. ASSUME NEW h \in S, IsCleared(s, s[f][h]) PROVE t.val[h] = NULL /\ t.key[h] = NULL
  <2>1. u.val[h] = NULL /\ u.key[h] = NULL
    BY <1>2, <1>10
  <2> QED BY <1>5, <2>1 DEF Marks
<1> QED BY <1>4, <1>5, <1>6, <1>7, <1>8, <1>9, <1>10 DEF Quiet, Settled, u, t

\* The lists of weak tables hold weak tables.
LEMMA WeakTables ==
  ASSUME NEW s, Quiet(s)
  PROVE  /\ s.weak \in SUBSET { o \in Objects : kind[o] \in WeakKinds }
         /\ s.allweak \in SUBSET { o \in Objects : kind[o] \in WeakKinds }
         /\ s.ephemeron \in SUBSET { o \in Objects : kind[o] \in WeakKinds }
  BY DEF Quiet, Trace, WeakKinds

\* Weak values are cleared before the resurrection.
LEMMA ClearWeakValuesIs ==
  ASSUME NEW s, Quiet(s), KindOK
  PROVE  LET t == ClearWeakValues(s)
         IN  /\ Quiet(t) /\ Marks(s, t) /\ Same(s, t, {"color", "val", "key"})
             /\ \A h \in t.weak \cup t.allweak : Cleared(t, h, "val")
<1> DEFINE u == ClearBy(s, s.weak, "val")
           t == ClearBy(u, s.allweak, "val")
<1>0. s \in StateType /\ Shape(s) /\ Trace(s, {}, TRUE) /\ s.gray = {}
  BY DEF Quiet
<1>1. Same(s, u, {"color", "val", "key"})
  BY <1>0, WeakTables, ClearByTrace
<1>2. u.allweak = s.allweak
  BY <1>1 DEF Same, Fields
<1>3. ClearWeakValues(s) = t
  BY <1>2 DEF ClearWeakValues, ClearByValues
<1>4. /\ Quiet(t) /\ Settled(s, t, {}, TRUE) /\ Same(s, t, {"color", "val", "key"})
      /\ \A h \in s.weak \cup s.allweak : Cleared(t, h, "val")
  BY WeakTables, ClearTwice
<1> HIDE DEF t
<1>5. t.weak = s.weak /\ t.allweak = s.allweak
  BY <1>4 DEF Same, Fields
<1> QED BY <1>3, <1>4, <1>5 DEF Settled

\* Keys are cleared after it.
LEMMA ClearWeakKeysIs ==
  ASSUME NEW s, Quiet(s), KindOK, Converged(s)
  PROVE  LET t == ClearWeakKeys(s)
         IN  /\ Quiet(t) /\ Marks(s, t) /\ Same(s, t, {"color", "val", "key"})
             /\ \A h \in t.allweak : Cleared(t, h, "key")
             /\ \A h \in t.ephemeron : t.val[h] = NULL /\ t.key[h] = NULL
<1> DEFINE u == ClearBy(s, s.ephemeron, "key")
           t == ClearBy(u, s.allweak, "key")
<1>0. s \in StateType /\ Shape(s) /\ Trace(s, {}, TRUE) /\ s.gray = {}
  BY DEF Quiet
<1>1. Same(s, u, {"color", "val", "key"})
  BY <1>0, WeakTables, ClearByTrace
<1>2. u.allweak = s.allweak
  BY <1>1 DEF Same, Fields
<1>3. ClearWeakKeys(s) = t
  BY <1>2 DEF ClearWeakKeys, ClearByKeys
<1>4. /\ Quiet(t) /\ Settled(s, t, {}, TRUE) /\ Same(s, t, {"color", "val", "key"})
      /\ \A h \in s.ephemeron \cup s.allweak : Cleared(t, h, "key")
      /\ \A h \in s.ephemeron : IsCleared(s, s["key"][h]) => t.val[h] = NULL /\ t.key[h] = NULL
  BY WeakTables, ClearTwice
<1> HIDE DEF t
<1>5. t.ephemeron = s.ephemeron /\ t.allweak = s.allweak
  BY <1>4 DEF Same, Fields
<1>6. \A h \in t.ephemeron : t.val[h] = NULL /\ t.key[h] = NULL
  BY <1>4, <1>5 DEF Converged
<1> QED BY <1>3, <1>4, <1>5, <1>6 DEF Settled

\* The values of the tables met by the resurrection are cleared too.
LEMMA ClearMetIs ==
  ASSUME NEW s, Quiet(s), KindOK, NEW before,
         \A h \in s.weak \cap before.weak : Cleared(s, h, "val"),
         \A h \in s.allweak \cap before.allweak : Cleared(s, h, "val"),
         \A h \in s.allweak : Cleared(s, h, "key"),
         \A h \in s.ephemeron : s.val[h] = NULL /\ s.key[h] = NULL
  PROVE  LET t == ClearMet(s, before)
         IN  /\ Quiet(t) /\ Marks(s, t) /\ Same(s, t, {"color", "val", "key"})
             /\ \A h \in t.weak \cup t.allweak : Cleared(t, h, "val")
             /\ \A h \in t.allweak : Cleared(t, h, "key")
             /\ \A h \in t.ephemeron : t.val[h] = NULL /\ t.key[h] = NULL
<1> DEFINE S == s.weak \ before.weak
           T == s.allweak \ before.allweak
           u == ClearBy(s, S, "val")
           t == ClearBy(u, T, "val")
<1>0. s \in StateType /\ Shape(s) /\ Trace(s, {}, TRUE) /\ s.gray = {}
  BY DEF Quiet
<1>1. /\ S \in SUBSET { o \in Objects : kind[o] \in WeakKinds }
      /\ T \in SUBSET { o \in Objects : kind[o] \in WeakKinds }
  BY WeakTables
<1>2. Same(s, u, {"color", "val", "key"})
  BY <1>0, <1>1, ClearByTrace
<1>3. u.allweak = s.allweak
  BY <1>2 DEF Same, Fields
<1>4. ClearMet(s, before) = t
  BY <1>3 DEF ClearMet, ClearByValues
<1> HIDE DEF u
<1>5. /\ Quiet(t) /\ Settled(s, t, {}, TRUE) /\ Same(s, t, {"color", "val", "key"})
      /\ \A h \in S \cup T : Cleared(t, h, "val")
  BY <1>1, ClearTwice DEF u
<1> HIDE DEF t
<1>6. t.weak = s.weak /\ t.allweak = s.allweak /\ t.ephemeron = s.ephemeron /\ Marks(s, t)
  BY <1>5 DEF Same, Fields, Settled
<1>7. s.weak \cup s.allweak \cup s.ephemeron \subseteq Objects
  BY <1>0 DEF StateType
<1>8. \A h \in t.weak \cup t.allweak : Cleared(t, h, "val")
  BY <1>0, <1>5, <1>6, <1>7, ClearedStays
<1>9. \A h \in t.allweak : Cleared(t, h, "key")
  BY <1>0, <1>6, <1>7, ClearedStays
<1>10. \A h \in t.ephemeron : t.val[h] = NULL /\ t.key[h] = NULL
  BY <1>6, <1>7 DEF Marks
<1> QED BY <1>4, <1>5, <1>6, <1>8, <1>9, <1>10

(* When the weak tables have been cleared, nothing that is marked refers to what is not. *)
LEMMA AllFull ==
  ASSUME NEW s, Quiet(s), KindOK,
         \A h \in s.weak \cup s.allweak : Cleared(s, h, "val"),
         \A h \in s.allweak : Cleared(s, h, "key"),
         \A h \in s.ephemeron : s.val[h] = NULL /\ s.key[h] = NULL,
         NEW o \in Marked(s)
  PROVE  Full(s, o)
<1>0. s \in StateType /\ Shape(s) /\ Trace(s, {}, TRUE) /\ s.gray = {} /\ s.gcstate = "atomic"
  BY DEF Quiet
<1>1. \A x \in Objects : x \in Marked(s) => Visited(s, x, TRUE)
  BY <1>0 DEF Trace, TraceOf, Later
<1>2. o \in Objects /\ Visited(s, o, TRUE)
  BY <1>1 DEF Marked
<1>3. ASSUME s.open[o] # NULL, ~IsWhite(s, s.open[o]) PROVE Full(s, o)
  <2> DEFINE th == s.open[o]
  <2>1. /\ kind[o] = "upval" /\ kind[th] = "thread" /\ th \in InUse(s) /\ th \in Objects
        /\ th # MainThread
    BY <1>0, <1>2, <1>3 DEF Shape, ShapeOf, StateType, OrNull, Proper
  <2>2. th \in Marked(s)
    BY <1>0, <1>3, <2>1, MarkedWhite
  <2>3. s.open[th] = NULL
    BY <1>0, <2>1 DEF Shape, ShapeOf
  <2>4. Full(s, th)
    BY <1>1, <2>1, <2>2, <2>3 DEF Visited, WeakKinds
  <2>5. Refs(s, o) = {s.val[th]} \ {NULL}
    BY <1>2, <1>3, <2>1, RefsUpval DEF UpvalValue
  <2>6. {s.val[th]} \ {NULL} \subseteq Refs(s, th)
    BY <2>1, RefsThread DEF Stack
  <2> QED BY <2>4, <2>5, <2>6 DEF Full
<1>4. ASSUME kind[o] \in WeakKinds, Cleared(s, o, "val"), Cleared(s, o, "key") PROVE Full(s, o)
  <2>1. Refs(s, o) = {s.val[o], s.key[o]} \ {NULL}
    BY <1>2, <1>4, RefsOther DEF WeakKinds
  <2> QED BY <1>4, <2>1 DEF Full, Cleared
<1>5. CASE kind[o] = "weakvalue" /\ o \in s.weak /\ (s.key[o] # NULL => ~IsWhite(s, s.key[o]))
  BY <1>4, <1>5 DEF Cleared, WeakKinds
<1>6. CASE kind[o] = "ephemeron" /\ o \in s.ephemeron
  BY <1>4, <1>6 DEF Cleared, WeakKinds
<1>7. CASE kind[o] = "ephemeron" /\ o \in s.allweak
  BY <1>4, <1>7 DEF WeakKinds
<1>8. CASE kind[o] = "allweak" /\ o \in s.allweak
  BY <1>4, <1>8 DEF WeakKinds
<1> QED BY <1>2, <1>3, <1>5, <1>6, <1>7, <1>8 DEF Visited

(****************************************************************************)
(* The end of the atomic step                                               *)
(****************************************************************************)

\* Nothing is left of an earlier cycle.
NoDead(s) == \A o \in Objects : s.color[o] # "dead"

\* The flip of the whites changes no trace.
LEMMA FlipTrace ==
  ASSUME NEW s \in StateType
  PROVE  LET t == Flip(s)
         IN  /\ t \in StateType /\ Same(s, t, {"color"})
             /\ \A o \in Objects :
                  /\ t.color[o] = IF s.color[o] = "white" THEN "dead"
                                  ELSE IF s.color[o] = "dead" THEN "white" ELSE s.color[o]
                  /\ Refs(t, o) = Refs(s, o) /\ (Full(t, o) <=> Full(s, o))
             /\ Shape(s) => Shape(t)
             /\ \A X, r : Trace(s, X, r) => Trace(t, X, r)
<1> DEFINE C == [o \in Objects |-> CASE s.color[o] = "white" -> "dead" [] s.color[o] = "dead" -> "white"
                                     [] OTHER -> s.color[o]]
           t == Flip(s)
<1>1. t = [s EXCEPT !.color = C]
  BY DEF Flip
<1>2. C \in [Objects -> Colors]
  BY DEF StateType, Colors
<1> HIDE DEF t, C
<1>3. t \in StateType /\ Same(s, t, {"color"}) /\ t.color = C
  BY <1>1, <1>2 DEF StateType, Same, Fields
<1>4. /\ t.age = s.age /\ t.val = s.val /\ t.key = s.key
      /\ t.open = s.open /\ t.stack = s.stack /\ t.gcstate = s.gcstate
      /\ t.twups = s.twups /\ t.gray = s.gray /\ t.grayagain = s.grayagain
      /\ t.weak = s.weak /\ t.allweak = s.allweak /\ t.ephemeron = s.ephemeron
  BY <1>3 DEF Same, Fields
<1>5. ASSUME NEW o \in Objects
      PROVE  /\ t.color[o] = IF s.color[o] = "white" THEN "dead"
                             ELSE IF s.color[o] = "dead" THEN "white" ELSE s.color[o]
             /\ IsWhite(t, o) <=> IsWhite(s, o)
             /\ IsGray(t, o) <=> IsGray(s, o)
             /\ IsBlack(t, o) <=> IsBlack(s, o)
             /\ o \in InUse(t) <=> o \in InUse(s)
             /\ o \in Marked(t) <=> o \in Marked(s)
  <2>1. t.color[o] = IF s.color[o] = "white" THEN "dead"
                     ELSE IF s.color[o] = "dead" THEN "white" ELSE s.color[o]
    BY <1>3 DEF C
  <2> QED BY <2>1 DEF IsWhite, IsGray, IsBlack, InUse, Marked
<1>6. InUse(t) = InUse(s) /\ Marked(t) = Marked(s)
  BY <1>5 DEF InUse, Marked
<1>7. ASSUME NEW o \in Objects PROVE Refs(s, o) = Refs(t, o) /\ (Full(s, o) <=> Full(t, o))
  <2>1. Refs(s, o) = Refs(t, o)
    BY <1>4 DEF Refs, Stack, OpenUpvals, UpvalValue
  <2>2. Refs(s, o) \subseteq Objects
    BY RefsType
  <2> QED BY <1>5, <2>1, <2>2 DEF Full
<1>8. Shape(s) => Shape(t)
  <2>1. \A o \in Objects : t.color[o] # "black" <=> s.color[o] # "black"
    BY <1>5 DEF IsBlack
  <2> QED BY <1>4, <1>6, <2>1 DEF Shape, ShapeOf
<1>9. ASSUME NEW X, NEW r, Trace(s, X, r) PROVE Trace(t, X, r)
  <2>1. Pending(s) = Pending(t) /\ Later(s) = Later(t)
    BY <1>4 DEF Pending, Later
  <2>2. ASSUME NEW o \in Objects PROVE TraceOf(t, X, r, o)
    <3>1. TraceOf(s, X, r, o)
      BY <1>9 DEF Trace
    <3>2. s.open[o] \in OrNull(Objects) /\ s.key[o] \in OrNull(Objects) /\ s.val[o] \in OrNull(Objects)
      BY DEF StateType, OrNull, Proper
    <3>3. \A x \in OrNull(Objects) : x # NULL => (IsWhite(s, x) <=> IsWhite(t, x))
      BY <1>5 DEF OrNull
    <3>4. Visited(s, o, r) => Visited(t, o, r)
      BY <1>4, <1>7, <3>2, <3>3 DEF Visited
    <3>5. IsOld(s, o) <=> IsOld(t, o)
      BY <1>4 DEF IsOld
    <3>6. /\ o \in Marked(t) <=> o \in Marked(s)
          /\ IsGray(t, o) <=> IsGray(s, o)
          /\ IsBlack(t, o) <=> IsBlack(s, o)
      BY <1>5
    <3> QED BY <1>4, <2>1, <3>1, <3>2, <3>3, <3>4, <3>5, <3>6 DEF TraceOf
  <2> QED BY <1>4, <1>6, <1>9, <2>1, <2>2 DEF Trace
<1> QED BY <1>3, <1>5, <1>7, <1>8, <1>9 DEF t

(* What the atomic phase leaves: nothing marked refers to what is not, the rest is dead.  *)
Atomized(s, t) ==
  /\ t \in StateType /\ Shape(t) /\ Lists(t) /\ Trace(t, {}, TRUE) /\ t.gray = {}
  /\ t.gcstate = "atomic"
  /\ Same(s, t, Changes \cup {"gcstate", "finobj", "tobefnz", "finobjsur"})
  /\ \A o \in Objects :
       /\ t.color[o] # "white" /\ (o \in Marked(t) => Full(t, o))
       /\ o \in InUse(t) <=> o \in InUse(s)
       /\ o \in Marked(s) => o \in Marked(t)
       /\ t.age[o] = s.age[o] \/ (s.age[o] = "touched2" /\ t.age[o] = "old")
       /\ Refs(t, o) \subseteq Refs(s, o)
  /\ MainThread \in Marked(t) /\ In(t.tobefnz) \subseteq Marked(t)
  /\ Divided(t.finobj, t.finobjsur, t.finobjold1, t.finobjrold)
  /\ In(s.tobefnz) \subseteq In(t.tobefnz) /\ In(t.finobj) \subseteq In(s.finobj)
  /\ In(t.tobefnz) \subseteq In(s.tobefnz) \cup In(s.finobj)
  /\ In(From(t.finobj, t.finobjsur)) \subseteq In(From(s.finobj, s.finobjsur))
  /\ From(t.finobj, t.finobjold1) = From(s.finobj, s.finobjold1)
  /\ t.finobjsur = NULL <=> From(t.finobj, t.finobjsur) = << >>

\* What the atomic phase does: afterwards a marked object refers to marked ones only.
LEMMA AtomicIs ==
  ASSUME NEW s \in StateType, KindOK, Shape(s), Trace(s, {}, FALSE), s.gcstate # "atomic",
         Lists(s), NoDead(s), MainThread \in InUse(s),
         Divided(s.finobj, s.finobjsur, s.finobjold1, s.finobjrold)
  PROVE  Atomized(s, Atomic(s))
<1> DEFINE a == [s EXCEPT !.gcstate = "atomic", !.grayagain = {}]
           m == MarkAccessible(s)
           w == ClearWeakValues(m)
           p == SeparateToBeFnz(w)
           r == Resurrect(w)
           k == ClearWeakKeys(r)
           c == ClearMet(k, w)
           f == Flip(c)
<1>1. Atomic(s) = f
  BY DEF Atomic, FinishAtomic
<1>2. a \in StateType /\ Same(s, a, {"gcstate", "grayagain"}) /\ a.gcstate = "atomic" /\ Shape(a)
  BY StartAtomic
<1>3. Settled(a, m, {}, TRUE) /\ ~IsWhite(m, MainThread)
  BY MarkAccessibleTrace
<1> HIDE DEF a, m
<1>4. Quiet(m) /\ Marks(a, m)
  <2>1. Marks(a, m)
    BY <1>3 DEF Settled
  <2>2. m.gcstate = a.gcstate
    BY <2>1, MarksSame
  <2>3. m \in StateType
    BY <2>1 DEF Marks
  <2> QED BY <1>2, <1>3, <2>1, <2>2, <2>3 DEF Settled, Quiet
<1>5. /\ Quiet(w) /\ Marks(m, w)
      /\ \A h \in w.weak \cup w.allweak : Cleared(w, h, "val")
  BY <1>4, ClearWeakValuesIs
<1> HIDE DEF w
<1>6. Marks(a, w)
  BY <1>4, <1>5, MarksTrans
<1>7. w \in StateType /\ Shape(w) /\ Trace(w, {}, TRUE) /\ w.gray = {} /\ w.gcstate = "atomic"
  BY <1>5 DEF Quiet
<1>8. Same(s, w, Changes \cup {"gcstate"})
  BY <1>2, <1>6 DEF Marks, Same, Changes, MarkLists
<1>9. /\ w.finobj = s.finobj /\ w.finobjsur = s.finobjsur /\ w.finobjold1 = s.finobjold1
      /\ w.finobjrold = s.finobjrold /\ w.allgc = s.allgc /\ w.tobefnz = s.tobefnz
  BY <1>8 DEF Same, Fields, Changes, MarkLists
<1>10. InUse(w) = InUse(s)
  <2>1. InUse(a) = InUse(s)
    BY <1>2 DEF InUse, Same, Fields
  <2> QED BY <1>6, <2>1, MarksWhite DEF InUse
<1>11. Lists(w) /\ Divided(w.finobj, w.finobjsur, w.finobjold1, w.finobjrold)
  BY <1>9, <1>10 DEF Lists
<1>12. /\ p \in StateType /\ Settled(p, r, {}, TRUE) /\ Converged(r)
       /\ \A o \in In(r.tobefnz) : ~IsWhite(r, o)
  BY <1>7, <1>11, ResurrectTrace
<1>13. /\ Same(w, p, {"finobj", "tobefnz", "finobjsur"}) /\ Lists(p)
       /\ Divided(p.finobj, p.finobjsur, p.finobjold1, p.finobjrold)
       /\ In(w.tobefnz) \subseteq In(p.tobefnz) /\ In(p.finobj) \subseteq In(w.finobj)
       /\ In(p.tobefnz) \subseteq In(w.tobefnz) \cup In(w.finobj)
       /\ In(From(p.finobj, p.finobjsur)) \subseteq In(From(w.finobj, w.finobjsur))
       /\ From(p.finobj, p.finobjold1) = From(w.finobj, w.finobjold1)
       /\ p.finobjsur = NULL <=> From(p.finobj, p.finobjsur) = << >>
  BY <1>7, <1>11, SeparateIs
<1> HIDE DEF p, r
<1>14. Same(w, p, Unseen)
  BY <1>13 DEF Same, Unseen
<1>15. /\ p.color = w.color /\ p.age = w.age /\ p.val = w.val /\ p.key = w.key
       /\ p.gcstate = "atomic" /\ Shape(p)
       /\ \A o \in Objects : Refs(p, o) = Refs(w, o)
  BY <1>7, <1>12, <1>14, UnseenTrace
<1>16. Quiet(r) /\ Marks(p, r)
  <2>1. Marks(p, r)
    BY <1>12 DEF Settled
  <2>2. r.gcstate = "atomic" /\ r \in StateType
    BY <1>15, <2>1, MarksSame DEF Marks
  <2> QED BY <1>12, <2>1, <2>2 DEF Settled, Quiet
<1>17. /\ Quiet(k) /\ Marks(r, k)
       /\ \A h \in k.allweak : Cleared(k, h, "key")
       /\ \A h \in k.ephemeron : k.val[h] = NULL /\ k.key[h] = NULL
  BY <1>12, <1>16, ClearWeakKeysIs
<1> HIDE DEF k
<1>18. Marks(p, k)
  BY <1>16, <1>17, MarksTrans
<1>19. ASSUME NEW h, h \in w.weak \cup w.allweak PROVE Cleared(k, h, "val")
  <2>1. h \in Objects
    BY <1>7, <1>19 DEF StateType
  <2>2. Cleared(p, h, "val")
    BY <1>5, <1>15, <1>19 DEF Cleared, IsWhite
  <2> QED BY <1>12, <1>18, <2>1, <2>2, ClearedStays
<1>20. /\ Quiet(c) /\ Marks(k, c)
       /\ \A h \in c.weak \cup c.allweak : Cleared(c, h, "val")
       /\ \A h \in c.allweak : Cleared(c, h, "key")
       /\ \A h \in c.ephemeron : c.val[h] = NULL /\ c.key[h] = NULL
  BY <1>17, <1>19, ClearMetIs
<1> HIDE DEF c
<1>21. Marks(p, c) /\ Marks(r, c)
  BY <1>16, <1>17, <1>18, <1>20, MarksTrans
<1>22. \A o \in Marked(c) : Full(c, o)
  BY <1>20, AllFull
<1>23. c \in StateType /\ Shape(c) /\ Trace(c, {}, TRUE) /\ c.gray = {} /\ c.gcstate = "atomic"
  BY <1>20 DEF Quiet
<1>24. /\ f \in StateType /\ Same(c, f, {"color"}) /\ Shape(f) /\ Trace(f, {}, TRUE)
       /\ \A o \in Objects :
            /\ f.color[o] = IF c.color[o] = "white" THEN "dead"
                            ELSE IF c.color[o] = "dead" THEN "white" ELSE c.color[o]
            /\ Refs(f, o) = Refs(c, o) /\ (Full(f, o) <=> Full(c, o))
  BY <1>23, FlipTrace
<1> HIDE DEF f
<1>25. Same(p, c, Changes)
  BY <1>21 DEF Marks
<1>26. Same(s, f, Changes \cup {"gcstate", "finobj", "tobefnz", "finobjsur"})
  BY <1>8, <1>13, <1>24, <1>25 DEF Same, Changes
<1>27. f.gray = {} /\ f.gcstate = "atomic" /\ f.age = c.age
  BY <1>23, <1>24 DEF Same, Fields
<1>28. /\ f.finobj = p.finobj /\ f.finobjsur = p.finobjsur /\ f.finobjold1 = p.finobjold1
       /\ f.finobjrold = p.finobjrold /\ f.allgc = p.allgc /\ f.tobefnz = p.tobefnz
  BY <1>24, <1>25 DEF Same, Fields, Changes, MarkLists
<1>29. ASSUME NEW o \in Objects
       PROVE /\ c.color[o] # "dead"
             /\ o \in InUse(c) <=> o \in InUse(s)
             /\ o \in Marked(s) => o \in Marked(c)
             /\ c.age[o] = s.age[o] \/ (s.age[o] = "touched2" /\ c.age[o] = "old")
  <2>1. a.color = s.color /\ a.age = s.age
    BY <1>2 DEF Same, Fields
  <2>2. \/ w.color[o] = a.color[o]
        \/ a.color[o] \notin Free /\ w.color[o] \in {"gray", "black"}
    BY <1>6 DEF Marks
  <2>3. \/ c.color[o] = w.color[o]
        \/ w.color[o] \notin Free /\ c.color[o] \in {"gray", "black"}
    BY <1>15, <1>21 DEF Marks
  <2>4. /\ w.age[o] = a.age[o] \/ (a.age[o] = "touched2" /\ w.age[o] = "old")
        /\ c.age[o] = w.age[o] \/ (w.age[o] = "touched2" /\ c.age[o] = "old")
    BY <1>6, <1>15, <1>21 DEF Marks
  <2>5. s.color[o] # "dead"
    BY DEF NoDead
  <2> QED BY <2>1, <2>2, <2>3, <2>4, <2>5 DEF InUse, Marked, Free
<1>30. ASSUME NEW o \in Objects PROVE Refs(f, o) \subseteq Refs(s, o)
  <2>1. Refs(w, o) \subseteq Refs(a, o)
    BY <1>2, <1>6, MarksRefs
  <2>2. Refs(a, o) = Refs(s, o)
    <3>1. a.val = s.val /\ a.key = s.key /\ a.open = s.open /\ a.stack = s.stack
      BY <1>2 DEF Same, Fields
    <3> QED BY <3>1 DEF Refs, Stack, OpenUpvals, UpvalValue
  <2>3. Refs(c, o) \subseteq Refs(p, o)
    BY <1>12, <1>15, <1>21, MarksRefs
  <2> QED BY <1>15, <1>24, <2>1, <2>2, <2>3
<1>31. ASSUME NEW o \in Objects
       PROVE  /\ o \in Marked(f) <=> o \in Marked(c)
              /\ o \in InUse(f) <=> o \in InUse(c)
              /\ f.color[o] # "white"
  BY <1>24, <1>29 DEF Marked, InUse
<1>32. ASSUME NEW o \in Objects, o \in InUse(s), ~IsWhite(c, o) PROVE o \in Marked(f)
  BY <1>23, <1>29, <1>31, <1>32, MarkedWhite
<1>33. MainThread \in Marked(f)
  <2>1. ~IsWhite(w, MainThread)
    BY <1>3, <1>5, MarksWhite, Null
  <2>2. ~IsWhite(p, MainThread)
    BY <1>15, <2>1 DEF IsWhite
  <2> QED BY <1>21, <1>32, <2>2, MarksWhite, Null
<1>34. ASSUME NEW o \in In(f.tobefnz) PROVE o \in Marked(f)
  <2>1. r.tobefnz = p.tobefnz
    BY <1>16, MarksSame
  <2>2. o \in InUse(p) /\ o \in Objects
    BY <1>28, <1>34, <1>13 DEF Lists, InUse
  <2>3. InUse(p) = InUse(s)
    BY <1>10, <1>15 DEF InUse
  <2>4. ~IsWhite(r, o)
    BY <1>12, <1>28, <1>34, <2>1
  <2> QED BY <1>21, <1>32, <2>2, <2>3, <2>4, MarksWhite
<1>35. Lists(f)
  <2>1. InUse(f) = InUse(p)
    BY <1>10, <1>15, <1>29, <1>31 DEF InUse
  <2> QED BY <1>13, <1>28, <2>1 DEF Lists
<1>36. f.finobjold1 = s.finobjold1
  BY <1>26 DEF Same, Fields, Changes, MarkLists
<1> QED BY ZenonT(40), <1>1, <1>9, <1>13, <1>22, <1>24, <1>26, <1>27, <1>28, <1>29, <1>30, <1>31, <1>33, <1>34,
           <1>35, <1>36 DEF Atomized

(****************************************************************************)
(* Freeing, and the sweep                                                   *)
(****************************************************************************)

(* What freeobj leaves: the rest is as it was, but for the upvalues of the threads that  *)
(* are freed, which are closed.                                                          *)
FreedOf(s, t, S, o) ==
  /\ o \in S => /\ t.color[o] = "freed" /\ t.age[o] = "new"
                /\ t.val[o] = NULL /\ t.key[o] = NULL /\ t.open[o] = NULL
  /\ o \notin S => /\ t.age[o] = s.age[o] /\ t.key[o] = s.key[o]
                   /\ \/ t.color[o] = s.color[o]
                      \/ s.open[o] \in S /\ ~IsWhite(s, o) /\ t.color[o] \in {"white", "black"}
                   /\ s.open[o] \in S /\ ~IsWhite(s, o) =>
                        \/ t.color[o] = "black"
                        \/ t.color[o] = "white" /\ s.gckind # "genminor" /\ s.val[s.open[o]] # NULL
                           /\ IsWhite(s, s.val[s.open[o]])
                   /\ s.open[o] \notin S => t.color[o] = s.color[o] /\ t.val[o] = s.val[o] /\ t.open[o] = s.open[o]
                   /\ s.open[o] \in S => t.val[o] = s.val[s.open[o]] /\ t.open[o] = NULL
                   /\ Refs(t, o) \subseteq Refs(s, o) /\ UpvalValue(t, o) = UpvalValue(s, o)

Freed(s, t, S) ==
  /\ t \in StateType /\ Same(s, t, {"color", "age", "val", "key", "open"}) /\ Shape(t)
  /\ InUse(t) = InUse(s) \ S /\ Live(t) = Live(s) \ S
  /\ \A o \in Objects : FreedOf(s, t, S, o)

\* What freeobj of a set of objects changes.
LEMMA FreeObjIs ==
  ASSUME NEW s \in StateType, KindOK, Shape(s), NEW S \in SUBSET Objects
  PROVE  Freed(s, FreeObj(s, S), S)
<1> DEFINE closed == { u \in Objects \ S : s.open[u] \in S }
           v(u) == s.val[s.open[u]]
           white(u) == s.gckind # "genminor" /\ v(u) # NULL /\ IsWhite(s, v(u))
           C == [o \in Objects |->
                   IF o \in S THEN "freed"
                   ELSE IF o \in closed /\ ~IsWhite(s, o)
                   THEN IF white(o) THEN "white" ELSE "black"
                   ELSE s.color[o]]
           A == [o \in Objects |-> IF o \in S THEN "new" ELSE s.age[o]]
           V == [o \in Objects |-> IF o \in S THEN NULL
                                   ELSE IF o \in closed THEN v(o) ELSE s.val[o]]
           K == [o \in Objects |-> IF o \in S THEN NULL ELSE s.key[o]]
           P == [o \in Objects |-> IF o \in S \cup closed THEN NULL ELSE s.open[o]]
           t == FreeObj(s, S)
<1>1. t = [s EXCEPT !.color = C, !.age = A, !.val = V, !.key = K, !.open = P]
  BY DEF FreeObj
<1>2. /\ C \in [Objects -> Colors] /\ A \in [Objects -> Ages]
      /\ K \in [Objects -> OrNull(Proper)] /\ P \in [Objects -> OrNull(Proper)]
  BY DEF StateType, Colors, Ages, OrNull
<1>3. V \in [Objects -> OrNull(Proper)]
  <2>1. \A o \in closed : v(o) \in OrNull(Proper)
    BY DEF StateType
  <2>2. \A o \in Objects : s.val[o] \in OrNull(Proper)
    BY DEF StateType
  <2> QED BY <2>1, <2>2 DEF OrNull
<1> HIDE DEF C, A, V, K, P, t
<1>4. /\ t \in StateType /\ Same(s, t, {"color", "age", "val", "key", "open"})
      /\ t.color = C /\ t.age = A /\ t.val = V /\ t.key = K /\ t.open = P
  BY <1>1, <1>2, <1>3 DEF StateType, Same, Fields
<1>5. ASSUME NEW o \in Objects
      PROVE  /\ t.color[o] = IF o \in S THEN "freed"
                             ELSE IF s.open[o] \in S /\ ~IsWhite(s, o)
                             THEN IF white(o) THEN "white" ELSE "black"
                             ELSE s.color[o]
             /\ t.age[o] = IF o \in S THEN "new" ELSE s.age[o]
             /\ t.val[o] = IF o \in S THEN NULL ELSE IF s.open[o] \in S THEN v(o) ELSE s.val[o]
             /\ t.key[o] = IF o \in S THEN NULL ELSE s.key[o]
             /\ t.open[o] = IF o \in S \/ s.open[o] \in S THEN NULL ELSE s.open[o]
  BY <1>4 DEF C, A, V, K, P
<1>6. t.stack = s.stack /\ t.twups = s.twups
  BY <1>4 DEF Same, Fields
<1>7. ASSUME NEW o \in Objects, s.open[o] # NULL
      PROVE  /\ kind[o] = "upval" /\ kind[s.open[o]] = "thread" /\ s.color[o] # "black"
             /\ s.open[o] \in Objects /\ s.open[o] # MainThread
             /\ o \in InUse(s) /\ s.open[o] \in InUse(s)
  BY <1>7 DEF Shape, ShapeOf, StateType, OrNull, Proper
<1>8. NULL \notin S
  BY Null
<1>9. ASSUME NEW o \in Objects, o \notin S PROVE Refs(t, o) \subseteq Refs(s, o) /\ UpvalValue(t, o) = UpvalValue(s, o)
  <2>0. UpvalValue(t, o) = UpvalValue(s, o)
    <3>1. CASE s.open[o] \in S
      BY <1>5, <1>8, <1>9, <3>1 DEF UpvalValue
    <3>2. CASE s.open[o] = NULL
      BY <1>5, <1>8, <1>9, <3>2 DEF UpvalValue
    <3>3. CASE s.open[o] # NULL /\ s.open[o] \notin S
      <4>1. s.open[s.open[o]] = NULL
        BY <1>7, <3>3
      <4>2. t.val[s.open[o]] = s.val[s.open[o]] /\ t.open[o] = s.open[o]
        BY <1>5, <1>7, <1>8, <1>9, <3>3, <4>1
      <4> QED BY <3>3, <4>2 DEF UpvalValue
    <3> QED BY <3>1, <3>2, <3>3
  <2>1. CASE kind[o] = "thread"
    <3>1. s.open[o] = NULL
      BY <1>7, <2>1
    <3>2. t.val[o] = s.val[o]
      BY <1>5, <1>8, <1>9, <3>1
    <3>3. OpenUpvals(t, o) \subseteq OpenUpvals(s, o)
      BY <1>5, Null DEF OpenUpvals
    <3> QED BY <1>6, <2>0, <2>1, <3>2, <3>3, RefsThread DEF Stack
  <2>2. CASE kind[o] = "upval"
    BY <2>0, <2>2, RefsUpval
  <2>3. CASE kind[o] # "upval" /\ kind[o] # "thread"
    <3>1. s.open[o] = NULL
      BY <1>7, <2>3
    <3>2. t.val[o] = s.val[o] /\ t.key[o] = s.key[o]
      BY <1>5, <1>8, <1>9, <3>1
    <3> QED BY <2>0, <2>3, <3>2, RefsOther
  <2> QED BY <2>0, <2>1, <2>2, <2>3
<1>10. ASSUME NEW o \in Objects
       PROVE  /\ o \in InUse(t) <=> o \in InUse(s) /\ o \notin S
              /\ o \in Live(t) <=> o \in Live(s) /\ o \notin S
  <2>1. s.open[o] \in S /\ ~IsWhite(s, o) => o \in InUse(s) /\ s.color[o] \in Colors
    BY <1>7, <1>8 DEF StateType
  <2> QED BY <1>5, <2>1 DEF InUse, Live, IsWhite, Colors
<1>11. InUse(t) = InUse(s) \ S /\ Live(t) = Live(s) \ S
  BY <1>10 DEF InUse, Live
<1>12. ASSUME NEW o \in Objects PROVE FreedOf(s, t, S, o)
  <2>1. o \in S => /\ t.color[o] = "freed" /\ t.age[o] = "new"
                   /\ t.val[o] = NULL /\ t.key[o] = NULL /\ t.open[o] = NULL
    BY <1>5
  <2>2. o \notin S => Refs(t, o) \subseteq Refs(s, o) /\ UpvalValue(t, o) = UpvalValue(s, o)
    BY <1>9
  <2>3. o \notin S /\ s.open[o] \in S /\ ~IsWhite(s, o) =>
          \/ t.color[o] = "black"
          \/ t.color[o] = "white" /\ s.gckind # "genminor" /\ s.val[s.open[o]] # NULL
             /\ IsWhite(s, s.val[s.open[o]])
    BY <1>5
  <2> HIDE DEF white
  <2> QED BY <1>5, <2>1, <2>2, <2>3 DEF FreedOf
<1>13. ASSUME NEW o \in Objects PROVE ShapeOf(t, o)
  <2>0. ShapeOf(s, o)
    BY DEF Shape
  <2>1. CASE o \in S
    <3>1. t.color[o] = "freed" /\ t.age[o] = "new" /\ t.val[o] = NULL /\ t.key[o] = NULL /\ t.open[o] = NULL
      BY <1>5, <2>1
    <3> QED BY <3>1 DEF ShapeOf
  <2>2. CASE o \notin S /\ s.open[o] \in S
    <3>1. t.open[o] = NULL /\ t.val[o] = v(o) /\ t.key[o] = s.key[o]
      BY <1>5, <2>2
    <3>2. o \in InUse(t) /\ kind[o] = "upval"
      BY <1>7, <1>8, <1>10, <2>2
    <3>3. v(o) # NULL => kind[v(o)] # "upval"
      BY <1>7, <1>8, <2>2 DEF Shape, ShapeOf
    <3> QED BY <2>0, <3>1, <3>2, <3>3 DEF ShapeOf
  <2>3. CASE o \notin S /\ s.open[o] \notin S
    <3>1. /\ t.open[o] = s.open[o] /\ t.val[o] = s.val[o] /\ t.key[o] = s.key[o]
          /\ t.color[o] = s.color[o] /\ t.age[o] = s.age[o]
      BY <1>5, <2>3
    <3>2. t.open[o] # NULL => {o, t.open[o]} \subseteq InUse(t)
      BY <1>7, <1>10, <2>3, <3>1
    <3>3. o \notin InUse(t) => o \notin InUse(s)
      BY <1>10, <2>3
    <3> QED BY <2>0, <3>1, <3>2, <3>3 DEF ShapeOf
  <2> QED BY <2>1, <2>2, <2>3
<1>14. Shape(t)
  <2>1. \A u \in Objects : t.open[u] # NULL => t.open[u] = s.open[u]
    BY <1>5
  <2>2. \A u, w \in Objects : t.open[u] # NULL /\ t.open[u] = t.open[w] => u = w
    BY <2>1 DEF Shape
  <2> QED BY <1>6, <1>13, <2>2 DEF Shape
<1> QED BY <1>4, <1>11, <1>12, <1>14 DEF Freed, t

\* What is alive refers to what is alive; the roots and the threads of twups are alive.
Closed(s) ==
  /\ {MainThread} \cup In(s.tobefnz) \cup s.twups \subseteq Live(s)
  /\ \A o \in Objects :
       /\ o \in Live(s) => Refs(s, o) \subseteq Live(s)
       /\ s.open[o] \in Live(s) => s.open[o] \in s.twups

Base(s) == s \in StateType /\ Lists(s) /\ Shape(s) /\ Closed(s)

\* Freeing what is not alive leaves what is alive closed under reference.
LEMMA FreedClosed ==
  ASSUME NEW s, NEW S, NEW t, Freed(s, t, S), Closed(s), S \cap Live(s) = {}
  PROVE  Closed(t) /\ Live(t) = Live(s)
<1>1. Live(t) = Live(s) /\ t.twups = s.twups /\ t.tobefnz = s.tobefnz
  BY DEF Freed, Same, Fields
<1>2. ASSUME NEW o \in Objects
      PROVE  /\ o \in Live(t) => Refs(t, o) \subseteq Live(t)
             /\ t.open[o] \in Live(t) => t.open[o] \in t.twups
  <2>1. o \in Live(s) => Refs(t, o) \subseteq Refs(s, o)
    BY DEF Freed, FreedOf
  <2>2. t.open[o] = s.open[o] \/ t.open[o] = NULL
    BY DEF Freed, FreedOf
  <2>3. NULL \notin Live(s)
    BY Null DEF Live
  <2> QED BY <1>1, <2>1, <2>2, <2>3 DEF Closed
<1> QED BY <1>1, <1>2 DEF Closed

(* The part of a list up to the cursor.  *)
Prefix(list, after) == IF after = NULL THEN << >> ELSE Before(list, after) \o <<after>>

\* The cursor of a sweep splits its list into what it has passed and the rest.
LEMMA RestIs ==
  ASSUME NEW L \in Seq(Objects), IsInjective(L), NEW p \in Pointers(L)
  PROVE  /\ Prefix(L, p) \in Seq(Objects) /\ Rest(L, p) \in Seq(Objects)
         /\ L = Prefix(L, p) \o Rest(L, p) /\ p \in Pointers(Prefix(L, p))
         /\ \A q \in Seq(Objects) :
              IsInjective(Prefix(L, p) \o q) =>
                /\ Rest(Prefix(L, p) \o q, p) = q /\ p \in Pointers(Prefix(L, p) \o q)
                /\ Prefix(Prefix(L, p) \o q, p) = Prefix(L, p)
<1>1. CASE p = NULL
  <2>1. Prefix(L, p) = << >> /\ Rest(L, p) = L
    BY <1>1 DEF Prefix, Rest
  <2>2. ASSUME NEW q \in Seq(Objects) PROVE << >> \o q = q /\ << >> \in Seq(Objects)
    OBVIOUS
  <2>3. \A q : Rest(q, p) = q /\ Prefix(q, p) = << >> /\ p \in Pointers(q)
    BY <1>1 DEF Prefix, Rest, Pointers
  <2> QED BY <2>1, <2>2, <2>3
<1>2. CASE p # NULL
  <2> DEFINE a == Before(L, p)
             b == From(L, p)
             h == <<p>>
  <2>1. /\ a \in Seq(Objects) /\ b \in Seq(Objects) /\ L = a \o b /\ b # << >> /\ Head(b) = p
    BY <1>2, BeforeFrom
  <2>2. p \in Objects
    BY <2>1
  <2>3. Rest(L, p) = Tail(b) /\ Prefix(L, p) = a \o h
    BY <1>2 DEF Rest, Prefix
  <2>4. h \in Seq(Objects) /\ Tail(b) \in Seq(Objects) /\ b = h \o Tail(b)
    <3> HIDE DEF b
    <3> QED BY <2>1, <2>2
  <2> HIDE DEF a, b
  <2>5. ASSUME NEW q \in Seq(Objects)
        PROVE  (a \o h) \o q = a \o (h \o q) /\ h \o q \in Seq(Objects) /\ Tail(h \o q) = q
               /\ First(h \o q) = p
    <3>1. h \o q \in Seq(Objects) /\ Tail(h \o q) = q /\ First(h \o q) = p
      <4>1. Len(h \o q) = 1 + Len(q) /\ (h \o q)[1] = p
        BY <2>4
      <4>2. h \o q \in Seq(Objects) /\ h \o q # << >>
        BY <2>4, <4>1
      <4>3. Tail(h \o q) = q
        BY <2>2
      <4> QED BY <4>1, <4>2, <4>3 DEF First
    <3> HIDE DEF h
    <3>2. (a \o h) \o q = a \o (h \o q)
      <4>1. a \in Seq(Objects) /\ h \in Seq(Objects) /\ q \in Seq(Objects)
              => (a \o h) \o q = a \o (h \o q)
        OBVIOUS
      <4> QED BY <2>1, <2>4, <4>1
    <3> QED BY <3>1, <3>2
  <2>6. a \o h \in Seq(Objects)
    BY <2>1, <2>4
  <2>7. In(a \o h) = In(a) \cup In(h) /\ p \in In(h)
    <3>1. p \in In(h)
      BY DEF In
    <3> HIDE DEF h
    <3> QED BY <2>1, <2>4, <3>1, InConcat
  <2>8. ASSUME NEW q \in Seq(Objects), IsInjective((a \o h) \o q)
        PROVE  /\ Rest((a \o h) \o q, p) = q /\ p \in Pointers((a \o h) \o q)
               /\ Prefix((a \o h) \o q, p) = a \o h
    <3> DEFINE y == h \o q
    <3>1. (a \o h) \o q = a \o y /\ y \in Seq(Objects) /\ Tail(y) = q /\ First(y) = p
      BY <2>5
    <3> HIDE DEF y
    <3>11. IsInjective(a \o y)
      BY <2>8, <3>1
    <3>12. From(a \o y, First(y)) = y /\ Before(a \o y, First(y)) = a /\ First(y) \in Pointers(a \o y)
      BY <2>1, <3>1, <3>11, FromConcat
    <3>2. From(a \o y, p) = y /\ Before(a \o y, p) = a /\ p \in Pointers(a \o y)
      BY <3>1, <3>12
    <3> QED BY <1>2, <3>1, <3>2 DEF Rest, Prefix
  <2>9. p \in Pointers(a \o h)
    BY <2>7 DEF Pointers
  <2>10. L = (a \o h) \o Tail(b)
    BY <2>1, <2>4, <2>5
  <2> QED BY <2>3, <2>4, <2>6, <2>8, <2>9, <2>10
<1> QED BY <1>1, <1>2

(* The cursor moves to the next object, which is then the last of the prefix.  *)
LEMMA RestNext ==
  ASSUME NEW L \in Seq(Objects), IsInjective(L), NEW p \in Pointers(L), Rest(L, p) # << >>
  PROVE  LET o == Head(Rest(L, p))
         IN  /\ o \in In(L) /\ o \in Objects /\ Tail(Rest(L, p)) \in Seq(Objects)
             /\ In(L) = In(Prefix(L, p)) \cup {o} \cup In(Tail(Rest(L, p)))
             /\ o \notin In(Prefix(L, p)) /\ o \notin In(Tail(Rest(L, p)))
             /\ Rest(L, o) = Tail(Rest(L, p)) /\ In(Prefix(L, o)) = In(Prefix(L, p)) \cup {o}
             /\ Unlink(L, o) = Prefix(L, p) \o Tail(Rest(L, p))
             /\ p \in Pointers(Unlink(L, o)) /\ Rest(Unlink(L, o), p) = Tail(Rest(L, p))
             /\ Prefix(Unlink(L, o), p) = Prefix(L, p) /\ p # o
<1> DEFINE a == Prefix(L, p)
           r == Rest(L, p)
           o == Head(r)
           b == Tail(r)
           h == <<o>>
<1>1. /\ a \in Seq(Objects) /\ r \in Seq(Objects) /\ L = a \o r /\ p \in Pointers(a)
      /\ \A q \in Seq(Objects) : IsInjective(a \o q) =>
           Rest(a \o q, p) = q /\ p \in Pointers(a \o q) /\ Prefix(a \o q, p) = a
  BY RestIs
<1> HIDE DEF a, r
<1>2. o \in Objects /\ b \in Seq(Objects) /\ r = h \o b /\ h \in Seq(Objects) /\ First(r) = o
  BY <1>1 DEF r, First
<1>3. In(r) = {o} \cup In(b) /\ In(L) = In(a) \cup In(r)
  <2>1. In(r) = {Head(r)} \cup In(Tail(r))
    BY <1>1, InHeadTail DEF r
  <2> QED BY <1>1, <2>1, InConcat
<1>4. IsInjective(a) /\ IsInjective(r) /\ In(a) \cap In(r) = {}
  BY <1>1, OnceConcat
<1>5. IsInjective(h) /\ IsInjective(b) /\ In(h) \cap In(b) = {} /\ In(h) = {o}
  <2>1. In(h) = {o}
    BY DEF In
  <2> HIDE DEF h, b
  <2> QED BY <1>2, <1>4, <2>1, OnceConcat
<1>6. IsInjective(a \o b)
  <2>1. In(a) \cap In(b) = {} /\ IsInjective(b) /\ IsInjective(a)
    BY <1>3, <1>4, <1>5
  <2>2. a \in Seq(Objects) /\ b \in Seq(Objects)
    BY <1>1, <1>2
  <2> HIDE DEF b
  <2> QED BY <2>1, <2>2, OnceConcat
<1>7. From(L, o) = r /\ Before(L, o) = a
  BY <1>1, <1>2, FromConcat
<1>8. Unlink(L, o) = a \o b
  BY <1>7 DEF Unlink
<1>9. o # NULL
  BY <1>2, Null
<1>10. Rest(L, o) = b /\ Prefix(L, o) = a \o h
  BY <1>7, <1>9 DEF Rest, Prefix
<1>11. In(a \o h) = In(a) \cup {o}
  <2> HIDE DEF h
  <2> QED BY <1>1, <1>2, <1>5, InConcat
<1>12. p # o
  BY <1>1, <1>3, <1>4, <1>9 DEF Pointers
<1> HIDE DEF b
<1> QED BY <1>1, <1>2, <1>3, <1>4, <1>5, <1>6, <1>8, <1>10, <1>11, <1>12 DEF a, r, b

\* Writing one of the lists of objects.
LEMMA SetList ==
  ASSUME NEW s \in StateType, NEW l \in ObjectLists, NEW v \in Seq(Objects), In(v) \subseteq In(s[l])
  PROVE  LET t == [s EXCEPT ![l] = v]
         IN  /\ t \in StateType /\ Same(s, t, {l}) /\ t[l] = v
             /\ s[l] \in Seq(Objects)
<1>1. ASSUME In(v) \subseteq Proper PROVE v \in Seq(Proper)
  <2>1. \A i \in 1..Len(v) : v[i] \in Proper
    BY <1>1 DEF In
  <2> QED BY <2>1
<1>2. CASE l = "allgc"
  BY <1>2 DEF StateType, Same, Fields
<1>3. CASE l = "finobj"
  <2>1. s.finobj \in Seq(Proper)
    BY DEF StateType
  <2>2. v \in Seq(Proper)
    BY <1>1, <1>3, <2>1, InType
  <2>3. s.finobj \in Seq(Objects)
    BY <2>1 DEF Proper
  <2>4. LET t == [s EXCEPT !.finobj = v] IN t \in StateType /\ Same(s, t, {"finobj"}) /\ t.finobj = v
    BY <2>2 DEF StateType, Same, Fields
  <2> QED BY <1>3, <2>3, <2>4
<1>4. CASE l = "tobefnz"
  <2>1. s.tobefnz \in Seq(Proper)
    BY DEF StateType
  <2>2. v \in Seq(Proper)
    BY <1>1, <1>4, <2>1, InType
  <2>3. s.tobefnz \in Seq(Objects)
    BY <2>1 DEF Proper
  <2>4. LET t == [s EXCEPT !.tobefnz = v] IN t \in StateType /\ Same(s, t, {"tobefnz"}) /\ t.tobefnz = v
    BY <2>2 DEF StateType, Same, Fields
  <2> QED BY <1>4, <2>3, <2>4
<1> QED BY <1>2, <1>3, <1>4 DEF ObjectLists

\* Freeing elements of one list keeps the lists disjoint.
LEMMA ListsLess ==
  ASSUME NEW s, NEW t, Lists(s), NEW l \in ObjectLists, NEW S, S \subseteq In(s[l]),
         \A k \in ObjectLists : k # l => t[k] = s[k],
         In(t[l]) = In(s[l]) \ S, IsInjective(t[l]), InUse(t) = InUse(s) \ S
  PROVE  Lists(t)
<1>1. CASE l = "allgc"
  <2>1. t.finobj = s.finobj /\ t.tobefnz = s.tobefnz
    BY <1>1 DEF ObjectLists
  <2> QED BY <1>1, <2>1 DEF Lists
<1>2. CASE l = "finobj"
  <2>1. t.allgc = s.allgc /\ t.tobefnz = s.tobefnz
    BY <1>2 DEF ObjectLists
  <2> QED BY <1>2, <2>1 DEF Lists
<1>3. CASE l = "tobefnz"
  <2>1. t.allgc = s.allgc /\ t.finobj = s.finobj
    BY <1>3 DEF ObjectLists
  <2> QED BY <1>3, <2>1 DEF Lists
<1> QED BY <1>1, <1>2, <1>3 DEF ObjectLists

SweepStates == {"swpallgc", "swpfinobj", "swptobefnz"}

\* The objects of S are as a sweep leaves them.
Fresh(s, S) == \A o \in S : s.color[o] = "white" /\ s.age[o] = "new"

\* The list a sweep is in.
Cur(s) == IF s.gcstate = "swpallgc" THEN "allgc"
          ELSE IF s.gcstate = "swpfinobj" THEN "finobj" ELSE "tobefnz"
(* What the sweep has been over.  *)
Passed(s) == (IF s.gcstate = "swpallgc" THEN {} ELSE In(s.allgc))
             \cup (IF s.gcstate = "swptobefnz" THEN In(s.finobj) ELSE {})

Cursor(s) == /\ s.sweepgc.list = Cur(s) /\ s.sweepgc.after \in Pointers(s[Cur(s)])
             /\ Fresh(s, In(Prefix(s[Cur(s)], s.sweepgc.after)))

\* What a sweep has passed is white and new.
Sweeping(s) ==
  /\ s.gcstate \in SweepStates /\ Fresh(s, Passed(s))
  /\ \/ s.sweepgc = Nowhere /\ Fresh(s, In(s[Cur(s)]))
     \/ s.sweepgc # Nowhere /\ Cursor(s)

\* The list that a sweep is in.
LEMMA CurIs ==
  ASSUME NEW s, Base(s)
  PROVE  /\ Cur(s) \in ObjectLists /\ s[Cur(s)] \in Seq(Objects) /\ IsInjective(s[Cur(s)])
         /\ In(s[Cur(s)]) \subseteq InUse(s) /\ InUse(s) \subseteq Objects
         /\ Cur(s) # "none"
<1>1. Cur(s) \in {"allgc", "finobj", "tobefnz"}
  BY DEF Cur
<1>2. s.allgc \in Seq(Objects) /\ s.finobj \in Seq(Objects) /\ s.tobefnz \in Seq(Objects)
  BY DEF Base, StateType, Proper
<1>3. /\ IsInjective(s.allgc) /\ IsInjective(s.finobj) /\ IsInjective(s.tobefnz)
      /\ In(s.allgc) \cup In(s.finobj) \cup In(s.tobefnz) = InUse(s)
  BY DEF Base, Lists
<1>4. InUse(s) \subseteq Objects
  BY Zenon DEF InUse
<1> QED BY <1>1, <1>2, <1>3, <1>4 DEF ObjectLists

Touches(l) == {"color", "age", "val", "key", "open", "sweepgc", l}
(* What a turn of the sweep makes of an object at the cursor.  *)
Dropped(s, l, o) == FreeObj([s EXCEPT ![l] = Unlink(@, o)], {o})

\* SweepElement of another.
Spared(s, o) == [s EXCEPT !.color[o] = "white", !.age[o] = "new", !.sweepgc.after = o]

(* One turn of the sweep, at an object of the other white.  *)
LEMMA SweepDead ==
  ASSUME NEW s, Base(s), KindOK, Sweeping(s), s.sweepgc # Nowhere, NEW l, l = s.sweepgc.list,
         NEW p, p = s.sweepgc.after, Rest(s[l], p) # << >>, NEW o, o = Head(Rest(s[l], p)),
         s.color[o] = "dead"
  PROVE  LET t == Dropped(s, l, o)
         IN  /\ Base(t) /\ Sweeping(t) /\ Live(t) = Live(s)
             /\ Same(s, t, Touches(l))
             /\ t[l] = Unlink(s[l], o) /\ t.sweepgc = s.sweepgc
             /\ Rest(t[l], p) = Tail(Rest(s[l], p))
<1> DEFINE L == s[l]
           v == Unlink(L, o)
           u == [s EXCEPT ![l] = v]
           t == FreeObj(u, {o})
<1>1. s \in StateType /\ Lists(s) /\ Shape(s) /\ Closed(s)
  BY DEF Base
<1>2. l = Cur(s) /\ p \in Pointers(L) /\ Fresh(s, In(Prefix(L, p)))
  BY DEF Sweeping, Cursor
<1>3. l \in ObjectLists /\ L \in Seq(Objects) /\ IsInjective(L) /\ In(L) \subseteq InUse(s)
  BY <1>2, CurIs
<1> HIDE DEF L
<1>4. /\ o \in In(L) /\ o \in Objects
      /\ p \in Pointers(v) /\ Rest(v, p) = Tail(Rest(L, p)) /\ Prefix(v, p) = Prefix(L, p)
  BY <1>2, <1>3, RestNext DEF L
<1>5. v \in Seq(Objects) /\ In(v) = In(L) \ {o} /\ IsInjective(v)
  BY <1>3, <1>4, UnlinkIs
<1> HIDE DEF v
<1>6. u \in StateType /\ Same(s, u, {l}) /\ u[l] = v
  <2>1. In(v) \subseteq In(s[l])
    BY <1>5 DEF L
  <2>2. s \in StateType /\ l \in ObjectLists /\ v \in Seq(Objects)
    BY <1>1, <1>3, <1>5
  <2> QED BY ONLY <2>1, <2>2, SetList, Zenon DEF u
<1> HIDE DEF u
<1>7. Same(s, u, Unseen)
  BY <1>3, <1>6 DEF Same, Unseen, ObjectLists
<1>8. Shape(u) /\ u.color = s.color /\ u.open = s.open /\ u.twups = s.twups
      /\ u.age = s.age /\ \A x \in Objects : Refs(u, x) = Refs(s, x)
  BY <1>1, <1>6, <1>7, UnseenTrace
<1>9. Freed(u, t, {o})
  BY <1>4, <1>6, <1>8, FreeObjIs
<1> HIDE DEF t
<1>10. InUse(u) = InUse(s) /\ Live(u) = Live(s) /\ o \notin Live(s)
  BY <1>8 DEF InUse, Live
<1>11. \A k \in ObjectLists : k # l => u[k] = s[k]
  BY <1>6 DEF Same, Fields, ObjectLists
<1>12. In(u.tobefnz) \subseteq In(s.tobefnz)
  BY <1>3, <1>5, <1>6, <1>11 DEF ObjectLists, L
<1>13. Closed(u)
  BY <1>1, <1>8, <1>10, <1>12 DEF Closed
<1>14. Closed(t) /\ Live(t) = Live(s)
  BY <1>9, <1>10, <1>13, FreedClosed
<1>15. t \in StateType /\ Same(u, t, {"color", "age", "val", "key", "open"}) /\ Shape(t)
       /\ InUse(t) = InUse(s) \ {o} /\ \A x \in Objects : FreedOf(u, t, {o}, x)
  BY <1>9, <1>10 DEF Freed
<1>16. Same(s, t, {"color", "age", "val", "key", "open", l})
  BY <1>6, <1>15 DEF Same
<1>17. \A k \in ObjectLists : t[k] = u[k]
  BY <1>15 DEF Same, Fields, ObjectLists
<1>18. t.gcstate = s.gcstate /\ t.sweepgc = s.sweepgc
  BY <1>3, <1>16 DEF Same, Fields, ObjectLists
<1>19. Lists(t)
  <2>1. {o} \subseteq In(s[l]) /\ In(t[l]) = In(s[l]) \ {o} /\ IsInjective(t[l])
    BY <1>3, <1>4, <1>5, <1>6, <1>17 DEF L
  <2>2. \A k \in ObjectLists : k # l => t[k] = s[k]
    BY <1>11, <1>17
  <2>3. InUse(t) = InUse(s) \ {o} /\ Lists(s) /\ l \in ObjectLists
    BY <1>1, <1>3, <1>15
  <2> DEFINE S == {o}
  <2>4. S \subseteq In(s[l]) /\ In(t[l]) = In(s[l]) \ S /\ InUse(t) = InUse(s) \ S
    BY <2>1, <2>3
  <2> HIDE DEF S
  <2> QED BY <2>1, <2>2, <2>3, <2>4, ListsLess
<1>20. ASSUME NEW S, Fresh(s, S), S \subseteq Objects PROVE Fresh(t, S)
  <2>1. ASSUME NEW x \in S PROVE t.color[x] = "white" /\ t.age[x] = "new"
    <3>1. s.color[x] = "white" /\ s.age[x] = "new" /\ x # o /\ x \in Objects
      BY <1>20 DEF Fresh
    <3>2. FreedOf(u, t, {o}, x) /\ IsWhite(u, x)
      BY <1>8, <1>15, <3>1 DEF IsWhite
    <3> QED BY <1>8, <3>1, <3>2 DEF FreedOf
  <2> QED BY <2>1 DEF Fresh
<1>21. Passed(t) = Passed(s) /\ Passed(s) \subseteq Objects
  <2>1. t.allgc = u.allgc /\ t.finobj = u.finobj
    BY <1>17 DEF ObjectLists
  <2>2. In(s.allgc) \subseteq Objects /\ In(s.finobj) \subseteq Objects
    BY <1>1 DEF Lists, InUse
  <2>3. s.gcstate # "swpallgc" => u.allgc = s.allgc
    BY <1>2, <1>11 DEF Cur, ObjectLists
  <2>4. s.gcstate = "swptobefnz" => u.finobj = s.finobj
    BY <1>2, <1>11 DEF Cur, ObjectLists
  <2> QED BY <1>18, <2>1, <2>2, <2>3, <2>4 DEF Passed
<1>22. Cur(t) = l /\ t[l] = v
  BY <1>2, <1>3, <1>6, <1>17, <1>18 DEF Cur
<1>23. In(Prefix(L, p)) \subseteq Objects
  <2>1. Prefix(L, p) \in Seq(Objects)
    BY <1>2, <1>3, RestIs
  <2> QED BY <2>1, InType
<1>24. Sweeping(t)
  <2>1. Fresh(t, Passed(t))
    BY <1>20, <1>21 DEF Sweeping
  <2>2. Fresh(t, In(Prefix(v, p)))
    BY <1>2, <1>4, <1>20, <1>23
  <2> QED BY <1>2, <1>4, <1>18, <1>22, <2>1, <2>2 DEF Sweeping, Cursor
<1> QED BY Zenon, <1>1, <1>4, <1>14, <1>15, <1>16, <1>18, <1>19, <1>22, <1>24 DEF Base, L, t, u, v, Dropped, Same, Touches

(* The other case: it is white and new from here on.  *)
LEMMA SweepAlive ==
  ASSUME NEW s, Base(s), KindOK, Sweeping(s), s.sweepgc # Nowhere, NEW l, l = s.sweepgc.list,
         NEW p, p = s.sweepgc.after, Rest(s[l], p) # << >>, NEW o, o = Head(Rest(s[l], p)),
         s.color[o] # "dead"
  PROVE  LET t == Spared(s, o)
         IN  /\ Base(t) /\ Sweeping(t) /\ Live(t) = Live(s)
             /\ Same(s, t, {"color", "age", "sweepgc"})
             /\ t.sweepgc = [list |-> l, after |-> o]
             /\ Rest(t[l], o) = Tail(Rest(s[l], p)) /\ o # p /\ o \in Objects
<1> DEFINE L == s[l]
           C == [s.color EXCEPT ![o] = "white"]
           A == [s.age EXCEPT ![o] = "new"]
           w == [s.sweepgc EXCEPT !.after = o]
           t == [s EXCEPT !.color[o] = "white", !.age[o] = "new", !.sweepgc.after = o]
<1>1. s \in StateType /\ Lists(s) /\ Shape(s) /\ Closed(s)
  BY DEF Base
<1>2. l = Cur(s) /\ p \in Pointers(L) /\ Fresh(s, In(Prefix(L, p)))
  BY DEF Sweeping, Cursor
<1>3. l \in ObjectLists /\ L \in Seq(Objects) /\ IsInjective(L) /\ In(L) \subseteq InUse(s)
  BY <1>2, CurIs
<1> HIDE DEF L
<1>4. /\ o \in In(L) /\ o \in Objects /\ o # p
      /\ Rest(L, o) = Tail(Rest(L, p)) /\ In(Prefix(L, o)) = In(Prefix(L, p)) \cup {o}
  BY ZenonT(40), <1>2, <1>3, RestNext DEF L
<1>5. t = [s EXCEPT !.color = C, !.age = A, !.sweepgc = w]
  BY <1>1 DEF StateType
<1>6. /\ C \in [Objects -> Colors] /\ A \in [Objects -> Ages]
      /\ w \in [list : ObjectLists \cup {"none"}, after : OrNull(Objects)]
      /\ w = [list |-> l, after |-> o]
  BY <1>1, <1>4 DEF StateType, Colors, Ages, OrNull
<1> HIDE DEF C, A, w, t
<1>7. t \in StateType /\ Same(s, t, {"color", "age", "sweepgc"}) /\ t.color = C /\ t.age = A /\ t.sweepgc = w
  BY ZenonT(40), <1>1, <1>5, <1>6 DEF StateType, Same, Fields
<1>8. /\ t.val = s.val /\ t.key = s.key /\ t.open = s.open /\ t.stack = s.stack
      /\ t.twups = s.twups /\ t.gcstate = s.gcstate
      /\ t.allgc = s.allgc /\ t.finobj = s.finobj /\ t.tobefnz = s.tobefnz
  BY <1>7 DEF Same, Fields
<1>9. \A x \in Objects : /\ t.color[x] = IF x = o THEN "white" ELSE s.color[x]
                         /\ t.age[x] = IF x = o THEN "new" ELSE s.age[x]
  BY <1>1, <1>7 DEF C, A, StateType
<1>10. o \in InUse(s) /\ o \in Live(s)
  BY <1>1, <1>3, <1>4 DEF InUse, Live, StateType, Colors
<1>11. InUse(t) = InUse(s) /\ Live(t) = Live(s)
  BY <1>9, <1>10 DEF InUse, Live
<1>12. Shape(t)
  <2>1. ASSUME NEW x \in Objects PROVE ShapeOf(t, x)
    <3>1. ShapeOf(s, x)
      BY <1>1 DEF Shape
    <3>2. t.color[x] = s.color[x] \/ t.color[x] = "white"
      BY <1>9
    <3>3. t.age[x] = s.age[x] \/ t.age[x] = "new"
      BY <1>9
    <3> QED BY <1>8, <1>11, <3>1, <3>2, <3>3 DEF ShapeOf
  <2> QED BY <1>1, <1>8, <2>1 DEF Shape
<1>13. \A x \in Objects : Refs(t, x) = Refs(s, x)
  BY <1>8 DEF Refs, Stack, OpenUpvals, UpvalValue
<1>14. Closed(t)
  BY <1>1, <1>8, <1>11, <1>13 DEF Closed
<1>15. Lists(t)
  BY <1>1, <1>8, <1>11 DEF Lists
<1>16. ASSUME NEW S, Fresh(s, S), S \subseteq Objects PROVE Fresh(t, S) /\ Fresh(t, S \cup {o})
  BY <1>4, <1>9, <1>16 DEF Fresh
<1>17. Cur(t) = l /\ t[l] = L /\ Passed(t) = Passed(s) /\ Passed(s) \subseteq Objects
  <2>1. t[l] = s[l]
    BY <1>3, <1>8 DEF ObjectLists
  <2>2. In(s.allgc) \subseteq Objects /\ In(s.finobj) \subseteq Objects
    BY <1>1 DEF Lists, InUse
  <2> QED BY <1>2, <1>8, <2>1, <2>2 DEF Cur, Passed, L
<1>18. In(Prefix(L, p)) \subseteq Objects
  <2>1. Prefix(L, p) \in Seq(Objects)
    BY <1>2, <1>3, RestIs
  <2> QED BY <2>1, InType
<1>19. Sweeping(t)
  <2>1. Fresh(t, Passed(t))
    BY <1>16, <1>17 DEF Sweeping
  <2>2. Fresh(t, In(Prefix(L, o)))
    BY <1>2, <1>4, <1>16, <1>18
  <2>3. t.sweepgc # Nowhere /\ t.sweepgc.list = l /\ t.sweepgc.after = o /\ o \in Pointers(L)
    BY <1>3, <1>4, <1>6, <1>7, Null DEF Nowhere, Pointers, ObjectLists
  <2> QED BY <1>8, <1>17, <2>1, <2>2, <2>3 DEF Sweeping, Cursor
<1> QED BY Zenon, <1>4, <1>6, <1>7, <1>11, <1>12, <1>14, <1>15, <1>17, <1>19 DEF Base, L, t, Spared

\* t is s with more of the list swept.
Sweeps(s, t) ==
  Base(t) /\ Sweeping(t) /\ Live(t) = Live(s) /\ Same(s, t, Touches(Cur(s)))
(* What is left to sweep of the list.  *)
Ahead(s) == Rest(s[s.sweepgc.list], s.sweepgc.after)

\* A sweep leaves the state of the cycle alone.
LEMMA SweepsSame ==
  ASSUME NEW s, NEW t, Same(s, t, Touches(Cur(s)))
  PROVE  t.gcstate = s.gcstate /\ t.gckind = s.gckind /\ Cur(t) = Cur(s)
  BY DEF Same, Fields, Touches, Cur

\* Sweeps compose.
LEMMA SweepsTrans ==
  ASSUME NEW s, NEW t, NEW u, Sweeps(s, t), Sweeps(t, u)
  PROVE  Sweeps(s, u)
<1>1. Cur(t) = Cur(s)
  BY SweepsSame DEF Sweeps
<1> QED BY <1>1 DEF Sweeps, Same

\* No sweep at all.
LEMMA SweepsRefl ==
  ASSUME NEW s, Base(s), Sweeping(s)
  PROVE  Sweeps(s, s)
  BY DEF Sweeps, Same

\* One turn of sweeplist.
LEMMA SweepElementIs ==
  ASSUME NEW s, Base(s), KindOK, Sweeping(s), s.sweepgc # Nowhere
  PROVE  LET t == SweepElement(s)
         IN  /\ Sweeps(s, t) /\ t.sweepgc # Nowhere
             /\ Ahead(s) = << >> => t = s
             /\ Ahead(s) # << >> =>
                  /\ Ahead(t) = Tail(Ahead(s))
                  /\ t.sweepgc = s.sweepgc \/ t.sweepgc.after # s.sweepgc.after
<1> DEFINE l == s.sweepgc.list
           p == s.sweepgc.after
           o == Head(Rest(s[l], p))
           d == Dropped(s, l, o)
           a == Spared(s, o)
           t == SweepElement(s)
<1>0. Ahead(s) = Rest(s[l], p) /\ l = Cur(s)
  BY DEF Ahead, Sweeping, Cursor
<1>1. t = IF Rest(s[l], p) = << >> THEN s ELSE IF s.color[o] = "dead" THEN d ELSE a
  BY DEF SweepElement, Dropped, Spared
<1>11. l = s.sweepgc.list /\ p = s.sweepgc.after /\ o = Head(Rest(s[l], p))
  OBVIOUS
<1> HIDE DEF t, l, p, o
<1>2. CASE Ahead(s) = << >>
  <2>1. t = s
    BY <1>0, <1>1, <1>2
  <2>2. Sweeps(s, s)
    BY SweepsRefl
  <2> QED BY <1>2, <2>1, <2>2 DEF t
<1>3. CASE Ahead(s) # << >> /\ s.color[o] = "dead"
  <2>1. t = d
    BY <1>0, <1>1, <1>3
  <2>2. /\ Base(d) /\ Sweeping(d) /\ Live(d) = Live(s)
        /\ Same(s, d, Touches(l))
        /\ d.sweepgc = s.sweepgc /\ Rest(d[l], p) = Tail(Rest(s[l], p))
    <3>1. Rest(s[l], p) # << >> /\ s.color[o] = "dead"
      BY <1>0, <1>3
    <3> QED BY <1>11, <3>1, SweepDead
  <2> HIDE DEF d
  <2>3. Sweeps(s, d)
    BY <1>0, <2>2 DEF Sweeps
  <2>4. Ahead(d) = Rest(d[l], p)
    BY <1>11, <2>2 DEF Ahead
  <2> QED BY <1>0, <1>3, <2>1, <2>2, <2>3, <2>4 DEF t
<1>4. CASE Ahead(s) # << >> /\ s.color[o] # "dead"
  <2>1. t = a
    BY <1>0, <1>1, <1>4
  <2>2. /\ Base(a) /\ Sweeping(a) /\ Live(a) = Live(s)
        /\ Same(s, a, {"color", "age", "sweepgc"})
        /\ a.sweepgc = [list |-> l, after |-> o]
        /\ Rest(a[l], o) = Tail(Rest(s[l], p)) /\ o # p /\ o \in Objects
    <3>1. Rest(s[l], p) # << >> /\ s.color[o] # "dead"
      BY <1>0, <1>4
    <3> QED BY <1>11, <3>1, SweepAlive
  <2> HIDE DEF a
  <2>3. a.sweepgc.list = l /\ a.sweepgc.after = o
    BY <2>2
  <2>4. a.sweepgc # Nowhere
    BY <2>2, <2>3, Null DEF Nowhere
  <2>5. Sweeps(s, a)
    BY <1>0, <2>2 DEF Sweeps, Same, Touches
  <2>6. Ahead(a) = Rest(a[l], o)
    BY <2>3 DEF Ahead
  <2> QED BY <1>0, <1>4, <1>11, <2>1, <2>2, <2>3, <2>4, <2>5, <2>6 DEF t
<1> QED BY <1>2, <1>3, <1>4 DEF t

\* A sweep at the end of its list has no cursor any more.
LEMMA FinishedIs ==
  ASSUME NEW s, Base(s), Sweeping(s), s.sweepgc # Nowhere
  PROVE  LET t == Finished(s)
         IN  /\ Sweeps(s, t)
             /\ t.sweepgc = IF Ahead(s) = << >> THEN Nowhere ELSE s.sweepgc
<1>1. CASE Ahead(s) # << >>
  BY <1>1, SweepsRefl DEF Finished, Ahead
<1>2. CASE Ahead(s) = << >>
  <2> DEFINE t == [s EXCEPT !.sweepgc = Nowhere]
             L == s[Cur(s)]
  <2>1. Finished(s) = t
    BY <1>2 DEF Finished, Ahead
  <2>2. s \in StateType /\ Lists(s) /\ Shape(s) /\ Closed(s)
    BY DEF Base
  <2>3. t \in StateType /\ Same(s, t, {"sweepgc"}) /\ t.sweepgc = Nowhere
    BY ZenonT(40), <2>2 DEF StateType, Same, Fields, Nowhere, OrNull
  <2> HIDE DEF t
  <2>4. Same(s, t, Unseen)
    BY <2>3 DEF Same, Unseen
  <2>5. /\ Shape(t) /\ t.color = s.color /\ t.age = s.age /\ t.open = s.open /\ t.twups = s.twups
        /\ t.gcstate = s.gcstate /\ \A x \in Objects : Refs(t, x) = Refs(s, x)
    BY <2>2, <2>3, <2>4, UnseenTrace
  <2>6. t.allgc = s.allgc /\ t.finobj = s.finobj /\ t.tobefnz = s.tobefnz
    BY <2>3 DEF Same, Fields
  <2>7. Live(t) = Live(s) /\ InUse(t) = InUse(s)
    BY <2>5 DEF Live, InUse
  <2>8. Lists(t) /\ Closed(t)
    BY <2>2, <2>5, <2>6, <2>7 DEF Lists, Closed
  <2>9. Cur(t) = Cur(s) /\ Passed(t) = Passed(s) /\ t[Cur(s)] = L
    BY <2>5, <2>6 DEF Cur, Passed
  <2>10. Fresh(s, In(Prefix(L, s.sweepgc.after))) /\ s.sweepgc.after \in Pointers(L)
         /\ Rest(L, s.sweepgc.after) = << >>
    BY <1>2 DEF Sweeping, Cursor, Ahead
  <2>11. L \in Seq(Objects) /\ IsInjective(L)
    BY CurIs
  <2> HIDE DEF L
  <2>12. Prefix(L, s.sweepgc.after) = L
    <3> DEFINE a == Prefix(L, s.sweepgc.after)
    <3>1. a \in Seq(Objects) /\ L = a \o << >>
      BY <2>10, <2>11, RestIs
    <3> HIDE DEF a
    <3>2. L = a
      BY <3>1
    <3> QED BY <3>2 DEF a
  <2>13. Fresh(t, In(L)) /\ Fresh(t, Passed(t))
    BY <2>5, <2>9, <2>10, <2>12 DEF Fresh, Sweeping
  <2>14. Sweeping(t)
    BY <2>3, <2>5, <2>9, <2>13 DEF Sweeping
  <2>15. Same(s, t, Touches(Cur(s)))
    BY <2>3 DEF Same, Touches
  <2> QED BY <1>2, <2>1, <2>3, <2>5, <2>7, <2>8, <2>14, <2>15 DEF Sweeps, Base
<1> QED BY <1>1, <1>2

\* sweeplist of any number of elements.
LEMMA SweepListIs ==
  ASSUME NEW s, Base(s), KindOK, Sweeping(s), s.sweepgc # Nowhere, NEW N \in Nat
  PROVE  Sweeps(s, SweepList(s, N))
<1> DEFINE Step(t) == SweepElement(t)
           V == { t \in StateType : Sweeps(s, t) /\ t.sweepgc # Nowhere }
           G == [t \in V |-> Step(t)]
           Rec(f) == [n \in 0..N |-> IF n = 0 THEN s ELSE Step(f[n - 1])]
<1>1. s \in V
  BY SweepsRefl DEF Base
<1>2. ASSUME NEW t \in V PROVE Step(t) \in V
  <2>1. Base(t) /\ Sweeping(t) /\ t.sweepgc # Nowhere /\ Sweeps(s, t)
    BY DEF Sweeps
  <2>2. Sweeps(t, Step(t)) /\ Step(t).sweepgc # Nowhere
    BY <2>1, SweepElementIs
  <2> HIDE DEF Step
  <2> QED BY <2>1, <2>2, SweepsTrans DEF Sweeps, Base
<1>3. G \in [V -> V]
  BY <1>2
<1>4. PICK f : TurnsOf(f, N, V, s, G)
  <2> HIDE DEF G, V
  <2> QED BY <1>1, <1>3, Turns
<1>5. f = Rec(f)
  <2> HIDE DEF Step, V
  <2>1. f \in [0..N -> V] /\ f[0] = s /\ \A n \in 1..N : f[n] = G[f[n - 1]]
    BY <1>4 DEF TurnsOf
  <2>2. ASSUME NEW n \in 1..N PROVE f[n] = Step(f[n - 1])
    <3>1. f[n - 1] \in V
      BY <2>1
    <3> QED BY <2>1, <3>1
  <2>3. \A n \in 0..N : f[n] = IF n = 0 THEN s ELSE Step(f[n - 1])
    BY <2>1, <2>2
  <2> QED BY <2>1, <2>3
<1> DEFINE g0 == CHOOSE h : h = Rec(h)
<1>6. g0 = Rec(g0)
  <2> HIDE DEF Rec
  <2> QED BY <1>5, Zenon
<1>7. SweepList(s, N) = Finished(g0[N])
  BY Zenon DEF SweepList
<1> HIDE DEF g0, Step
<1>8. g0[0] = s /\ \A n \in 1..N : g0[n] = Step(g0[n - 1])
  BY <1>6
<1>9. \A n \in 0..N : g0[n] \in V
  <2> HIDE DEF V
  <2>1. \A n \in 1..N : g0[n - 1] \in V => g0[n] \in V
    BY <1>2, <1>8
  <2> QED BY <1>1, <1>8, <2>1, TurnsStay
<1> DEFINE t == g0[N]
<1>10. Sweeps(s, t) /\ t.sweepgc # Nowhere
  BY <1>9
<1> HIDE DEF t
<1>11. Sweeps(t, Finished(t))
  BY <1>10, FinishedIs DEF Sweeps
<1>12. Sweeps(s, Finished(t))
  BY <1>10, <1>11, SweepsTrans
<1> QED BY <1>7, <1>12 DEF t

(* The cursor of sweeptolive ends elsewhere.  *)
LEMMA SweepToLiveIs ==
  ASSUME NEW s, Base(s), KindOK, Sweeping(s), s.sweepgc # Nowhere
  PROVE  LET t == SweepToLive(s) IN Sweeps(s, t) /\ t.sweepgc # s.sweepgc
<1> DEFINE N == Cardinality(Objects)
           Step(t) == IF t.sweepgc # s.sweepgc THEN t ELSE SweepElement(t)
           V == { t \in StateType : Sweeps(s, t) /\ t.sweepgc # Nowhere }
           G == [t \in V |-> Step(t)]
           Rec(f) == [n \in 0..N |-> IF n = 0 THEN s ELSE Step(f[n - 1])]
           done(t) == t.sweepgc # s.sweepgc \/ Ahead(t) = << >>
<1>0. N \in Nat
  BY Null
<1>1. s \in V
  BY SweepsRefl DEF Base
<1>a. ASSUME NEW t \in V
      PROVE  /\ Ahead(t) \in Seq(Objects) /\ IsInjective(Ahead(t))
             /\ IsFiniteSet(In(Ahead(t))) /\ Cardinality(In(Ahead(t))) \in Nat
             /\ Cardinality(In(Ahead(t))) <= N
  <2>1. Base(t) /\ Sweeping(t) /\ t.sweepgc # Nowhere
    BY DEF Sweeps
  <2> DEFINE L == t[Cur(t)]
             p == t.sweepgc.after
  <2>2. L \in Seq(Objects) /\ IsInjective(L) /\ p \in Pointers(L) /\ Ahead(t) = Rest(L, p)
    BY <2>1, CurIs DEF Sweeping, Cursor, Ahead
  <2> HIDE DEF L, p
  <2>3. Rest(L, p) \in Seq(Objects) /\ Prefix(L, p) \in Seq(Objects) /\ L = Prefix(L, p) \o Rest(L, p)
    BY <2>2, RestIs
  <2>4. IsInjective(Rest(L, p))
    <3> DEFINE a == Prefix(L, p)
               b == Rest(L, p)
    <3>1. a \in Seq(Objects) /\ b \in Seq(Objects) /\ IsInjective(a \o b)
      BY <2>2, <2>3
    <3> HIDE DEF a, b
    <3>2. IsInjective(b)
      BY <3>1, OnceConcat
    <3> QED BY <3>2 DEF b
  <2>5. In(Rest(L, p)) \subseteq Objects
    BY <2>3, InType
  <2>6. IsFiniteSet(In(Rest(L, p))) /\ Cardinality(In(Rest(L, p))) <= N
    BY <2>5, Null, FS_Subset
  <2> QED BY <2>2, <2>3, <2>4, <2>6, FS_CardinalityType
<1>2. ASSUME NEW t \in V
      PROVE  /\ Step(t) \in V /\ (done(t) => Step(t) = t)
             /\ done(t) \/ done(Step(t)) \/ Ahead(Step(t)) = Tail(Ahead(t))
  <2>1. Base(t) /\ Sweeping(t) /\ t.sweepgc # Nowhere /\ Sweeps(s, t)
    BY DEF Sweeps
  <2>2. CASE t.sweepgc # s.sweepgc
    BY <2>2
  <2>3. CASE t.sweepgc = s.sweepgc
    <3> DEFINE u == SweepElement(t)
    <3>1. Step(t) = u
      BY <2>3
    <3>2. /\ Sweeps(t, u) /\ u.sweepgc # Nowhere
          /\ Ahead(t) = << >> => u = t
          /\ Ahead(t) # << >> => Ahead(u) = Tail(Ahead(t))
      BY <2>1, SweepElementIs
    <3> HIDE DEF u, Step
    <3>3. u \in V
      BY <2>1, <3>2, SweepsTrans DEF Sweeps, Base
    <3> QED BY <2>3, <3>1, <3>2, <3>3
  <2> QED BY <2>2, <2>3
<1>3. G \in [V -> V]
  BY <1>2
<1>4. PICK f : TurnsOf(f, N, V, s, G)
  <2> HIDE DEF G, V, N
  <2> QED BY <1>0, <1>1, <1>3, Turns
<1>5. f = Rec(f)
  <2> HIDE DEF Step, N, V
  <2>1. f \in [0..N -> V] /\ f[0] = s /\ \A n \in 1..N : f[n] = G[f[n - 1]]
    BY <1>4 DEF TurnsOf
  <2>2. ASSUME NEW n \in 1..N PROVE f[n] = Step(f[n - 1])
    <3>1. f[n - 1] \in V
      BY <1>0, <2>1
    <3> QED BY <2>1, <3>1
  <2>3. \A n \in 0..N : f[n] = IF n = 0 THEN s ELSE Step(f[n - 1])
    BY <1>0, <2>1, <2>2
  <2> QED BY <2>1, <2>3
<1> DEFINE g0 == CHOOSE h : h = Rec(h)
<1>6. g0 = Rec(g0)
  <2> HIDE DEF Rec
  <2> QED BY <1>5, Zenon
<1>7. SweepToLive(s) = Finished(g0[N])
  BY Zenon DEF SweepToLive
<1> HIDE DEF g0, N, Step
<1>8. g0[0] = s /\ \A n \in 1..N : g0[n] = Step(g0[n - 1])
  BY <1>0, <1>6
<1>9. \A n \in 0..N : g0[n] \in V
  <2> HIDE DEF V
  <2>1. \A n \in 1..N : g0[n - 1] \in V => g0[n] \in V
    BY <1>2, <1>8
  <2> QED BY <1>0, <1>1, <1>8, <2>1, TurnsStay
<1> DEFINE w == [n \in 0..N |-> Cardinality(In(Ahead(g0[n])))]
           d == [n \in 0..N |-> g0[n].sweepgc # s.sweepgc \/ Ahead(g0[n]) = << >>]
<1> HIDE DEF V
<1>11. w \in [0..N -> Nat] /\ d \in [0..N -> BOOLEAN] /\ w[0] <= N
  BY <1>0, <1>9, <1>a
<1>12. ASSUME NEW n \in 1..N PROVE (d[n - 1] \/ d[n] \/ w[n] < w[n - 1]) /\ (d[n - 1] => d[n])
  <2> DEFINE t == g0[n - 1]
             u == g0[n]
  <2>1. n - 1 \in 0..N /\ n \in 0..N /\ u = Step(t) /\ t \in V /\ u \in V
    BY <1>0, <1>8, <1>9
  <2>2. (done(t) => u = t) /\ (done(t) \/ done(u) \/ Ahead(u) = Tail(Ahead(t)))
    BY <1>2, <2>1
  <2>3. d[n - 1] = done(t) /\ d[n] = done(u)
    BY <2>1
  <2>4. w[n - 1] = Cardinality(In(Ahead(t))) /\ w[n] = Cardinality(In(Ahead(u)))
    BY <2>1
  <2> HIDE DEF t, u, d, w
  <2>5. ASSUME ~done(t), Ahead(u) = Tail(Ahead(t))
        PROVE  Cardinality(In(Ahead(u))) < Cardinality(In(Ahead(t)))
    <3> DEFINE R == Ahead(t)
    <3>1. R \in Seq(Objects) /\ IsInjective(R) /\ IsFiniteSet(In(R)) /\ R # << >>
      BY <1>a, <2>1, <2>5
    <3> HIDE DEF R
    <3>2. In(R) = {Head(R)} \cup In(Tail(R))
      BY <3>1, InHeadTail
    <3>3. Head(R) \notin In(Tail(R))
      <4>1. \A i \in 1..Len(Tail(R)) : Tail(R)[i] = R[i + 1] /\ i + 1 \in DOMAIN R /\ 1 \in DOMAIN R
        BY <3>1
      <4>2. Head(R) = R[1] /\ DOMAIN Tail(R) = 1..Len(Tail(R)) /\ Len(Tail(R)) \in Nat
        BY <3>1
      <4>3. \A i \in 1..Len(Tail(R)) : Tail(R)[i] # R[1]
        <5>1. \A i \in 1..Len(Tail(R)) : i + 1 # 1
          BY <4>2
        <5> QED BY <3>1, <4>1, <5>1 DEF IsInjective
      <4> QED BY <4>2, <4>3 DEF In
    <3>4. Cardinality(In(Tail(R))) < Cardinality(In(R))
      <4>1. In(Tail(R)) \subseteq In(R) \ {Head(R)} /\ Head(R) \in In(R)
        BY <3>2, <3>3
      <4> QED BY <3>1, <4>1, FewerWork
    <3> QED BY <2>5, <3>4 DEF R
  <2>6. d[n - 1] \/ d[n] \/ w[n] < w[n - 1]
    BY <2>2, <2>3, <2>4, <2>5
  <2> QED BY <2>2, <2>3, <2>6
<1>13. ASSUME NEW n \in 0..N, w[n] = 0 PROVE d[n]
  <2>1. /\ Ahead(g0[n]) \in Seq(Objects) /\ IsFiniteSet(In(Ahead(g0[n])))
        /\ Cardinality(In(Ahead(g0[n]))) = 0
    BY <1>9, <1>13, <1>a
  <2>2. In(Ahead(g0[n])) = {}
    BY <2>1, FS_EmptySet
  <2>3. Ahead(g0[n]) = << >>
    BY <2>1, <2>2, InHeadTail
  <2> QED BY <2>3
<1> DEFINE w2 == [n \in 0..N |-> IF d[n] THEN 0 ELSE w[n]]
<1>14. d[N]
  <2>1. w2 \in [0..N -> Nat] /\ w2[0] <= N
    <3> HIDE DEF w, d
    <3> QED BY <1>0, <1>11
  <2>2. ASSUME NEW n \in 1..N PROVE (d[n - 1] \/ w2[n] < w2[n - 1]) /\ (d[n - 1] => d[n])
    <3>1. n \in 0..N /\ n - 1 \in 0..N
      BY <1>0
    <3> HIDE DEF w, d
    <3>2. w[n] \in Nat /\ w[n - 1] \in Nat /\ (w[n - 1] = 0 => d[n - 1])
      BY <1>11, <1>13, <3>1
    <3> QED BY <1>12, <3>1, <3>2
  <2>3. ASSUME NEW n \in 0..N, w2[n] = 0 PROVE d[n]
    <3> HIDE DEF w, d
    <3> QED BY <1>13, <2>3
  <2> HIDE DEF w, d, w2
  <2> QED BY <1>0, <1>11, <2>1, <2>2, <2>3, TurnsEnd
<1> DEFINE t == g0[N]
<1>15. t \in V /\ done(t)
  <2>1. N \in 0..N
    BY <1>0
  <2>2. d[N] = done(t)
    BY <2>1
  <2> HIDE DEF d
  <2> QED BY <1>9, <1>14, <2>1, <2>2
<1>16. Sweeps(s, t) /\ t.sweepgc # Nowhere
  BY <1>15 DEF V
<1> HIDE DEF t
<1>17. Sweeps(t, Finished(t)) /\ Finished(t).sweepgc = IF Ahead(t) = << >> THEN Nowhere ELSE t.sweepgc
  BY <1>16, FinishedIs DEF Sweeps
<1>18. Sweeps(s, Finished(t)) /\ Finished(t).sweepgc # s.sweepgc
  BY <1>15, <1>16, <1>17, SweepsTrans
<1> QED BY <1>7, <1>18 DEF t

(****************************************************************************)
(* The incremental mode                                                     *)
(****************************************************************************)

(* What an atomic phase starts from: X is still to be visited.  *)
Ready(s, X) ==
  /\ Trace(s, X, FALSE) /\ NoDead(s) /\ MainThread \in Marked(s)
  /\ s.weak = {} /\ s.allweak = {} /\ s.ephemeron = {} /\ s.sweepgc = Nowhere

Resting == {"pause", "swpend", "callfin"}

Marking == {"propagate", "enteratomic"}

IncInv(s) ==
  /\ s.gckind # "genminor"
  /\ s.finobjsur = NULL /\ s.finobjold1 = NULL /\ s.finobjrold = NULL
  /\ s.gcstate \in Resting => Fresh(s, InUse(s)) /\ s.sweepgc = Nowhere
  /\ s.gcstate \in Marking => Ready(s, {}) /\ \A o \in Objects : s.age[o] = "new"
  /\ s.gcstate = "atomic" => s.sweepgc = Nowhere /\ \A o \in Objects : s.color[o] # "white"
  /\ s.gcstate \in SweepStates => Sweeping(s)
(* The state of an incremental cycle.  *)
Cycle(s) == Base(s) /\ IncInv(s)

NoPointers(s) ==
  s.gckind # "genminor" /\ s.finobjsur = NULL /\ s.finobjold1 = NULL /\ s.finobjrold = NULL

\* A change of what nothing refers through keeps the structure of the heap.
LEMMA UnseenBase ==
  ASSUME NEW s, Base(s), NEW t \in StateType, Same(s, t, Unseen),
         t.allgc = s.allgc, t.finobj = s.finobj, t.tobefnz = s.tobefnz
  PROVE  Base(t) /\ Live(t) = Live(s) /\ InUse(t) = InUse(s)
<1>1. s \in StateType /\ Lists(s) /\ Shape(s) /\ Closed(s)
  BY DEF Base
<1>2. /\ Shape(t) /\ t.color = s.color /\ t.open = s.open /\ t.twups = s.twups
      /\ \A x \in Objects : Refs(t, x) = Refs(s, x)
  BY <1>1, UnseenTrace
<1>3. Live(t) = Live(s) /\ InUse(t) = InUse(s)
  BY <1>2 DEF Live, InUse
<1>4. Lists(t) /\ Closed(t)
  BY <1>1, <1>2, <1>3 DEF Lists, Closed
<1> QED BY <1>2, <1>3, <1>4 DEF Base

(* A change of the state of the cycle and of the cursor, outside of the atomic phase.  *)
Phase(s, q, w) == [s EXCEPT !.gcstate = q, !.sweepgc = w]

\* Entering a phase with a cursor keeps the structure of the heap and every reference.
LEMMA PhaseBase ==
  ASSUME NEW s, Base(s), NEW q \in Phases, NEW w \in [list : ObjectLists \cup {"none"}, after : OrNull(Objects)]
  PROVE  LET t == Phase(s, q, w)
         IN  /\ Base(t) /\ Same(s, t, {"gcstate", "sweepgc"}) /\ Live(t) = Live(s)
             /\ InUse(t) = InUse(s) /\ t.gcstate = q /\ t.sweepgc = w
             /\ \A x \in Objects : Refs(t, x) = Refs(s, x)
<1> DEFINE t == Phase(s, q, w)
<1>1. s \in StateType /\ Lists(s) /\ Shape(s) /\ Closed(s)
  BY DEF Base
<1>2. t \in StateType /\ Same(s, t, {"gcstate", "sweepgc"}) /\ t.gcstate = q /\ t.sweepgc = w
  BY <1>1 DEF Phase, StateType, Same, Fields
<1> HIDE DEF t
<1>3. /\ t.color = s.color /\ t.age = s.age /\ t.val = s.val /\ t.key = s.key
      /\ t.open = s.open /\ t.stack = s.stack /\ t.twups = s.twups
      /\ t.allgc = s.allgc /\ t.finobj = s.finobj /\ t.tobefnz = s.tobefnz
  BY <1>2 DEF Same, Fields
<1>4. Live(t) = Live(s) /\ InUse(t) = InUse(s)
  BY <1>3 DEF Live, InUse
<1>5. \A x \in Objects : Refs(t, x) = Refs(s, x)
  BY <1>3 DEF Refs, Stack, OpenUpvals, UpvalValue
<1>6. Shape(t)
  BY <1>1, <1>3, <1>4 DEF Shape, ShapeOf
<1>7. Lists(t) /\ Closed(t)
  BY <1>1, <1>3, <1>4, <1>5 DEF Lists, Closed
<1> QED BY <1>2, <1>4, <1>5, <1>6, <1>7 DEF Base, t

\* The cursors that enter a sweep are cursors.
LEMMA CursorType ==
  ASSUME NEW l \in ObjectLists \cup {"none"}
  PROVE  /\ [list |-> l, after |-> NULL] \in [list : ObjectLists \cup {"none"}, after : OrNull(Objects)]
         /\ Nowhere \in [list : ObjectLists \cup {"none"}, after : OrNull(Objects)]
         /\ l # "none" => [list |-> l, after |-> NULL] # Nowhere
<1>1. /\ [list |-> l, after |-> NULL] \in [list : ObjectLists \cup {"none"}, after : OrNull(Objects)]
      /\ Nowhere \in [list : ObjectLists \cup {"none"}, after : OrNull(Objects)]
  BY DEF Nowhere, OrNull
<1>2. [list |-> l, after |-> NULL].list = l /\ Nowhere.list = "none"
  BY DEF Nowhere
<1> QED BY <1>1, <1>2

\* A cursor at the head of a list has passed nothing.
LEMMA NothingPassed ==
  ASSUME NEW L \in Seq(Objects)
  PROVE  Prefix(L, NULL) = << >> /\ In(Prefix(L, NULL)) = {} /\ NULL \in Pointers(L)
  BY DEF Prefix, In, Pointers

\* A step of the sweep keeps the invariant of the incremental mode.
LEMMA SweepsCycle ==
  ASSUME NEW s, NEW t, Sweeps(s, t), NoPointers(s)
  PROVE  /\ Cycle(t) /\ t.gckind = s.gckind /\ t.infin = s.infin /\ t.gcstate = s.gcstate
         /\ t.gcstate \in SweepStates /\ Live(t) = Live(s) /\ t.emergency = s.emergency
<1>1. Base(t) /\ Sweeping(t) /\ Live(t) = Live(s) /\ Same(s, t, Touches(Cur(s)))
  BY DEF Sweeps
<1>2. /\ t.gckind = s.gckind /\ t.infin = s.infin /\ t.gcstate = s.gcstate
      /\ t.finobjsur = s.finobjsur /\ t.finobjold1 = s.finobjold1 /\ t.finobjrold = s.finobjrold
      /\ t.emergency = s.emergency
  BY <1>1 DEF Same, Fields, Touches, Cur
<1>3. t.gcstate \in SweepStates
  BY <1>1 DEF Sweeping
<1>4. t.gcstate \notin Resting /\ t.gcstate \notin Marking /\ t.gcstate # "atomic"
  BY <1>3 DEF SweepStates, Resting, Marking
<1> QED BY <1>1, <1>2, <1>3, <1>4 DEF Cycle, IncInv, NoPointers

\* entersweep: when no object has a color that the sweep does not expect, the sweep may
\* begin.
LEMMA EnterSweepIs ==
  ASSUME NEW s, Base(s), KindOK, NoPointers(s)
  PROVE  LET t == EnterSweep(s)
         IN  /\ Cycle(t) /\ t.gckind = s.gckind /\ t.infin = s.infin /\ t.gcstate = "swpallgc"
             /\ Live(t) = Live(s) /\ t.emergency = s.emergency
<1> DEFINE w == [list |-> "allgc", after |-> NULL]
           u == Phase(s, "swpallgc", w)
<1>1. EnterSweep(s) = SweepToLive(u)
  BY DEF EnterSweep, Phase
<1>2. w \in [list : ObjectLists \cup {"none"}, after : OrNull(Objects)] /\ w # Nowhere
  BY CursorType DEF ObjectLists
<1>20. "swpallgc" \in Phases /\ w.list = "allgc" /\ w.after = NULL
  BY DEF Phases
<1> HIDE DEF w
<1>3. /\ Base(u) /\ Same(s, u, {"gcstate", "sweepgc"}) /\ Live(u) = Live(s)
      /\ u.gcstate = "swpallgc" /\ u.sweepgc = w
  BY <1>2, <1>20, PhaseBase
<1> HIDE DEF u
<1>4. Cur(u) = "allgc" /\ Passed(u) = {} /\ u[Cur(u)] \in Seq(Objects)
  BY <1>3, CurIs DEF Cur, Passed
<1>5. Sweeping(u)
  <2>2. Cursor(u)
    BY <1>3, <1>4, <1>20, NothingPassed DEF Cursor, Fresh
  <2> QED BY <1>2, <1>3, <1>4, <2>2 DEF Sweeping, SweepStates, Fresh
<1>6. Sweeps(u, SweepToLive(u))
  BY <1>2, <1>3, <1>5, SweepToLiveIs
<1>7. u.gckind = s.gckind /\ u.infin = s.infin /\ NoPointers(u) /\ u.emergency = s.emergency
  BY <1>3 DEF Same, Fields, NoPointers
<1>8. LET t == SweepToLive(u)
      IN  Cycle(t) /\ t.gckind = u.gckind /\ t.infin = u.infin /\ t.gcstate = u.gcstate /\ Live(t) = Live(u)
          /\ t.emergency = u.emergency
  BY <1>6, <1>7, SweepsCycle
<1> QED BY <1>1, <1>3, <1>7, <1>8

\* sweepstep: a step of the sweep, or the passage to the next list, keeps the invariant.
LEMMA SweepStepIs ==
  ASSUME NEW s, Cycle(s), KindOK, NEW q, NEW l, NEW fast \in BOOLEAN,
         \/ s.gcstate = "swpallgc" /\ q = "swpfinobj" /\ l = "finobj"
         \/ s.gcstate = "swpfinobj" /\ q = "swptobefnz" /\ l = "tobefnz"
         \/ s.gcstate = "swptobefnz" /\ q = "swpend" /\ l = "none"
  PROVE  LET t == SweepStep(s, q, l, fast)
         IN  /\ Cycle(t) /\ t.gckind = s.gckind /\ t.infin = s.infin /\ t.gcstate # "atomic"
             /\ t.emergency = s.emergency
<1>1. Base(s) /\ Sweeping(s) /\ NoPointers(s) /\ s.gcstate \in SweepStates
  BY DEF Cycle, IncInv, NoPointers, SweepStates
<1>2. CASE s.sweepgc # Nowhere
  <2> DEFINE n == IF fast THEN Cardinality(Objects) ELSE GCSWEEPMAX
             t == SweepList(s, n)
  <2>1. n \in Nat
    BY Null, CollectorAssumption
  <2>2. SweepStep(s, q, l, fast) = t
    BY <1>2 DEF SweepStep
  <2> HIDE DEF n
  <2>3. Sweeps(s, t)
    BY <1>1, <1>2, <2>1, SweepListIs
  <2> HIDE DEF t
  <2>4. t.gcstate # "atomic"
    BY <1>1, <2>3, SweepsCycle DEF SweepStates
  <2> QED BY <1>1, <2>2, <2>3, <2>4, SweepsCycle
<1>3. CASE s.sweepgc = Nowhere
  <2> DEFINE w == IF l = "none" THEN Nowhere ELSE [list |-> l, after |-> NULL]
             t == Phase(s, q, w)
  <2>1. SweepStep(s, q, l, fast) = t
    BY <1>3 DEF SweepStep, Phase
  <2>2. w \in [list : ObjectLists \cup {"none"}, after : OrNull(Objects)]
        /\ (l # "none" => w # Nowhere /\ w.list = l /\ w.after = NULL)
        /\ (l = "none" => w = Nowhere)
    BY CursorType DEF ObjectLists
  <2>3. q \in Phases
    BY DEF Phases
  <2> HIDE DEF w
  <2>4. /\ Base(t) /\ Same(s, t, {"gcstate", "sweepgc"}) /\ Live(t) = Live(s)
        /\ InUse(t) = InUse(s) /\ t.gcstate = q /\ t.sweepgc = w
    BY <1>1, <2>2, <2>3, PhaseBase
  <2> HIDE DEF t
  <2>5. /\ t.gckind = s.gckind /\ t.infin = s.infin /\ t.emergency = s.emergency /\ NoPointers(t)
        /\ t.color = s.color /\ t.age = s.age
        /\ t.allgc = s.allgc /\ t.finobj = s.finobj /\ t.tobefnz = s.tobefnz
    BY <1>1, <2>4 DEF Same, Fields, NoPointers
  <2>6. Fresh(s, Passed(s)) /\ Fresh(s, In(s[Cur(s)]))
    BY <1>1, <1>3 DEF Sweeping
  <2>7. CASE q = "swpend"
    <3>1. Passed(s) = In(s.allgc) \cup In(s.finobj) /\ Cur(s) = "tobefnz"
      BY <2>7 DEF Passed, Cur
    <3>2. Fresh(s, InUse(s))
      BY <1>1, <2>6, <3>1 DEF Fresh, Base, Lists
    <3>3. Fresh(t, InUse(t)) /\ t.sweepgc = Nowhere
      BY <2>2, <2>4, <2>5, <2>7, <3>2 DEF Fresh
    <3> QED BY <2>1, <2>4, <2>5, <2>7, <3>3 DEF Cycle, IncInv, NoPointers, Marking, SweepStates
  <2>8. CASE q # "swpend"
    <3>1. q \in {"swpfinobj", "swptobefnz"} /\ Cur(t) = l /\ w # Nowhere /\ w.list = l /\ w.after = NULL
      BY <2>2, <2>4, <2>8 DEF Cur
    <3>2. Passed(t) = Passed(s) \cup In(s[Cur(s)])
      BY <2>4, <2>5, <2>8 DEF Passed, Cur
    <3>3. Fresh(t, Passed(t))
      BY <2>5, <2>6, <3>2 DEF Fresh
    <3>4. t[Cur(t)] \in Seq(Objects)
      BY <2>4, CurIs
    <3>5. Cursor(t)
      BY <2>4, <3>1, <3>4, NothingPassed DEF Cursor, Fresh
    <3>6. Sweeping(t)
      BY <2>4, <3>1, <3>3, <3>5 DEF Sweeping, SweepStates
    <3> QED BY <2>1, <2>4, <2>5, <3>1, <3>6 DEF Cycle, IncInv, NoPointers, Marking, Resting
  <2> QED BY <2>7, <2>8
<1> QED BY <1>2, <1>3

\* The trace does not depend on the phase, as long as neither phase is the atomic one.
LEMMA GcstateTrace ==
  ASSUME NEW s \in StateType, NEW t \in StateType, Same(s, t, Unseen \cup {"gcstate"}),
         s.gcstate # "atomic", t.gcstate # "atomic", Shape(s)
  PROVE  /\ Shape(t) /\ \A X : Trace(s, X, FALSE) => Trace(t, X, FALSE)
         /\ t.color = s.color /\ t.age = s.age /\ t.val = s.val /\ t.key = s.key
         /\ t.open = s.open /\ t.stack = s.stack
         /\ t.twups = s.twups /\ t.gray = s.gray /\ t.grayagain = s.grayagain
         /\ t.weak = s.weak /\ t.allweak = s.allweak /\ t.ephemeron = s.ephemeron
<1>1. /\ t.color = s.color /\ t.age = s.age /\ t.val = s.val /\ t.key = s.key
      /\ t.open = s.open /\ t.stack = s.stack
      /\ t.twups = s.twups /\ t.gray = s.gray /\ t.grayagain = s.grayagain
      /\ t.weak = s.weak /\ t.allweak = s.allweak /\ t.ephemeron = s.ephemeron
  BY DEF Same, Fields, Unseen
<1>2. Shape(t)
  BY <1>1 DEF Shape, ShapeOf, InUse
<1>3. ASSUME NEW X, Trace(s, X, FALSE) PROVE Trace(t, X, FALSE)
  <2>1. Pending(s) = Pending(t) /\ Later(s) = Later(t) /\ Marked(s) = Marked(t)
    BY <1>1 DEF Pending, Later, Marked
  <2>2. ASSUME NEW o \in Objects PROVE TraceOf(t, X, FALSE, o)
    <3>1. TraceOf(s, X, FALSE, o)
      BY <1>3 DEF Trace
    <3>2. Refs(s, o) = Refs(t, o)
      BY <1>1 DEF Refs, Stack, OpenUpvals, UpvalValue
    <3>3. Visited(s, o, FALSE) => Visited(t, o, FALSE)
      BY <1>1, <3>2 DEF Visited, IsWhite, Full
    <3> QED BY <1>1, <2>1, <3>1, <3>3 DEF TraceOf, IsGray, IsOld, IsBlack, IsWhite
  <2> QED BY <1>1, <1>3, <2>1, <2>2 DEF Trace
<1> QED BY <1>1, <1>2, <1>3

\* Mark changes colors and the gray list, nothing else.
LEMMA MarkSame ==
  ASSUME NEW s \in StateType, NEW S \in SUBSET OrNull(Objects)
  PROVE  Mark(s, S) \in StateType /\ Same(s, Mark(s, S), {"color", "gray"})
<1>1. { o \in S \ {NULL} : IsWhite(s, o) } \in SUBSET Objects
  BY DEF OrNull
<1> QED BY <1>1, ReallyMarkIs DEF Mark

(* What a traversal while the program runs may change.  *)
Propagates(s, t) == t \in StateType /\ Same(s, t, {"color", "gray", "grayagain", "age", "key"})

\* Traversals compose.
LEMMA PropagatesTrans ==
  ASSUME NEW s, NEW t, NEW u, Propagates(s, t), Propagates(t, u)
  PROVE  Propagates(s, u)
  BY DEF Propagates, Same

\* What a traversal is made of: marks, cleared keys, links into grayagain.
LEMMA PropagatesSteps ==
  ASSUME NEW s \in StateType, NEW o \in Objects, NEW S \in SUBSET OrNull(Objects)
  PROVE  /\ Propagates(s, Mark(s, S)) /\ Propagates(s, ClearKey(s, o))
         /\ Propagates(s, Link(s, o, "grayagain")) /\ Propagates(s, GenLink(s, o))
         /\ Propagates(s, s)
<1>1. Propagates(s, Mark(s, S))
  BY MarkSame DEF Propagates, Same
<1>2. Propagates(s, ClearKey(s, o))
  BY ZenonT(40) DEF ClearKey, Propagates, StateType, Same, Fields, OrNull
<1>3. Propagates(s, Link(s, o, "grayagain"))
  <2> DEFINE t == Link(s, o, "grayagain")
  <2>1. t \in StateType /\ Same(s, t, {"color", "grayagain"})
    BY LinkIs
  <2> HIDE DEF t
  <2>2. Propagates(s, t)
    BY <2>1 DEF Propagates, Same
  <2> QED BY <2>2 DEF t
<1>4. Propagates(s, SetAge(s, o, "old"))
  BY DEF SetAge, Propagates, StateType, Same, Fields, Ages
<1>5. Propagates(s, s)
  BY DEF Propagates, Same
<1> QED BY <1>1, <1>2, <1>3, <1>4, <1>5 DEF GenLink

\* propagatemark in the phase in which the program runs is such a traversal.
LEMMA PropagateMarkSame ==
  ASSUME NEW s \in StateType, KindOK, NEW o \in Objects, s.gcstate = "propagate",
         kind[o] \notin {"string", "upval", "bareudata"}
  PROVE  Propagates(s, PropagateMark(s, o))
<1> DEFINE u == [Paint(s, o, "black") EXCEPT !.gray = @ \ {o}]
<1>1. Propagates(s, u)
  BY DEF Paint, Propagates, StateType, Same, Fields, Colors
<1>2. u \in StateType /\ u.gcstate = "propagate"
  BY <1>1 DEF Propagates, Same, Fields
<1>3. PropagateMark(s, o) =
        CASE kind[o] \in {"table", "userdata"} -> TraverseStrongTable(u, o)
          [] kind[o] = "weakvalue" -> TraverseWeakValue(u, o)
          [] kind[o] = "ephemeron" -> TraverseEphemeron(u, o)
          [] kind[o] = "allweak" -> TraverseAllWeak(u, o)
          [] kind[o] = "closure" -> Mark(u, {u.val[o]})
          [] kind[o] = "thread" -> TraverseThread(u, o)
  BY DEF PropagateMark
<1> HIDE DEF u
<1>4. u.val[o] \in OrNull(Objects) /\ u.key[o] \in OrNull(Objects)
  BY <1>2 DEF StateType, OrNull, Proper
<1>5. ASSUME NEW v, Propagates(u, v)
      PROVE  /\ Propagates(u, GenLink(v, o)) /\ Propagates(u, Link(v, o, "grayagain"))
             /\ \A S \in SUBSET OrNull(Objects) : Propagates(u, Mark(v, S))
             /\ v.gcstate = "propagate" /\ v \in StateType
  <2>1. v \in StateType /\ v.gcstate = "propagate"
    BY <1>2, <1>5 DEF Propagates, Same, Fields
  <2> QED BY <1>5, <2>1, PropagatesSteps, PropagatesTrans
<1>6. Propagates(u, u) /\ Propagates(u, ClearKey(u, o))
  BY <1>2, PropagatesSteps
<1>7. \A x, y \in OrNull(Objects) : {x} \in SUBSET OrNull(Objects)
                                     /\ {x} \cup Strings({y}) \in SUBSET OrNull(Objects)
  BY DEF Strings
<1>8. CASE kind[o] \in {"table", "userdata"}
  <2>1. PropagateMark(s, o) = GenLink(Mark(u, {u.val[o]}), o)
    BY <1>3, <1>8 DEF TraverseStrongTable
  <2> QED BY <1>1, <1>4, <1>5, <1>6, <1>7, <2>1, PropagatesTrans
<1>9. CASE kind[o] = "weakvalue"
  <2> DEFINE v == IF u.val[o] = NULL THEN ClearKey(u, o)
                  ELSE Mark(u, {u.key[o]} \cup Strings({u.val[o]}))
  <2>1. PropagateMark(s, o) = LinkWeakValue(v, o)
    BY <1>3, <1>9 DEF TraverseWeakValue
  <2>2. Propagates(u, v)
    BY <1>4, <1>5, <1>6, <1>7
  <2> HIDE DEF v
  <2>3. LinkWeakValue(v, o) = Link(v, o, "grayagain")
    BY <1>5, <2>2 DEF LinkWeakValue
  <2> QED BY <1>1, <1>5, <2>1, <2>2, <2>3, PropagatesTrans
<1>10. CASE kind[o] = "ephemeron"
  <2> DEFINE cleared == u.val[o] # NULL /\ IsCleared(u, u.key[o])
             v == IF u.val[o] = NULL THEN ClearKey(u, o)
                  ELSE IF cleared THEN u
                  ELSE Mark(u, {u.val[o]} \cup Strings({u.key[o]}))
             ww == cleared /\ IsWhite(u, u.val[o])
  <2>1. PropagateMark(s, o) = LinkEphemeron(v, o, cleared, ww)
    BY <1>3, <1>10 DEF TraverseEphemeron
  <2>2. Propagates(u, v)
    BY <1>4, <1>5, <1>6, <1>7
  <2> HIDE DEF v, cleared, ww
  <2>3. LinkEphemeron(v, o, cleared, ww) = Link(v, o, "grayagain")
    BY <1>5, <2>2 DEF LinkEphemeron
  <2> QED BY <1>1, <1>5, <2>1, <2>2, <2>3, PropagatesTrans
<1>11. CASE kind[o] = "allweak"
  <2>1. PropagateMark(s, o) = Link(u, o, "grayagain")
    BY <1>2, <1>3, <1>11 DEF TraverseAllWeak
  <2> QED BY <1>1, <1>5, <1>6, <2>1, PropagatesTrans
<1>12. CASE kind[o] = "closure"
  <2>1. PropagateMark(s, o) = Mark(u, {u.val[o]})
    BY <1>3, <1>12
  <2> QED BY <1>1, <1>4, <1>5, <1>6, <1>7, <2>1, PropagatesTrans
<1>13. CASE kind[o] = "thread"
  <2> DEFINE v == Link(u, o, "grayagain")
             S == Stack(u, o) \cup OpenUpvals(u, o)
  <2>1. PropagateMark(s, o) = RejoinTwups(Mark(v, S), o)
    BY <1>2, <1>3, <1>13 DEF TraverseThread
  <2>2. Propagates(u, v)
    BY <1>5, <1>6
  <2> HIDE DEF v
  <2>4. S \in SUBSET OrNull(Objects)
    BY <1>2, <1>13, RefsType, RefsThread DEF OrNull
  <2> HIDE DEF S
  <2>5. Propagates(u, Mark(v, S))
    BY <1>5, <2>2, <2>4
  <2>6. RejoinTwups(Mark(v, S), o) = Mark(v, S)
    BY <1>5, <2>5 DEF RejoinTwups
  <2> QED BY <1>1, <2>1, <2>5, <2>6, PropagatesTrans
<1> QED BY <1>8, <1>9, <1>10, <1>11, <1>12, <1>13 DEF KindOK, Kinds

CycleTo(s, t, q) ==
  /\ Cycle(t) /\ t.gckind = s.gckind /\ t.infin = s.infin /\ t.emergency = s.emergency
  /\ t.gcstate = q

\* While nothing is dead, everything in use is live.
LEMMA AllLive ==
  ASSUME NEW s \in StateType, NoDead(s)
  PROVE  Live(s) = InUse(s)
  BY DEF StateType, NoDead, Live, InUse, Colors

\* Marking keeps the structure of the heap, as nothing is dead while there is marking.
LEMMA MarksBase ==
  ASSUME NEW s, Base(s), NoDead(s), KindOK, NEW t, Marks(s, t), Shape(t), t.twups = s.twups
  PROVE  Base(t) /\ NoDead(t) /\ Live(t) = Live(s) /\ InUse(t) = InUse(s)
<1>1. s \in StateType /\ Lists(s) /\ Shape(s) /\ Closed(s) /\ t \in StateType
  BY DEF Base, Marks
<1>2. InUse(t) = InUse(s)
  BY MarksWhite DEF InUse
<1>3. NoDead(t)
  BY DEF NoDead, Marks
<1>4. Live(t) = Live(s)
  BY <1>1, <1>2, <1>3, AllLive
<1>5. t.allgc = s.allgc /\ t.finobj = s.finobj /\ t.tobefnz = s.tobefnz /\ t.open = s.open
  BY MarksSame
<1>6. Lists(t)
  BY <1>1, <1>2, <1>5 DEF Lists
<1>7. \A o \in Objects : Refs(t, o) \subseteq Refs(s, o)
  BY <1>1, MarksRefs
<1>8. Closed(t)
  BY <1>1, <1>4, <1>5, <1>7 DEF Closed
<1> QED BY <1>1, <1>3, <1>4, <1>2, <1>6, <1>8 DEF Base

Emptied(s) == [s EXCEPT !.gray = {}, !.grayagain = {}, !.weak = {}, !.allweak = {}, !.ephemeron = {}]

\* cleargraylists keeps the structure of the heap.
LEMMA EmptiedIs ==
  ASSUME NEW s, Base(s)
  PROVE  LET t == Emptied(s)
         IN  /\ Base(t) /\ Same(s, t, MarkLists) /\ Live(t) = Live(s) /\ InUse(t) = InUse(s)
             /\ t.gray = {} /\ t.grayagain = {} /\ t.weak = {} /\ t.allweak = {} /\ t.ephemeron = {}
             /\ \A x \in Objects : Refs(t, x) = Refs(s, x)
<1> DEFINE t == Emptied(s)
<1>1. s \in StateType /\ Lists(s) /\ Shape(s) /\ Closed(s)
  BY DEF Base
<1>2. /\ t \in StateType /\ Same(s, t, MarkLists)
      /\ t.gray = {} /\ t.grayagain = {} /\ t.weak = {} /\ t.allweak = {} /\ t.ephemeron = {}
  BY <1>1 DEF Emptied, StateType, Same, Fields, MarkLists
<1> HIDE DEF t
<1>3. /\ t.color = s.color /\ t.age = s.age /\ t.val = s.val /\ t.key = s.key
      /\ t.open = s.open /\ t.stack = s.stack /\ t.twups = s.twups
      /\ t.allgc = s.allgc /\ t.finobj = s.finobj /\ t.tobefnz = s.tobefnz
  BY <1>2 DEF Same, Fields, MarkLists
<1>4. Live(t) = Live(s) /\ InUse(t) = InUse(s)
  BY <1>3 DEF Live, InUse
<1>5. \A x \in Objects : Refs(t, x) = Refs(s, x)
  BY <1>3 DEF Refs, Stack, OpenUpvals, UpvalValue
<1>6. Shape(t)
  BY <1>1, <1>3, <1>4 DEF Shape, ShapeOf
<1>7. Lists(t) /\ Closed(t)
  BY <1>1, <1>3, <1>4, <1>5 DEF Lists, Closed
<1> QED BY <1>2, <1>4, <1>5, <1>6, <1>7 DEF Base, t

\* restartcollection: from the pause, the roots are marked and the cycle begins.
LEMMA StartCycleIs ==
  ASSUME NEW s, Cycle(s), KindOK, s.gcstate = "pause"
  PROVE  CycleTo(s, StartCycle(s), "propagate")
<1> DEFINE e == Emptied(s)
           m == Mark(e, {MainThread})
           b == Mark(m, In(m.tobefnz))
           t == Phase(b, "propagate", b.sweepgc)
<1>1. Base(s) /\ Fresh(s, InUse(s)) /\ s.sweepgc = Nowhere /\ NoPointers(s) /\ s \in StateType
  BY DEF Cycle, IncInv, NoPointers, Resting, Base
<1>2. /\ Base(e) /\ Same(s, e, MarkLists) /\ Live(e) = Live(s) /\ InUse(e) = InUse(s)
      /\ e.gray = {} /\ e.grayagain = {} /\ e.weak = {} /\ e.allweak = {} /\ e.ephemeron = {}
  BY <1>1, EmptiedIs
<1>3. StartCycle(s) = [b EXCEPT !.gcstate = "propagate"]
  BY DEF StartCycle, RestartCollection, MarkBeingFnz, MarkRoots, Emptied
<1> HIDE DEF e
<1>4. /\ e \in StateType /\ Shape(e) /\ Closed(e) /\ e.color = s.color /\ e.age = s.age
      /\ e.sweepgc = Nowhere /\ e.gcstate = "pause" /\ Fresh(e, InUse(e))
  BY <1>1, <1>2 DEF Base, Same, Fields, MarkLists, Fresh
<1>5. /\ NoDead(e) /\ Marked(e) = {} /\ \A o \in Objects : e.age[o] = "new" /\ ~IsGray(e, o)
  BY <1>4 DEF Fresh, NoDead, Marked, InUse, Shape, ShapeOf, IsGray
<1>6. Trace(e, {}, FALSE)
  <2>1. ASSUME NEW o \in Objects PROVE TraceOf(e, {}, FALSE, o)
    <3>1. e.open[o] # NULL => e.open[o] \in Live(e)
      BY <1>4, <1>5, AllLive DEF Shape, ShapeOf
    <3>2. e.open[o] # NULL => e.open[o] \in e.twups
      BY <1>4, <3>1 DEF Closed
    <3> QED BY <1>5, <3>2 DEF TraceOf
  <2> QED BY <1>2, <2>1 DEF Trace, Pending
<1>7. {MainThread} \in SUBSET OrNull(Objects)
  BY Null DEF OrNull
<1>8. /\ Marks(e, m) /\ Shape(m) /\ Trace(m, {}, FALSE) /\ Same(e, m, {"color", "gray"})
      /\ ~IsWhite(m, MainThread)
  BY <1>4, <1>6, <1>7, MarkTrace, Null
<1> HIDE DEF m
<1>9. m.twups = e.twups /\ m \in StateType
  BY <1>8 DEF Same, Fields, Marks
<1>10. Base(m) /\ NoDead(m) /\ InUse(m) = InUse(e)
  BY <1>2, <1>5, <1>8, <1>9, MarksBase
<1>11. In(m.tobefnz) \in SUBSET OrNull(Objects)
  BY <1>9, InType DEF StateType, OrNull, Proper
<1>12. /\ Marks(m, b) /\ Shape(b) /\ Trace(b, {}, FALSE) /\ Same(m, b, {"color", "gray"})
  BY <1>8, <1>9, <1>11, MarkTrace
<1> HIDE DEF b
<1>13. b.twups = m.twups /\ b \in StateType
  BY <1>12 DEF Same, Fields, Marks
<1>14. Base(b) /\ NoDead(b) /\ InUse(b) = InUse(m)
  BY <1>10, <1>12, <1>13, MarksBase
<1>15. /\ b.gckind = s.gckind /\ b.infin = s.infin /\ b.emergency = s.emergency /\ NoPointers(b)
       /\ b.sweepgc = Nowhere /\ b.age = e.age /\ b.gcstate = "pause"
       /\ b.weak = {} /\ b.allweak = {} /\ b.ephemeron = {}
  BY <1>1, <1>2, <1>4, <1>8, <1>12 DEF Same, Fields, MarkLists, NoPointers
<1>16. b.sweepgc \in [list : ObjectLists \cup {"none"}, after : OrNull(Objects)] /\ "propagate" \in Phases
  BY <1>13 DEF StateType, Phases
<1>17. /\ Base(t) /\ Same(b, t, {"gcstate", "sweepgc"}) /\ Live(t) = Live(b)
       /\ InUse(t) = InUse(b) /\ t.gcstate = "propagate" /\ t.sweepgc = b.sweepgc
  BY <1>14, <1>16, PhaseBase
<1>18. t = StartCycle(s)
  BY <1>3, <1>13 DEF Phase, StateType
<1> HIDE DEF t
<1>19. Same(b, t, Unseen \cup {"gcstate"}) /\ t \in StateType
  BY <1>17 DEF Same, Unseen, Base
<1>20. Trace(t, {}, FALSE) /\ t.color = b.color /\ t.age = b.age
       /\ t.weak = {} /\ t.allweak = {} /\ t.ephemeron = {}
  BY <1>12, <1>13, <1>15, <1>17, <1>19, GcstateTrace
<1>21. NoDead(t) /\ MainThread \in Marked(t)
  <2>1. IsWhite(b, MainThread) => IsWhite(m, MainThread)
    BY <1>12, MarksWhite, Null
  <2>2. MainThread \in InUse(t)
    BY <1>17, AllLive, <1>14, <1>13 DEF Base, Closed
  <2>3. ~IsWhite(t, MainThread)
    BY <2>1, <1>8, <1>20 DEF IsWhite
  <2>4. NoDead(t)
    BY <1>14, <1>20 DEF NoDead
  <2> QED BY <2>2, <2>3, <2>4, <1>19, MarkedWhite, Null
<1>22. /\ t.gckind = s.gckind /\ t.infin = s.infin /\ t.emergency = s.emergency /\ NoPointers(t)
       /\ t.sweepgc = Nowhere
  BY <1>15, <1>17 DEF Same, Fields, NoPointers
<1>23. Ready(t, {}) /\ \A o \in Objects : t.age[o] = "new"
  BY <1>5, <1>15, <1>20, <1>21, <1>22 DEF Ready
<1> QED BY <1>17, <1>18, <1>22, <1>23 DEF CycleTo, Cycle, IncInv, NoPointers, Resting, SweepStates

\* propagatemark keeps the invariant of the incremental mode.
LEMMA PropagateIs ==
  ASSUME NEW s, Cycle(s), KindOK, s.gcstate = "propagate", NEW o \in s.gray
  PROVE  CycleTo(s, PropagateMark(s, o), "propagate")
<1> DEFINE t == PropagateMark(s, o)
<1>1. /\ Base(s) /\ Ready(s, {}) /\ NoPointers(s) /\ s \in StateType /\ Shape(s)
      /\ \A x \in Objects : s.age[x] = "new"
  BY DEF Cycle, IncInv, NoPointers, Marking, Base
<1>2. Trace(s, {}, FALSE) /\ NoDead(s) /\ MainThread \in Marked(s) /\ o \in Objects
  BY <1>1 DEF Ready, StateType
<1>3. Traversed(s, t, {}, FALSE)
  BY <1>1, <1>2, PropagateMarkTrace
<1>4. kind[o] \notin {"string", "upval", "bareudata"}
  BY <1>2 DEF Trace
<1>5. Propagates(s, t)
  BY <1>1, <1>2, <1>4, PropagateMarkSame
<1> HIDE DEF t
<1>6. /\ t.weak = s.weak /\ t.allweak = s.allweak /\ t.ephemeron = s.ephemeron
      /\ t.twups = s.twups /\ t.sweepgc = s.sweepgc /\ t.gcstate = "propagate"
      /\ t.gckind = s.gckind /\ t.infin = s.infin /\ t.emergency = s.emergency
      /\ t.finobjsur = s.finobjsur /\ t.finobjold1 = s.finobjold1 /\ t.finobjrold = s.finobjrold
  BY <1>5 DEF Propagates, Same, Fields
<1>7. Marks(s, t) /\ Shape(t) /\ Trace(t, {}, FALSE)
  BY <1>3 DEF Traversed
<1>8. Base(t) /\ NoDead(t)
  BY <1>1, <1>2, <1>6, <1>7, MarksBase
<1>9. \A x \in Objects : t.age[x] = "new"
  <2>1. \A x \in Objects : t.age[x] = s.age[x] \/ s.age[x] = "touched2"
    BY <1>7 DEF Marks
  <2> QED BY <1>1, <2>1
<1>10. MainThread \in Marked(t)
  BY <1>2, <1>7, MarksWhite, Null
<1>11. Ready(t, {})
  BY <1>1, <1>6, <1>7, <1>8, <1>10 DEF Ready
<1> QED BY <1>1, <1>6, <1>8, <1>9, <1>11 DEF t, CycleTo, Cycle, IncInv, NoPointers, Resting, SweepStates

(* The other steps of an incremental cycle.  *)
LEMMA NextPhaseIs ==
  ASSUME NEW s, Cycle(s), KindOK, NEW q \in Phases,
         \/ s.gcstate = "propagate" /\ q = "enteratomic"
         \/ s.gcstate = "swpend" /\ q = "callfin"
         \/ s.gcstate = "callfin" /\ q = "pause"
  PROVE  CycleTo(s, [s EXCEPT !.gcstate = q], q)
<1> DEFINE t == Phase(s, q, s.sweepgc)
<1>1. Base(s) /\ s \in StateType /\ NoPointers(s)
  BY DEF Cycle, IncInv, NoPointers, Base
<1>2. s.sweepgc \in [list : ObjectLists \cup {"none"}, after : OrNull(Objects)]
  BY <1>1 DEF StateType
<1>3. /\ Base(t) /\ Same(s, t, {"gcstate", "sweepgc"}) /\ InUse(t) = InUse(s)
      /\ t.gcstate = q /\ t.sweepgc = s.sweepgc
  BY <1>1, <1>2, PhaseBase
<1>4. t = [s EXCEPT !.gcstate = q]
  BY <1>1 DEF Phase, StateType
<1> HIDE DEF t
<1>5. Same(s, t, Unseen \cup {"gcstate"}) /\ t \in StateType
  BY <1>3 DEF Same, Unseen, Base
<1>6. /\ t.gckind = s.gckind /\ t.infin = s.infin /\ t.emergency = s.emergency /\ NoPointers(t)
      /\ t.color = s.color /\ t.age = s.age
      /\ t.weak = s.weak /\ t.allweak = s.allweak /\ t.ephemeron = s.ephemeron
  BY <1>1, <1>3 DEF Same, Fields, NoPointers
<1>7. CASE s.gcstate = "propagate"
  <2>1. Ready(s, {}) /\ \A o \in Objects : s.age[o] = "new"
    BY <1>7 DEF Cycle, IncInv, Marking
  <2>2. Trace(t, {}, FALSE)
    BY <1>1, <1>3, <1>5, <1>7, <2>1, GcstateTrace DEF Base, Ready
  <2>3. Ready(t, {})
    BY <1>3, <1>6, <2>1, <2>2 DEF Ready, NoDead, Marked
  <2> QED BY <1>3, <1>4, <1>6, <1>7, <2>1, <2>3 DEF CycleTo, Cycle, IncInv, NoPointers, Resting, SweepStates
<1>8. CASE s.gcstate # "propagate"
  <2>1. s.gcstate \in Resting /\ q \in Resting
    BY <1>8 DEF Resting
  <2>2. Fresh(t, InUse(t)) /\ t.sweepgc = Nowhere
    BY <1>3, <1>6, <2>1 DEF Cycle, IncInv, Fresh
  <2> QED BY <1>3, <1>4, <1>6, <2>1, <2>2 DEF CycleTo, Cycle, IncInv, NoPointers, Resting, Marking, SweepStates
<1> QED BY <1>7, <1>8

\* After the atomic step exactly the marked objects live; what is white is dead.
LEMMA AtomizedBase ==
  ASSUME NEW s, Base(s), NoDead(s), NEW t, Atomized(s, t), KindOK
  PROVE  /\ Base(t) /\ Live(t) = Marked(t)
         /\ \A o \in Objects : o \in InUse(t) /\ o \notin Live(t) => t.color[o] = "dead"
<1>1. /\ t \in StateType /\ Shape(t) /\ Lists(t) /\ Trace(t, {}, TRUE) /\ t.gray = {}
      /\ Same(s, t, Changes \cup {"gcstate", "finobj", "tobefnz", "finobjsur"})
      /\ MainThread \in Marked(t) /\ In(t.tobefnz) \subseteq Marked(t)
      /\ \A o \in Objects : /\ t.color[o] # "white" /\ (o \in Marked(t) => Full(t, o))
  BY DEF Atomized
<1>2. Live(t) = Marked(t)
  BY <1>1 DEF Live, Marked
<1>3. \A o \in Objects : o \in InUse(t) /\ o \notin Live(t) => t.color[o] = "dead"
  BY <1>1 DEF Live, InUse, StateType, Colors
<1>4. t.twups \subseteq Marked(t)
  BY <1>1 DEF Trace
<1>5. ASSUME NEW o \in Objects, o \in Marked(t) PROVE Refs(t, o) \subseteq Marked(t)
  <2>1. Full(t, o) /\ Refs(t, o) \subseteq Objects
    BY <1>1, <1>5, RefsType
  <2>2. Refs(t, o) \subseteq Refs(s, o) /\ o \in InUse(s)
    BY <1>5, MarkedWhite, <1>1 DEF Atomized
  <2>3. Refs(s, o) \subseteq Live(s)
    BY <2>2, AllLive DEF Base, Closed
  <2>4. \A x \in Refs(t, o) : x \in Objects /\ x \in InUse(t) /\ ~IsWhite(t, x)
    BY <2>1, <2>2, <2>3, AllLive DEF Full, Base, Atomized
  <2> QED BY <1>1, <2>4, MarkedWhite
<1>6. ASSUME NEW o \in Objects, t.open[o] \in Marked(t) PROVE t.open[o] \in t.twups
  <2>1. TraceOf(t, {}, TRUE, o) /\ t.open[o] # NULL
    BY <1>1, <1>6, Null DEF Trace, Marked
  <2> QED BY <1>1, <1>6, <2>1, MarkedWhite DEF TraceOf, Marked
<1> QED BY <1>1, <1>2, <1>3, <1>4, <1>5, <1>6 DEF Base, Closed

\* atomic: the step that ends the marking keeps the invariant.
LEMMA AtomicCycle ==
  ASSUME NEW s, Cycle(s), KindOK, s.gcstate = "enteratomic"
  PROVE  CycleTo(s, Atomic(s), "atomic")
<1> DEFINE t == Atomic(s)
<1>1. /\ Base(s) /\ Ready(s, {}) /\ NoPointers(s) /\ s \in StateType /\ Shape(s) /\ Lists(s)
      /\ Trace(s, {}, FALSE) /\ NoDead(s) /\ s.sweepgc = Nowhere /\ MainThread \in Marked(s)
  BY DEF Cycle, IncInv, NoPointers, Marking, Base, Ready
<1>2. MainThread \in InUse(s)
  BY <1>1, MarkedWhite, Null
<1>3. s.finobj \in Seq(Objects) /\ IsInjective(s.finobj)
  BY <1>1 DEF StateType, Proper, Lists
<1>4. NULL \in Pointers(s.finobj) /\ From(s.finobj, NULL) = << >>
  BY <1>3, BeforeFrom DEF Pointers
<1>5. Divided(s.finobj, s.finobjsur, s.finobjold1, s.finobjrold)
  BY <1>1, <1>4 DEF Divided, NoPointers, Pointers
<1>6. Atomized(s, t)
  BY <1>1, <1>2, <1>5, AtomicIs
<1> HIDE DEF t
<1>7. Base(t) /\ t \in StateType
  BY <1>1, <1>6, AtomizedBase DEF Base
<1>8. /\ Same(s, t, Changes \cup {"gcstate", "finobj", "tobefnz", "finobjsur"}) /\ t.gcstate = "atomic"
      /\ Divided(t.finobj, t.finobjsur, t.finobjold1, t.finobjrold)
      /\ In(From(t.finobj, t.finobjsur)) \subseteq In(From(s.finobj, s.finobjsur))
      /\ t.finobjsur = NULL <=> From(t.finobj, t.finobjsur) = << >>
      /\ \A o \in Objects : t.color[o] # "white"
  BY <1>6 DEF Atomized
<1>9. /\ t.gckind = s.gckind /\ t.infin = s.infin /\ t.emergency = s.emergency
      /\ t.sweepgc = Nowhere /\ t.finobjold1 = NULL /\ t.finobjrold = NULL /\ t.gckind # "genminor"
  BY <1>1, <1>8 DEF Same, Fields, Changes, MarkLists, NoPointers
<1>10. t.finobj \in Seq(Objects) /\ IsInjective(t.finobj) /\ t.finobjsur \in Pointers(t.finobj)
  BY <1>7, <1>8 DEF StateType, Proper, Base, Lists, Divided
<1>11. From(t.finobj, t.finobjsur) \in Seq(Objects)
  BY <1>10, BeforeFrom
<1>12. In(From(t.finobj, t.finobjsur)) = {}
  BY <1>1, <1>4, <1>8 DEF NoPointers, In
<1>13. From(t.finobj, t.finobjsur) = << >>
  BY <1>11, <1>12, FirstIs, Null DEF Pointers, First
<1>14. NoPointers(t)
  BY <1>8, <1>9, <1>13 DEF NoPointers
<1> QED BY <1>7, <1>8, <1>9, <1>14 DEF t, CycleTo, Cycle, IncInv, NoPointers, Resting, Marking, SweepStates

\* From the atomic step the sweep is entered with the invariant.
LEMMA LeaveAtomicIs ==
  ASSUME NEW s, Cycle(s), KindOK
  PROVE  CycleTo(s, EnterSweep(s), "swpallgc")
  BY EnterSweepIs DEF Cycle, IncInv, NoPointers, CycleTo

\* Putting a new object in front of a list.
LEMMA PushOnce ==
  ASSUME NEW L \in Seq(Objects), IsInjective(L), NEW o \in Objects, o \notin In(L)
  PROVE  LET t == <<o>> \o L
         IN  /\ t \in Seq(Objects) /\ IsInjective(t) /\ In(t) = {o} \cup In(L)
<1>1. <<o>> \in Seq(Objects) /\ In(<<o>>) = {o} /\ IsInjective(<<o>>)
  BY DEF In, IsInjective
<1>4. In(<<o>>) \cap In(L) = {}
  BY <1>1
<1>5. In(<<o>> \o L) = In(<<o>>) \cup In(L)
  <2> DEFINE a == <<o>>
  <2>1. a \in Seq(Objects)
    BY <1>1
  <2> HIDE DEF a
  <2>2. In(a \o L) = In(a) \cup In(L)
    BY <2>1, InConcat
  <2> QED BY <2>2 DEF a
<1>6. IsInjective(<<o>> \o L)
  BY <1>1, <1>4, OnceConcat
<1>2. IsInjective(<<o>> \o L) /\ In(<<o>> \o L) = In(<<o>>) \cup In(L)
  BY <1>5, <1>6
<1>3. <<o>> \o L \in Seq(Objects)
  BY <1>1
<1> QED BY <1>1, <1>2, <1>3

\* Taking the first object off a list.
LEMMA PopOnce ==
  ASSUME NEW L \in Seq(Objects), IsInjective(L), L # << >>
  PROVE  /\ L[1] \in In(L) /\ L[1] \in Objects /\ Tail(L) \in Seq(Objects)
         /\ IsInjective(Tail(L)) /\ In(Tail(L)) = In(L) \ {L[1]}
<1> DEFINE o == L[1]
           T == Tail(L)
<1>1. o \in Objects /\ T \in Seq(Objects) /\ L = <<o>> \o T
  OBVIOUS
<1>2. <<o>> \in Seq(Objects) /\ In(<<o>>) = {o} /\ IsInjective(<<o>>)
  BY <1>1 DEF In, IsInjective
<1> HIDE DEF T, o
<1>4. In(<<o>> \o T) = In(<<o>>) \cup In(T)
  <2> DEFINE a == <<o>>
  <2>1. a \in Seq(Objects)
    BY <1>2
  <2> HIDE DEF a
  <2>2. In(a \o T) = In(a) \cup In(T)
    BY <1>1, <2>1, InConcat
  <2> QED BY <2>2 DEF a
<1>5. IsInjective(<<o>> \o T)
  BY <1>1
<1>6. IsInjective(T) /\ In(<<o>>) \cap In(T) = {}
  BY <1>1, <1>2, <1>5, OnceConcat
<1>3. IsInjective(T) /\ In(L) = {o} \cup In(T) /\ {o} \cap In(T) = {}
  BY <1>1, <1>2, <1>4, <1>6
<1> QED BY <1>1, <1>3 DEF o, T

(* What GCTM leaves outside of a sweep: the object is back in allgc, and on the stack.  *)
Finalizing(s, t, o) ==
  /\ t \in StateType /\ Same(s, t, {"tobefnz", "allgc", "stack", "infin", "firstold1"})
  /\ o \in Proper /\ o \in In(s.tobefnz) /\ o \notin In(s.allgc)
  /\ t.tobefnz = Tail(s.tobefnz) /\ t.allgc = <<o>> \o s.allgc
  /\ t.stack = s.stack \cup {o} /\ t.infin = TRUE
  /\ t.firstold1 = IF s.age[o] = "old1" THEN o ELSE s.firstold1
  /\ In(t.tobefnz) = In(s.tobefnz) \ {o} /\ In(t.allgc) = In(s.allgc) \cup {o}

\* GCTM moves the first object of tobefnz back to allgc, onto the stack of its finalizer.
LEMMA GCTMIs ==
  ASSUME NEW s, Base(s), s.tobefnz # << >>, ~IsSweepPhase(s), NEW o, o = s.tobefnz[1]
  PROVE  Finalizing(s, GCTM(s), o)
<1>1. s \in StateType /\ Lists(s)
  BY DEF Base
<1>2. s.tobefnz \in Seq(Proper) /\ s.allgc \in Seq(Objects) /\ s.tobefnz \in Seq(Objects)
  BY <1>1 DEF StateType, Proper
<1>3. /\ o \in In(s.tobefnz) /\ Tail(s.tobefnz) \in Seq(Proper) /\ o \in Proper
      /\ In(Tail(s.tobefnz)) = In(s.tobefnz) \ {o}
  BY <1>1, <1>2, PopOnce DEF Lists
<1>4. o \notin In(s.allgc) /\ o \in Objects
  BY <1>1, <1>3 DEF Lists, Proper
<1>5. <<o>> \o s.allgc \in Seq(Objects) /\ In(<<o>> \o s.allgc) = In(s.allgc) \cup {o}
  BY <1>1, <1>2, <1>4, PushOnce DEF Lists
<1> DEFINE T == Tail(s.tobefnz)
           A == <<o>> \o s.allgc
           f == IF s.age[o] = "old1" THEN o ELSE s.firstold1
           u == [s EXCEPT !.tobefnz = T, !.allgc = A, !.firstold1 = f]
           t == [u EXCEPT !.stack = @ \cup {o}, !.infin = TRUE]
<1>6. Udata2Finalize(s) = u
  BY <1>1 DEF Udata2Finalize, StateType
<1>7. GCTM(s) = t
  BY <1>6 DEF GCTM
<1>8. T \in Seq(Proper) /\ A \in Seq(Objects) /\ f \in OrNull(Objects)
  BY <1>1, <1>3, <1>4, <1>5 DEF StateType, OrNull
<1> HIDE DEF T, A, f
<1>9. u \in StateType /\ Same(s, u, {"tobefnz", "allgc", "firstold1"})
      /\ u.tobefnz = T /\ u.allgc = A /\ u.firstold1 = f
  BY <1>1, <1>8 DEF StateType, Same, Fields
<1> HIDE DEF u
<1>10. t \in StateType /\ Same(u, t, {"stack", "infin"}) /\ t.stack = u.stack \cup {o} /\ t.infin = TRUE
  BY <1>3, <1>9 DEF StateType, Same, Fields
<1> HIDE DEF t
<1>11. /\ Same(s, t, {"tobefnz", "allgc", "stack", "infin", "firstold1"})
       /\ t.stack = s.stack \cup {o} /\ t.tobefnz = T /\ t.allgc = A /\ t.firstold1 = f
  BY <1>9, <1>10 DEF Same, Fields
<1> QED BY <1>3, <1>4, <1>5, <1>7, <1>10, <1>11 DEF Finalizing, T, A, f

\* Calling a finalizer keeps the structure of the heap, its colors and its ages.
LEMMA FinalizingBase ==
  ASSUME NEW s, Base(s), NEW o, NEW t, Finalizing(s, t, o), KindOK
  PROVE  /\ Base(t) /\ Live(t) = Live(s) /\ InUse(t) = InUse(s) /\ o \in Live(s)
         /\ \A x \in Objects : x # MainThread => Refs(t, x) = Refs(s, x)
         /\ t.color = s.color /\ t.age = s.age /\ t.val = s.val /\ t.key = s.key
         /\ t.open = s.open /\ t.twups = s.twups /\ t.finobj = s.finobj
         /\ t.finobjsur = s.finobjsur /\ t.finobjold1 = s.finobjold1
         /\ t.finobjrold = s.finobjrold /\ t.survival = s.survival /\ t.old1 = s.old1
         /\ t.reallyold = s.reallyold /\ t.gcstate = s.gcstate /\ t.gckind = s.gckind
         /\ t.sweepgc = s.sweepgc /\ t.emergency = s.emergency
         /\ t.gray = s.gray /\ t.grayagain = s.grayagain /\ t.weak = s.weak
         /\ t.allweak = s.allweak /\ t.ephemeron = s.ephemeron
<1>1. s \in StateType /\ Lists(s) /\ Shape(s) /\ Closed(s)
  BY DEF Base
<1>2. /\ t.color = s.color /\ t.age = s.age /\ t.val = s.val /\ t.key = s.key
      /\ t.open = s.open /\ t.twups = s.twups /\ t.finobj = s.finobj
      /\ t.finobjsur = s.finobjsur /\ t.finobjold1 = s.finobjold1
      /\ t.finobjrold = s.finobjrold /\ t.survival = s.survival /\ t.old1 = s.old1
      /\ t.reallyold = s.reallyold /\ t.gcstate = s.gcstate /\ t.gckind = s.gckind
      /\ t.sweepgc = s.sweepgc /\ t.emergency = s.emergency
      /\ t.gray = s.gray /\ t.grayagain = s.grayagain /\ t.weak = s.weak
      /\ t.allweak = s.allweak /\ t.ephemeron = s.ephemeron
  BY DEF Finalizing, Same, Fields
<1>3. Live(t) = Live(s) /\ InUse(t) = InUse(s) /\ o \in Live(s)
  BY <1>1, <1>2 DEF Live, InUse, Finalizing, Closed
<1>4. \A x \in Objects : x # MainThread => Refs(t, x) = Refs(s, x)
  BY <1>2 DEF Refs, Stack, OpenUpvals, UpvalValue
<1>5. Refs(t, MainThread) \subseteq Refs(s, MainThread) \cup {o}
  BY <1>2, RefsThread, Null DEF KindOK, Stack, OpenUpvals, Finalizing
<1>6. Shape(t)
  BY <1>1, <1>2, <1>3 DEF Shape, ShapeOf
<1>7. s.allgc \in Seq(Objects) /\ s.tobefnz \in Seq(Objects) /\ IsInjective(s.allgc) /\ IsInjective(s.tobefnz)
  BY <1>1 DEF StateType, Proper, Lists
<1>8. s.tobefnz # << >> /\ o \notin In(s.allgc) /\ o \in Objects
  BY DEF Finalizing, In, Proper
<1>9. IsInjective(t.tobefnz)
  BY <1>7, <1>8, PopOnce DEF Finalizing
<1>10. IsInjective(t.allgc)
  BY <1>7, <1>8, PushOnce DEF Finalizing
<1>11. Lists(t)
  BY <1>1, <1>2, <1>3, <1>9, <1>10 DEF Lists, Finalizing
<1>12. Closed(t)
  BY <1>1, <1>2, <1>3, <1>4, <1>5, Null DEF Closed, Finalizing
<1> QED BY <1>2, <1>3, <1>4, <1>6, <1>11, <1>12 DEF Base, Finalizing

\* GCTM keeps the invariant of the incremental mode.
LEMMA FinalizerIs ==
  ASSUME NEW s, Cycle(s), KindOK, s.gcstate = "callfin", s.tobefnz # << >>
  PROVE  LET t == GCTM(s)
         IN  /\ Cycle(t) /\ t.gckind = s.gckind /\ t.emergency = s.emergency
             /\ t.gcstate = "callfin" /\ t.infin = TRUE
<1> DEFINE t == GCTM(s)
           o == s.tobefnz[1]
<1>1. Base(s) /\ NoPointers(s) /\ ~IsSweepPhase(s) /\ Fresh(s, InUse(s)) /\ s.sweepgc = Nowhere
  BY DEF Cycle, IncInv, NoPointers, Resting, IsSweepPhase
<1>2. Finalizing(s, t, o)
  BY <1>1, GCTMIs
<1> HIDE DEF t, o
<1>3. /\ Base(t) /\ InUse(t) = InUse(s) /\ t.color = s.color /\ t.age = s.age
      /\ t.gckind = s.gckind /\ t.emergency = s.emergency /\ t.gcstate = "callfin"
      /\ t.sweepgc = Nowhere /\ t.finobjsur = s.finobjsur /\ t.finobjold1 = s.finobjold1
      /\ t.finobjrold = s.finobjrold
  BY <1>1, <1>2, FinalizingBase
<1>4. Fresh(t, InUse(t))
  BY <1>1, <1>3 DEF Fresh
<1> QED BY <1>1, <1>2, <1>3, <1>4 DEF t, Finalizing, Cycle, IncInv, NoPointers, Resting, Marking, SweepStates

\* singlestep with the fast flag keeps the invariant, and leaves the atomic phase at once.
LEMMA FastStepIs ==
  ASSUME NEW s, Cycle(s), KindOK
  PROVE  LET t == FastStep(s)
         IN  /\ Cycle(t) /\ t.gckind = s.gckind /\ t.emergency = s.emergency
             /\ t.gcstate = "atomic" => s.gcstate = "enteratomic" /\ t.infin = s.infin
             /\ t.infin = s.infin \/ s.gcstate = "callfin"
<1>1. s.gcstate \in Phases
  BY DEF Cycle, Base, StateType
<1>2. CASE s.gcstate = "pause"
  BY <1>2, StartCycleIs DEF FastStep, CycleTo
<1>3. CASE s.gcstate = "propagate"
  BY <1>3, NextPhaseIs DEF FastStep, CycleTo, Phases
<1>4. CASE s.gcstate = "enteratomic"
  BY <1>4, AtomicCycle DEF FastStep, CycleTo
<1>5. CASE s.gcstate = "atomic"
  BY <1>5, LeaveAtomicIs DEF FastStep, CycleTo
<1>6. CASE s.gcstate = "swpallgc"
  <2>1. FastStep(s) = SweepStep(s, "swpfinobj", "finobj", TRUE)
    BY <1>6 DEF FastStep
  <2> DEFINE t == SweepStep(s, "swpfinobj", "finobj", TRUE)
  <2>2. TRUE \in BOOLEAN
    OBVIOUS
  <2>3. /\ Cycle(t) /\ t.gckind = s.gckind /\ t.infin = s.infin /\ t.gcstate # "atomic"
        /\ t.emergency = s.emergency
    BY <1>6, <2>2, SweepStepIs
  <2> HIDE DEF t
  <2>4. FastStep(s) = t
    BY <2>1 DEF t
  <2> QED BY <2>3, <2>4
<1>7. CASE s.gcstate = "swpfinobj"
  <2>1. FastStep(s) = SweepStep(s, "swptobefnz", "tobefnz", TRUE)
    BY <1>7 DEF FastStep
  <2> DEFINE t == SweepStep(s, "swptobefnz", "tobefnz", TRUE)
  <2>2. TRUE \in BOOLEAN
    OBVIOUS
  <2>3. /\ Cycle(t) /\ t.gckind = s.gckind /\ t.infin = s.infin /\ t.gcstate # "atomic"
        /\ t.emergency = s.emergency
    BY <1>7, <2>2, SweepStepIs
  <2> HIDE DEF t
  <2>4. FastStep(s) = t
    BY <2>1 DEF t
  <2> QED BY <2>3, <2>4
<1>8. CASE s.gcstate = "swptobefnz"
  <2>1. FastStep(s) = SweepStep(s, "swpend", "none", TRUE)
    BY <1>8 DEF FastStep
  <2> DEFINE t == SweepStep(s, "swpend", "none", TRUE)
  <2>2. TRUE \in BOOLEAN
    OBVIOUS
  <2>3. /\ Cycle(t) /\ t.gckind = s.gckind /\ t.infin = s.infin /\ t.gcstate # "atomic"
        /\ t.emergency = s.emergency
    BY <1>8, <2>2, SweepStepIs
  <2> HIDE DEF t
  <2>4. FastStep(s) = t
    BY <2>1 DEF t
  <2> QED BY <2>3, <2>4
<1>9. CASE s.gcstate = "swpend"
  BY <1>9, NextPhaseIs DEF FastStep, CycleTo, Phases
<1>10. CASE s.gcstate = "callfin"
  <2>1. CASE CallFinalizers(s)
    <3>1. s.tobefnz # << >> /\ FastStep(s) = GCTM(s)
      BY <1>10, <2>1 DEF FastStep, CallFinalizers
    <3> QED BY <1>10, <3>1, FinalizerIs
  <2>2. CASE ~CallFinalizers(s)
    BY <1>10, <2>2, NextPhaseIs DEF FastStep, CycleTo, Phases
  <2> QED BY <2>1, <2>2
<1> QED BY <1>1, <1>2, <1>3, <1>4, <1>5, <1>6, <1>7, <1>8, <1>9, <1>10 DEF Phases

(****************************************************************************)
(* The generational mode, and the writes of the program                     *)
(****************************************************************************)

(* The lists of generational mode are divided by age, and the pointers to them say where  *)
(* every "old1" object is.                                                                *)
LateAges == {"old1", "old", "touched1", "touched2"}

AgedFrom(s, list, sur, old) ==
  /\ \A o \in In(From(list, sur)) : s.age[o] # "new"
  /\ \A o \in In(From(list, old)) : s.age[o] \in LateAges

GenLists(s) ==
  /\ Divided(s.allgc, s.survival, s.old1, s.reallyold)
  /\ Divided(s.finobj, s.finobjsur, s.finobjold1, s.finobjrold)
  /\ AgedFrom(s, s.allgc, s.survival, s.old1) /\ AgedFrom(s, s.finobj, s.finobjsur, s.finobjold1)
  /\ s.firstold1 \in Pointers(s.allgc)
  /\ \A o \in In(s.allgc) : s.age[o] = "old1" =>
       o \in In(From(s.allgc, s.firstold1)) /\ o \notin In(From(s.allgc, s.reallyold))
  /\ \A o \in In(s.finobj) : s.age[o] = "old1" => o \notin In(From(s.finobj, s.finobjrold))
(* What is old is marked; an old object refers to no younger one that a collection could  *)
(* free before it visits the old one.                                                     *)
AgesOf(s, o) ==
  /\ IsOld(s, o) <=> o \in Marked(s)
  /\ s.open[o] # NULL =>
       /\ IsOld(s, o) => IsOld(s, s.open[o])
       /\ s.age[o] # "new" => s.age[s.open[o]] # "new"
  /\ kind[o] # "thread" /\ s.open[o] = NULL =>
       /\ s.age[o] = "old" => \A x \in Refs(s, o) : IsOld(s, x)
       /\ s.age[o] \in {"old1", "touched2"} => \A x \in Refs(s, o) : s.age[x] # "new"
       /\ IsGray(s, o) => s.age[o] \in {"old0", "touched1"}

GenAges(s) == \A o \in Objects : AgesOf(s, o)

BlackOld1(s) == { o \in Objects : IsBlack(s, o) /\ s.age[o] = "old1" }

GenInv(s) ==
  s.gckind = "genminor" /\ s.gcstate = "propagate" /\ Ready(s, BlackOld1(s)) /\ GenLists(s) /\ GenAges(s)
(* The invariant of the state of the collector.  *)
Inv(s) == Base(s) /\ (IncInv(s) \/ GenInv(s))

(* The program writes the references of o, of the stack for the main thread.  *)
Write(s, t, o) ==
  /\ t \in StateType /\ Same(s, t, {"val", "key", "stack"}) /\ o \in Objects
  /\ \A x \in Objects : x # o => t.val[x] = s.val[x] /\ t.key[x] = s.key[x]
  /\ o # MainThread => t.stack = s.stack
  /\ Shape(t) /\ Refs(t, o) \subseteq Live(s)

\* What a write into one object leaves alone.
LEMMA WriteSame ==
  ASSUME NEW s, NEW t, NEW o, Write(s, t, o), KindOK, Base(s)
  PROVE  /\ t.color = s.color /\ t.age = s.age /\ t.open = s.open /\ t.twups = s.twups
         /\ t.allgc = s.allgc /\ t.finobj = s.finobj /\ t.tobefnz = s.tobefnz
         /\ t.gray = s.gray /\ t.grayagain = s.grayagain /\ t.weak = s.weak
         /\ t.allweak = s.allweak /\ t.ephemeron = s.ephemeron
         /\ t.survival = s.survival /\ t.old1 = s.old1 /\ t.reallyold = s.reallyold
         /\ t.firstold1 = s.firstold1 /\ t.finobjsur = s.finobjsur
         /\ t.finobjold1 = s.finobjold1 /\ t.finobjrold = s.finobjrold
         /\ t.gcstate = s.gcstate /\ t.gckind = s.gckind /\ t.sweepgc = s.sweepgc
         /\ t.emergency = s.emergency /\ t.infin = s.infin
         /\ Live(t) = Live(s) /\ InUse(t) = InUse(s) /\ Marked(t) = Marked(s)
         /\ \A x \in Objects : x # o /\ s.open[x] # o => Refs(t, x) = Refs(s, x)
<1>1. /\ t.color = s.color /\ t.age = s.age /\ t.open = s.open /\ t.twups = s.twups
      /\ t.allgc = s.allgc /\ t.finobj = s.finobj /\ t.tobefnz = s.tobefnz
      /\ t.gray = s.gray /\ t.grayagain = s.grayagain /\ t.weak = s.weak
      /\ t.allweak = s.allweak /\ t.ephemeron = s.ephemeron
      /\ t.survival = s.survival /\ t.old1 = s.old1 /\ t.reallyold = s.reallyold
      /\ t.firstold1 = s.firstold1 /\ t.finobjsur = s.finobjsur
      /\ t.finobjold1 = s.finobjold1 /\ t.finobjrold = s.finobjrold
      /\ t.gcstate = s.gcstate /\ t.gckind = s.gckind /\ t.sweepgc = s.sweepgc
      /\ t.emergency = s.emergency /\ t.infin = s.infin
  BY DEF Write, Same, Fields
<1>2. Live(t) = Live(s) /\ InUse(t) = InUse(s) /\ Marked(t) = Marked(s)
  BY <1>1 DEF Live, InUse, Marked
<1>3. ASSUME NEW x \in Objects, x # o, s.open[x] # o PROVE Refs(t, x) = Refs(s, x)
  <2>1. t.val[x] = s.val[x] /\ t.key[x] = s.key[x]
    BY <1>3 DEF Write
  <2>2. x = MainThread => t.stack = s.stack
    BY <1>3 DEF Write
  <2>3. UpvalValue(t, x) = UpvalValue(s, x)
    <3>1. s.open[x] \in OrNull(Objects)
      BY DEF Base, StateType, OrNull, Proper
    <3> QED BY <1>1, <1>3, <2>1, <3>1 DEF UpvalValue, Write, OrNull
  <2> QED BY <1>1, <2>1, <2>2, <2>3 DEF Refs, Stack, OpenUpvals
<1> QED BY <1>1, <1>2, <1>3

\* A write of live references into one object keeps the structure of the heap.
LEMMA WriteBase ==
  ASSUME NEW s, Base(s), KindOK, NEW t, NEW o, Write(s, t, o)
  PROVE  Base(t)
<1>1. s \in StateType /\ Lists(s) /\ Shape(s) /\ Closed(s) /\ t \in StateType /\ o \in Objects
  BY DEF Base, Write, Live
<1>2. ASSUME NEW x \in Objects, x \in Live(s) PROVE Refs(t, x) \subseteq Live(s)
  <2>1. CASE x = o
    BY <2>1 DEF Write
  <2>2. CASE x # o /\ s.open[x] # o
    BY <1>1, <1>2, <2>2, WriteSame DEF Closed
  <2>3. CASE s.open[x] = o
    <3>1. t.open[x] = o /\ o # NULL /\ kind[o] = "thread" /\ kind[x] = "upval"
      BY <1>1, <2>3, WriteSame, Null DEF Shape, ShapeOf
    <3>2. Refs(t, x) = {t.val[o]} \ {NULL}
      BY <3>1, RefsUpval DEF UpvalValue
    <3>3. o # MainThread
      BY <1>1, <3>1 DEF StateType, OrNull, Proper
    <3>4. Refs(t, o) = ({t.val[o]} \ {NULL}) \cup OpenUpvals(t, o)
      BY <1>1, <3>1, <3>3, RefsThread DEF Stack
    <3> QED BY <3>2, <3>4 DEF Write
  <2> QED BY <2>1, <2>2, <2>3
<1>3. Closed(t)
  BY <1>1, <1>2, WriteSame DEF Closed
<1>4. Lists(t)
  BY <1>1, WriteSame DEF Lists
<1> QED BY <1>1, <1>3, <1>4 DEF Base, Write

(* Nothing white is written to a black object that no traversal will look at again.  *)
Guarded(s, t, o) ==
  kind[o] = "thread" \/ (IsBlack(s, o) => \A x \in Refs(t, o) \ Refs(s, o) : ~IsWhite(s, x))

\* A write that the barrier guards keeps the trace.
LEMMA WriteReady ==
  ASSUME NEW s, Base(s), KindOK, NEW t, NEW o, Write(s, t, o), Guarded(s, t, o),
         NEW X, Ready(s, X), s.gcstate # "atomic"
  PROVE  Ready(t, X)
<1>1. s \in StateType /\ Shape(s) /\ o \in Objects /\ Trace(s, X, FALSE) /\ t \in StateType
  BY DEF Base, Write, Live, Ready
<1>2. Pending(t) = Pending(s) /\ Later(t) = Later(s) /\ \A x \in Objects : IsWhite(t, x) <=> IsWhite(s, x)
  BY <1>1, WriteSame DEF Pending, Later, IsWhite
<1>3. ASSUME NEW x \in Objects PROVE TraceOf(t, X, FALSE, x)
  <2>1. TraceOf(s, X, FALSE, x)
    BY <1>1 DEF Trace
  <2>2. /\ IsGray(t, x) <=> IsGray(s, x)
        /\ IsBlack(t, x) <=> IsBlack(s, x)
        /\ IsOld(t, x) <=> IsOld(s, x)
        /\ x \in Marked(t) <=> x \in Marked(s)
        /\ t.age[x] = s.age[x] /\ t.open[x] = s.open[x] /\ t.twups = s.twups
        /\ t.gray = s.gray /\ t.grayagain = s.grayagain /\ t.gcstate = s.gcstate
    BY <1>1, WriteSame DEF IsGray, IsBlack, IsOld
  <2>3. x \in Marked(s) /\ x \notin s.gray \cup X \cup Later(s) => Visited(t, x, FALSE)
    <3> SUFFICES ASSUME x \in Marked(s), x \notin s.gray \cup X \cup Later(s) PROVE Visited(t, x, FALSE)
      OBVIOUS
    <3>1. CASE s.open[x] # NULL
      BY <2>2, <3>1 DEF Visited
    <3>2. CASE s.open[x] = NULL
      <4>1. s.weak = {} /\ s.allweak = {} /\ s.ephemeron = {}
        BY DEF Ready
      <4>2. Full(s, x)
        BY <2>1, <3>2, <4>1 DEF TraceOf, Visited
      <4>3. Refs(s, x) \subseteq Objects
        BY <1>1, RefsType
      <4>4. CASE x # o
        <5>1. Refs(t, x) = Refs(s, x)
          BY <1>1, <3>2, <4>4, WriteSame, Null
        <5> QED BY <1>2, <4>2, <4>3, <5>1 DEF Visited, Full
      <4>5. CASE x = o
        <5>1. kind[o] # "thread"
          BY <2>1, <4>5 DEF TraceOf, Later
        <5>2. IsBlack(s, o)
          <6>1. ~IsGray(s, x)
            BY <2>1, <3>2, <4>1 DEF TraceOf, Pending, Later
          <6> QED BY <4>5, <6>1 DEF Marked, IsGray, IsBlack
        <5>3. \A y \in Refs(t, o) : ~IsWhite(s, y)
          BY <4>2, <4>5, <5>1, <5>2 DEF Full, Guarded
        <5>4. Refs(t, o) \subseteq Objects
          BY <1>1, RefsType
        <5> QED BY <1>2, <4>5, <5>3, <5>4 DEF Visited, Full
      <4> QED BY <4>4, <4>5
    <3> QED BY <3>1, <3>2
  <2> QED BY <1>2, <2>1, <2>2, <2>3 DEF TraceOf
<1>4. Trace(t, X, FALSE)
  BY ZenonT(40), <1>1, <1>2, <1>3, WriteSame DEF Trace
<1>5. /\ t.color = s.color /\ Marked(t) = Marked(s) /\ t.sweepgc = s.sweepgc
      /\ t.weak = s.weak /\ t.allweak = s.allweak /\ t.ephemeron = s.ephemeron
  BY WriteSame
<1> QED BY <1>4, <1>5 DEF Ready, NoDead

(* The program runs in no atomic phase.  *)
Runs(s) == Inv(s) /\ s.gcstate # "atomic"

\* A sweep depends on the colors, the ages, the lists, the phase and the cursor only.
LEMMA SweepingSame ==
  ASSUME NEW s, NEW t, t.color = s.color, t.age = s.age, t.allgc = s.allgc, t.finobj = s.finobj,
         t.tobefnz = s.tobefnz, t.gcstate = s.gcstate, t.sweepgc = s.sweepgc, Sweeping(s)
  PROVE  Sweeping(t)
<1>1. Cur(t) = Cur(s) /\ Passed(t) = Passed(s)
  BY DEF Cur, Passed
<1>2. t[Cur(t)] = s[Cur(s)]
  BY <1>1 DEF Cur
<1>3. \A S : Fresh(s, S) => Fresh(t, S)
  BY DEF Fresh
<1>4. Cursor(s) => Cursor(t)
  BY <1>1, <1>2, <1>3 DEF Cursor
<1> QED BY <1>1, <1>2, <1>3, <1>4 DEF Sweeping

\* What the invariant of the incremental mode depends on.
LEMMA IncInvSame ==
  ASSUME NEW s, NEW t, IncInv(s), t.color = s.color, t.age = s.age, t.allgc = s.allgc,
         t.finobj = s.finobj, t.tobefnz = s.tobefnz, t.gcstate = s.gcstate,
         t.sweepgc = s.sweepgc, t.gckind = s.gckind, t.finobjsur = s.finobjsur,
         t.finobjold1 = s.finobjold1, t.finobjrold = s.finobjrold, InUse(t) = InUse(s),
         Ready(s, {}) => Ready(t, {})
  PROVE  IncInv(t)
<1>1. Sweeping(s) => Sweeping(t)
  BY SweepingSame
<1>2. \A S : Fresh(s, S) => Fresh(t, S)
  BY DEF Fresh
<1> QED BY <1>1, <1>2 DEF IncInv

\* What the division of the lists by age depends on.
LEMMA GenListsSame ==
  ASSUME NEW s, NEW t, GenLists(s), t.age = s.age, t.allgc = s.allgc,
         t.finobj = s.finobj, t.survival = s.survival, t.old1 = s.old1,
         t.reallyold = s.reallyold, t.firstold1 = s.firstold1, t.finobjsur = s.finobjsur,
         t.finobjold1 = s.finobjold1, t.finobjrold = s.finobjrold
  PROVE  GenLists(t)
  BY DEF GenLists, AgedFrom

\* A guarded write keeps the invariant, in either mode.
LEMMA WriteInv ==
  ASSUME NEW s, Runs(s), KindOK, NEW t, NEW o, Write(s, t, o), Guarded(s, t, o)
  PROVE  Runs(t)
<1>1. Base(s) /\ s.gcstate # "atomic" /\ Base(t)
  BY WriteBase DEF Runs, Inv
<1>2. /\ t.color = s.color /\ t.age = s.age /\ t.open = s.open
      /\ t.allgc = s.allgc /\ t.finobj = s.finobj /\ t.tobefnz = s.tobefnz
      /\ t.survival = s.survival /\ t.old1 = s.old1 /\ t.reallyold = s.reallyold
      /\ t.firstold1 = s.firstold1 /\ t.finobjsur = s.finobjsur
      /\ t.finobjold1 = s.finobjold1 /\ t.finobjrold = s.finobjrold
      /\ t.gcstate = s.gcstate /\ t.gckind = s.gckind /\ t.sweepgc = s.sweepgc
      /\ InUse(t) = InUse(s) /\ Marked(t) = Marked(s)
  BY <1>1, WriteSame
<1>3. \A X : Ready(s, X) => Ready(t, X)
  BY <1>1, WriteReady
<1>4. IncInv(s) => IncInv(t)
  BY <1>2, <1>3, IncInvSame
<1>5. ASSUME GenInv(s) PROVE GenInv(t)
  <2>1. BlackOld1(t) = BlackOld1(s)
    BY <1>2 DEF BlackOld1, IsBlack
  <2>2. GenLists(t)
    BY <1>2, <1>5, GenListsSame DEF GenInv
  <2>3. ASSUME NEW x \in Objects PROVE AgesOf(t, x)
    <3>1. AgesOf(s, x)
      BY <1>5 DEF GenInv, GenAges
    <3>2. \A y : (IsOld(t, y) <=> IsOld(s, y)) /\ (IsGray(t, y) <=> IsGray(s, y))
      BY <1>2 DEF IsOld, IsGray
    <3>3. ASSUME kind[x] # "thread", s.open[x] = NULL
          PROVE  /\ t.age[x] = "old" => \A y \in Refs(t, x) : IsOld(t, y)
                 /\ t.age[x] \in {"old1", "touched2"} => \A y \in Refs(t, x) : t.age[y] # "new"
      <4>1. CASE x # o
        <5>1. Refs(t, x) = Refs(s, x)
          BY <1>1, <3>3, <4>1, WriteSame, Null DEF Write, Live
        <5> QED BY <1>2, <3>1, <3>2, <3>3, <5>1 DEF AgesOf
      <4>2. CASE x = o
        <5>1. CASE IsBlack(s, x)
          <6>1. ASSUME NEW y \in Refs(t, x) PROVE y \in Refs(s, x) \/ (IsOld(s, y) /\ s.age[y] # "new")
            <7>1. y \in Live(s) /\ (y \notin Refs(s, x) => ~IsWhite(s, y))
              BY <3>3, <4>2, <5>1 DEF Write, Guarded
            <7>2. y \in Objects /\ (y \notin Refs(s, x) => y \in Marked(s))
              BY <7>1 DEF Live, Marked, IsWhite
            <7>3. y \notin Refs(s, x) => IsOld(s, y)
              BY <1>5, <7>2 DEF GenInv, GenAges, AgesOf
            <7> QED BY <7>3 DEF IsOld
          <6> QED BY <1>2, <3>1, <3>2, <3>3, <6>1 DEF AgesOf
        <5>2. CASE IsGray(s, x)
          BY <1>2, <3>1, <3>3, <5>2 DEF AgesOf
        <5>3. CASE ~IsBlack(s, x) /\ ~IsGray(s, x)
          <6>1. ~IsOld(s, x)
            BY <3>1, <5>3 DEF AgesOf, Marked, IsBlack, IsGray
          <6> QED BY <1>2, <6>1 DEF IsOld
        <5> QED BY <5>1, <5>2, <5>3
      <4> QED BY <4>1, <4>2
    <3> QED BY <1>2, <3>1, <3>2, <3>3 DEF AgesOf
  <2> QED BY <1>2, <1>3, <1>5, <2>1, <2>2, <2>3 DEF GenInv, GenAges
<1> QED BY <1>1, <1>2, <1>4, <1>5 DEF Runs, Inv

(* An object becomes gray, to be visited again.  *)
Regrayed(s, t, o) ==
  /\ t \in StateType /\ Same(s, t, {"color", "age", "grayagain"}) /\ o \in Objects
  /\ IsBlack(s, o) /\ kind[o] \in Tables
  /\ t.color = [s.color EXCEPT ![o] = "gray"] /\ \A x \in Objects : x # o => t.age[x] = s.age[x]
  /\ s.grayagain \subseteq t.grayagain /\ t.grayagain \subseteq s.grayagain \cup {o}

\* Making a black table gray again keeps the structure of the heap and every reference.
LEMMA RegrayedBase ==
  ASSUME NEW s, Base(s), KindOK, NEW t, NEW o, Regrayed(s, t, o)
  PROVE  /\ Base(t) /\ Live(t) = Live(s) /\ InUse(t) = InUse(s) /\ Marked(t) = Marked(s)
         /\ \A x \in Objects : Refs(t, x) = Refs(s, x) /\ (IsWhite(t, x) <=> IsWhite(s, x))
         /\ o \in Live(s) /\ s.open[o] = NULL /\ ~IsWhite(s, o)
         /\ t.open = s.open /\ t.twups = s.twups
         /\ t.allgc = s.allgc /\ t.finobj = s.finobj /\ t.tobefnz = s.tobefnz
         /\ t.gray = s.gray /\ t.weak = s.weak
         /\ t.allweak = s.allweak /\ t.ephemeron = s.ephemeron
         /\ t.survival = s.survival /\ t.old1 = s.old1 /\ t.reallyold = s.reallyold
         /\ t.firstold1 = s.firstold1 /\ t.finobjsur = s.finobjsur
         /\ t.finobjold1 = s.finobjold1 /\ t.finobjrold = s.finobjrold
         /\ t.gcstate = s.gcstate /\ t.gckind = s.gckind /\ t.sweepgc = s.sweepgc
<1>1. s \in StateType /\ Lists(s) /\ Shape(s) /\ Closed(s) /\ t \in StateType
  BY DEF Base, Regrayed
<1>2. /\ t.open = s.open /\ t.twups = s.twups /\ t.val = s.val /\ t.key = s.key /\ t.stack = s.stack
      /\ t.allgc = s.allgc /\ t.finobj = s.finobj /\ t.tobefnz = s.tobefnz
      /\ t.gray = s.gray /\ t.weak = s.weak
      /\ t.allweak = s.allweak /\ t.ephemeron = s.ephemeron
      /\ t.survival = s.survival /\ t.old1 = s.old1 /\ t.reallyold = s.reallyold
      /\ t.firstold1 = s.firstold1 /\ t.finobjsur = s.finobjsur
      /\ t.finobjold1 = s.finobjold1 /\ t.finobjrold = s.finobjrold
      /\ t.gcstate = s.gcstate /\ t.gckind = s.gckind /\ t.sweepgc = s.sweepgc
  BY DEF Regrayed, Same, Fields
<1>3. \A x \in Objects : t.color[x] = IF x = o THEN "gray" ELSE s.color[x]
  BY <1>1 DEF Regrayed, StateType
<1>4. s.color[o] = "black" /\ o \in Objects
  BY DEF Regrayed, IsBlack
<1>5. Live(t) = Live(s) /\ InUse(t) = InUse(s) /\ Marked(t) = Marked(s)
  BY <1>3, <1>4 DEF Live, InUse, Marked
<1>6. \A x \in Objects : Refs(t, x) = Refs(s, x)
  BY <1>2 DEF Refs, Stack, OpenUpvals, UpvalValue
<1>7. \A x \in Objects : IsWhite(t, x) <=> IsWhite(s, x)
  BY <1>3, <1>4 DEF IsWhite
<1>8. o \in Live(s) /\ s.open[o] = NULL /\ ~IsWhite(s, o)
  BY <1>1, <1>4 DEF Live, IsWhite, Shape, ShapeOf
<1>9. ASSUME NEW x \in Objects PROVE ShapeOf(t, x)
  <2>1. ShapeOf(s, x) /\ (t.color[x] = "black" => s.color[x] = "black")
    BY <1>1, <1>3 DEF Shape
  <2>2. x \notin InUse(s) => t.age[x] = s.age[x]
    BY <1>4 DEF InUse, Regrayed
  <2> QED BY <1>2, <1>5, <2>1, <2>2 DEF ShapeOf
<1>10. Shape(t)
  BY <1>1, <1>2, <1>9 DEF Shape
<1>11. Lists(t) /\ Closed(t)
  BY <1>1, <1>2, <1>5, <1>6 DEF Lists, Closed
<1> QED BY <1>1, <1>2, <1>5, <1>6, <1>7, <1>8, <1>10, <1>11 DEF Base

\* A table that is gray again and listed as gray keeps the trace, and need not be black.
LEMMA RegrayedReady ==
  ASSUME NEW s, Base(s), KindOK, NEW t, NEW o, Regrayed(s, t, o), NEW X, Ready(s, X),
         s.gcstate # "atomic", o \in s.gray \cup t.grayagain
  PROVE  Ready(t, X \ {o})
<1>1. s \in StateType /\ Shape(s) /\ o \in Objects /\ Trace(s, X, FALSE) /\ t \in StateType
      /\ kind[o] \in Tables /\ IsBlack(s, o)
  BY DEF Base, Regrayed, Ready
<1>2. /\ s.grayagain \subseteq t.grayagain /\ t.grayagain \subseteq s.grayagain \cup {o}
      /\ Marked(t) = Marked(s) /\ t.gray = s.gray /\ t.weak = s.weak
      /\ t.allweak = s.allweak /\ t.ephemeron = s.ephemeron /\ t.twups = s.twups
      /\ t.gcstate = s.gcstate /\ t.open = s.open /\ s.open[o] = NULL /\ t.sweepgc = s.sweepgc
      /\ \A x \in Objects : Refs(t, x) = Refs(s, x) /\ (IsWhite(t, x) <=> IsWhite(s, x))
  BY <1>1, RegrayedBase DEF Regrayed
<1>3. s.weak = {} /\ s.allweak = {} /\ s.ephemeron = {} /\ o \in Marked(s)
  BY <1>1 DEF Ready, IsBlack, Marked
<1>4. ASSUME NEW x \in Objects PROVE TraceOf(t, X \ {o}, FALSE, x)
  <2>1. CASE x = o
    <3>1. o \in t.gray \cup Later(t)
      BY <1>2 DEF Later
    <3> QED BY <1>1, <1>2, <1>3, <2>1, <3>1 DEF TraceOf, Tables, Later, Pending
  <2>2. CASE x # o
    <3>1. TraceOf(s, X, FALSE, x)
      BY <1>1 DEF Trace
    <3>2. t.color[x] = s.color[x] /\ t.age[x] = s.age[x]
      BY <1>1, <2>2 DEF Regrayed, StateType
    <3>3. Visited(s, x, FALSE) => Visited(t, x, FALSE)
      <4>1. Refs(s, x) \subseteq Objects
        BY <1>1, RefsType
      <4>2. Full(s, x) => Full(t, x)
        BY <1>2, <4>1 DEF Full
      <4> QED BY <1>2, <1>3, <4>2 DEF Visited
    <3>4. Later(s) \subseteq Later(t) /\ Pending(s) \subseteq Pending(t)
      BY <1>2 DEF Later, Pending
    <3> QED BY <1>2, <2>2, <3>1, <3>2, <3>3, <3>4 DEF TraceOf, IsGray, IsOld, IsBlack
  <2> QED BY <2>1, <2>2
<1>5. Trace(t, X \ {o}, FALSE)
  <2>1. (X \ {o}) \subseteq Marked(t) /\ t.gray \cup Pending(t) \subseteq { x \in Marked(t) : kind[x] \notin {"string", "upval", "bareudata"} }
    BY <1>1, <1>2, <1>3 DEF Trace, Pending, Tables
  <2> QED BY <1>1, <1>2, <1>3, <1>4, <2>1 DEF Trace
<1>6. NoDead(t)
  BY <1>1 DEF Ready, NoDead, Regrayed, StateType
<1> QED BY <1>2, <1>3, <1>5, <1>6 DEF Ready

\* A table may be gray during the sweep.
LEMMA RegrayedSweeping ==
  ASSUME NEW s, Base(s), KindOK, NEW t, NEW o, Regrayed(s, t, o), Sweeping(s)
  PROVE  Sweeping(t)
<1>1. /\ t.allgc = s.allgc /\ t.finobj = s.finobj /\ t.tobefnz = s.tobefnz
      /\ t.gcstate = s.gcstate /\ t.sweepgc = s.sweepgc
  BY RegrayedBase
<1>2. Cur(t) = Cur(s) /\ Passed(t) = Passed(s)
  BY <1>1 DEF Cur, Passed
<1>3. t[Cur(t)] = s[Cur(s)]
  BY <1>1, <1>2 DEF Cur
<1>4. \A x \in Objects : s.color[x] = "white" => t.color[x] = "white" /\ t.age[x] = s.age[x]
  BY DEF Regrayed, StateType, IsBlack, Base
<1>5. ASSUME NEW S, S \subseteq Objects, Fresh(s, S) PROVE Fresh(t, S)
  BY <1>4, <1>5 DEF Fresh
<1>6. Passed(s) \subseteq Objects /\ s[Cur(s)] \in Seq(Objects) /\ IsInjective(s[Cur(s)])
  <2>1. Passed(s) \subseteq InUse(s) /\ InUse(s) \subseteq Objects
    BY DEF Passed, Base, Lists, InUse
  <2> QED BY <2>1, CurIs
<1>7. In(s[Cur(s)]) \subseteq Objects
  BY <1>6, InType
<1>8. s.sweepgc.after \in Pointers(s[Cur(s)]) => In(Prefix(s[Cur(s)], s.sweepgc.after)) \subseteq Objects
  BY <1>6, RestIs, InType
<1>9. Cursor(s) => Cursor(t)
  BY <1>1, <1>2, <1>3, <1>5, <1>8 DEF Cursor
<1> QED BY <1>1, <1>2, <1>3, <1>5, <1>6, <1>7, <1>9 DEF Sweeping

\* luaC_barrierback_ in the incremental mode keeps the invariant.
LEMMA RegrayedInc ==
  ASSUME NEW s, Runs(s), KindOK, IncInv(s), NEW t, NEW o, Regrayed(s, t, o), t.age = s.age,
         o \in t.grayagain
  PROVE  Runs(t)
<1>1. Base(s) /\ s.gcstate # "atomic"
  BY DEF Runs, Inv
<1>2. /\ Base(t) /\ InUse(t) = InUse(s) /\ t.gcstate = s.gcstate /\ t.gckind = s.gckind
      /\ t.finobjsur = s.finobjsur /\ t.finobjold1 = s.finobjold1 /\ t.finobjrold = s.finobjrold
  BY <1>1, RegrayedBase
<1>3. s.gcstate \notin Resting
  <2>1. o \in InUse(s) /\ s.color[o] # "white"
    BY DEF Regrayed, IsBlack, InUse
  <2> QED BY <2>1 DEF IncInv, Fresh
<1>4. Sweeping(s) => Sweeping(t)
  BY <1>1, RegrayedSweeping
<1>5. Ready(s, {}) => Ready(t, {} \ {o})
  BY <1>1, RegrayedReady
<1>6. Ready(s, {}) => Ready(t, {})
  <2>1. {} \ {o} = {}
    OBVIOUS
  <2> QED BY <1>5, <2>1
<1>7. IncInv(t)
  BY <1>1, <1>2, <1>3, <1>4, <1>6 DEF IncInv
<1> QED BY <1>1, <1>2, <1>7 DEF Runs, Inv

\* The parts of a divided list are parts of it.
LEMMA FromSubset ==
  ASSUME NEW L \in Seq(Objects), IsInjective(L), NEW p, NEW q, NEW r, Divided(L, p, q, r)
  PROVE  /\ In(L) \subseteq Objects /\ In(From(L, p)) \subseteq In(L)
         /\ In(From(L, q)) \subseteq In(From(L, p)) /\ In(From(L, p)) \subseteq Objects
         /\ In(From(L, q)) \subseteq Objects /\ q \in Pointers(L)
<1>1. p \in Pointers(L) /\ q \in Pointers(From(L, p))
  BY DEF Divided
<1>2. /\ In(From(L, p)) = In(Before(From(L, p), q)) \cup In(From(L, q)) /\ q \in Pointers(L)
      /\ In(L) = In(Before(L, p)) \cup In(Before(From(L, p), q)) \cup In(From(L, q))
  BY <1>1, ThreeParts
<1>3. In(L) \subseteq Objects
  BY InType
<1> QED BY <1>2, <1>3

\* luaC_barrierback_ in the generational mode: a touched table, listed as gray, keeps the
\* invariant.
LEMMA RegrayedGen ==
  ASSUME NEW s, Runs(s), KindOK, GenInv(s), NEW t, NEW o, Regrayed(s, t, o),
         t.age[o] = "touched1", o \in s.gray \cup t.grayagain
  PROVE  Runs(t)
<1>1. Base(s) /\ s.gcstate # "atomic" /\ Ready(s, BlackOld1(s)) /\ GenLists(s) /\ GenAges(s) /\ s \in StateType
  BY DEF Runs, Inv, GenInv, Base
<1>2. /\ Base(t) /\ Live(t) = Live(s) /\ InUse(t) = InUse(s) /\ Marked(t) = Marked(s)
      /\ \A x \in Objects : Refs(t, x) = Refs(s, x)
      /\ o \in Live(s) /\ s.open[o] = NULL
      /\ t.open = s.open
      /\ t.allgc = s.allgc /\ t.finobj = s.finobj
      /\ t.survival = s.survival /\ t.old1 = s.old1 /\ t.reallyold = s.reallyold
      /\ t.firstold1 = s.firstold1 /\ t.finobjsur = s.finobjsur
      /\ t.finobjold1 = s.finobjold1 /\ t.finobjrold = s.finobjrold
      /\ t.gcstate = s.gcstate /\ t.gckind = s.gckind
  BY <1>1, RegrayedBase
<1>3. /\ \A x \in Objects : x # o => t.age[x] = s.age[x] /\ t.color[x] = s.color[x]
      /\ o \in Marked(s) /\ o \in Objects /\ kind[o] \in Tables
  BY <1>1 DEF Regrayed, StateType, IsBlack, Marked
<1>4. IsOld(s, o)
  BY <1>1, <1>3 DEF GenAges, AgesOf
<1>5. \A x \in Objects : /\ IsOld(t, x) <=> IsOld(s, x)
                         /\ s.age[x] # "new" => t.age[x] # "new"
                         /\ s.age[x] \in LateAges => t.age[x] \in LateAges
                         /\ t.age[x] = "old1" => s.age[x] = "old1"
  BY <1>3, <1>4 DEF IsOld, LateAges
<1>6. GenLists(t)
  <2>1. s.allgc \in Seq(Objects) /\ s.finobj \in Seq(Objects) /\ IsInjective(s.allgc) /\ IsInjective(s.finobj)
    BY <1>1 DEF StateType, Proper, Base, Lists
  <2>2. In(s.allgc) \subseteq Objects /\ In(s.finobj) \subseteq Objects
    BY <2>1, InType
  <2>3. /\ In(From(s.allgc, s.survival)) \subseteq Objects /\ In(From(s.allgc, s.old1)) \subseteq Objects
        /\ In(From(s.finobj, s.finobjsur)) \subseteq Objects /\ In(From(s.finobj, s.finobjold1)) \subseteq Objects
    BY <1>1, <2>1, FromSubset DEF GenLists
  <2>4. /\ AgedFrom(t, t.allgc, t.survival, t.old1) /\ AgedFrom(t, t.finobj, t.finobjsur, t.finobjold1)
    BY <1>1, <1>2, <1>5, <2>3 DEF GenLists, AgedFrom
  <2> QED BY <1>1, <1>2, <1>5, <2>2, <2>4 DEF GenLists
<1>7. ASSUME NEW x \in Objects PROVE AgesOf(t, x)
  <2>1. AgesOf(s, x) /\ Refs(s, x) \subseteq Objects
    BY <1>1, RefsType DEF GenAges
  <2>2. s.open[x] # NULL => s.open[x] \in Objects
    BY <1>1 DEF StateType, OrNull, Proper
  <2>3. CASE x # o
    BY <1>2, <1>3, <1>5, <2>1, <2>2, <2>3 DEF AgesOf, IsGray
  <2>4. CASE x = o
    BY <1>2, <1>3, <1>4, <1>5, <2>4 DEF AgesOf
  <2> QED BY <2>3, <2>4
<1>8. BlackOld1(t) = BlackOld1(s) \ {o}
  <2>1. t.age[o] # "old1" /\ \A x \in Objects : x # o => (x \in BlackOld1(t) <=> x \in BlackOld1(s))
    BY <1>3 DEF BlackOld1, IsBlack
  <2> QED BY <2>1 DEF BlackOld1
<1>9. Ready(t, BlackOld1(t))
  BY <1>1, <1>8, RegrayedReady
<1> QED BY <1>1, <1>2, <1>6, <1>7, <1>9, GenInv(s) DEF Runs, Inv, GenInv, GenAges

(* What a barrier leaves for the store after it.  *)
Ordered(s, t, o, v) ==
  /\ Runs(t) /\ Same(s, t, {"color", "gray", "grayagain", "age"}) /\ Live(t) = Live(s)
  /\ v # NULL /\ IsBlack(t, o) => ~IsWhite(t, v)

\* luaC_barrierback: the table that will get the value v is not black any more if v is white.
LEMMA BarrierBackInv ==
  ASSUME NEW s, Runs(s), KindOK, NEW o \in Objects, NEW v, kind[o] \in Tables
  PROVE  Ordered(s, BarrierBack(s, o, v), o, v)
<1> DEFINE t == BarrierBack(s, o, v)
           r == IF s.age[o] = "touched2" THEN Paint(s, o, "gray") ELSE Link(s, o, "grayagain")
           u == SetAge(r, o, "touched1")
<1>1. Base(s) /\ s \in StateType
  BY DEF Runs, Inv, Base
<1>2. CASE ~(v # NULL /\ IsBlack(s, o) /\ IsWhite(s, v))
  <2>1. t = s
    BY <1>2 DEF BarrierBack
  <2> HIDE DEF t
  <2> QED BY <1>2, <2>1 DEF Ordered, Same, t
<1>3. CASE v # NULL /\ IsBlack(s, o) /\ IsWhite(s, v)
  <2>1. t = IF IsOld(s, o) THEN u ELSE r
    BY <1>3 DEF BarrierBack
  <2>2. /\ r \in StateType /\ Same(s, r, {"color", "grayagain"}) /\ r.color = [s.color EXCEPT ![o] = "gray"]
        /\ s.grayagain \subseteq r.grayagain /\ r.grayagain \subseteq s.grayagain \cup {o}
        /\ s.age[o] # "touched2" => o \in r.grayagain
    <3>1. CASE s.age[o] = "touched2"
      <4>1. r = Paint(s, o, "gray")
        BY <3>1
      <4> QED BY <1>1, <3>1, <4>1 DEF Paint, StateType, Same, Fields, Colors
    <3>2. CASE s.age[o] # "touched2"
      <4>1. r = Link(s, o, "grayagain")
        BY <3>2
      <4> HIDE DEF r
      <4>2. LET q == Link(s, o, "grayagain")
            IN  q \in StateType /\ Same(s, q, {"color", "grayagain"})
                /\ q.color = [s.color EXCEPT ![o] = "gray"] /\ q.grayagain = s.grayagain \cup {o}
        BY <1>1, LinkIs
      <4> QED BY <4>1, <4>2
    <3> QED BY <3>1, <3>2
  <2> HIDE DEF r
  <2>3. r.age = s.age
    BY <2>2 DEF Same, Fields
  <2>4. u \in StateType /\ Same(r, u, {"age"}) /\ u.age[o] = "touched1"
        /\ \A x \in Objects : x # o => u.age[x] = r.age[x]
    BY <2>2 DEF SetAge, StateType, Same, Fields, Ages
  <2> HIDE DEF u
  <2>5. u.color = r.color /\ u.grayagain = r.grayagain /\ Same(s, u, {"color", "age", "grayagain"})
    BY <2>2, <2>4 DEF Same, Fields
  <2>6. Regrayed(s, r, o)
    BY <1>3, <2>2, <2>3 DEF Regrayed, Same
  <2>7. Regrayed(s, u, o)
    BY <1>3, <2>2, <2>3, <2>4, <2>5 DEF Regrayed
  <2>8. Runs(t)
    <3>1. CASE IncInv(s)
      <4>1. s.gcstate \notin Resting
        <5>1. o \in InUse(s) /\ s.color[o] # "white"
          BY <1>3 DEF IsBlack, InUse
        <5> QED BY <3>1, <5>1 DEF IncInv, Fresh
      <4>2. CASE s.gcstate \in Marking
        <5>1. s.age[o] = "new"
          BY <3>1, <4>2 DEF IncInv
        <5>2. t = r /\ o \in r.grayagain
          BY <2>1, <2>2, <5>1 DEF IsOld
        <5> QED BY <2>3, <2>6, <3>1, <5>2, RegrayedInc
      <4>3. CASE s.gcstate \notin Marking
        <5>1. Sweeping(s) /\ s.gcstate \in SweepStates
          BY <1>1, <3>1, <4>1, <4>3 DEF IncInv, Runs, Resting, Marking, SweepStates, StateType, Phases
        <5>2. Regrayed(s, t, o)
          BY <2>1, <2>6, <2>7
        <5> HIDE DEF t
        <5>3. Base(t) /\ Sweeping(t) /\ t.gcstate = s.gcstate /\ t.gckind = s.gckind
              /\ t.finobjsur = s.finobjsur /\ t.finobjold1 = s.finobjold1 /\ t.finobjrold = s.finobjrold
          BY <1>1, <5>1, <5>2, RegrayedBase, RegrayedSweeping
        <5> QED BY <3>1, <4>1, <4>3, <5>1, <5>3 DEF Runs, Inv, IncInv
      <4> QED BY <4>2, <4>3
    <3>2. CASE GenInv(s)
      <4>1. IsOld(s, o) /\ Ready(s, BlackOld1(s))
        BY <1>3, <3>2 DEF GenInv, GenAges, AgesOf, IsBlack, Marked
      <4>2. t = u
        BY <2>1, <4>1
      <4>3. o \in s.gray \cup u.grayagain
        <5>1. CASE s.age[o] = "touched2"
          <6>1. TraceOf(s, BlackOld1(s), FALSE, o) /\ s.weak = {} /\ s.allweak = {} /\ s.ephemeron = {}
            BY <4>1 DEF Ready, Trace
          <6>2. o \notin BlackOld1(s)
            BY <5>1 DEF BlackOld1
          <6>3. o \in s.gray \cup s.grayagain
            BY <5>1, <6>1, <6>2 DEF TraceOf, Pending
          <6> QED BY <2>2, <2>5, <6>3
        <5>2. CASE s.age[o] # "touched2"
          BY <2>2, <2>5, <5>2
        <5> QED BY <5>1, <5>2
      <4> QED BY <2>4, <2>7, <3>2, <4>2, <4>3, RegrayedGen
    <3> QED BY <3>1, <3>2 DEF Runs, Inv
  <2>9. Regrayed(s, t, o)
    BY <2>1, <2>6, <2>7
  <2> HIDE DEF t
  <2>10. Live(t) = Live(s) /\ ~IsBlack(t, o) /\ Same(s, t, {"color", "gray", "grayagain", "age"})
    <3>1. Live(t) = Live(s)
      BY <1>1, <2>9, RegrayedBase
    <3> QED BY <1>1, <2>9, <3>1 DEF Regrayed, Same, IsBlack, StateType
  <2> QED BY <2>8, <2>10 DEF Ordered, t
<1> QED BY <1>2, <1>3

\* The barrier during the sweep makes the object white, which the sweep allows.
LEMMA Repainted ==
  ASSUME NEW s, Base(s), KindOK, Sweeping(s), NEW o \in Live(s)
  PROVE  LET t == Paint(s, o, "white")
         IN  /\ Base(t) /\ Sweeping(t) /\ Live(t) = Live(s) /\ Same(s, t, {"color"})
             /\ t.color = [s.color EXCEPT ![o] = "white"]
<1> DEFINE t == Paint(s, o, "white")
<1>1. s \in StateType /\ Lists(s) /\ Shape(s) /\ Closed(s) /\ o \in Objects
  BY DEF Base, Live
<1>2. t \in StateType /\ Same(s, t, {"color"}) /\ t.color = [s.color EXCEPT ![o] = "white"]
  BY <1>1 DEF Paint, StateType, Same, Fields, Colors
<1> HIDE DEF t
<1>3. /\ t.age = s.age /\ t.val = s.val /\ t.key = s.key
      /\ t.open = s.open /\ t.stack = s.stack /\ t.twups = s.twups
      /\ t.allgc = s.allgc /\ t.finobj = s.finobj /\ t.tobefnz = s.tobefnz
      /\ t.gcstate = s.gcstate /\ t.sweepgc = s.sweepgc
  BY <1>2 DEF Same, Fields
<1>4. \A x \in Objects : t.color[x] = IF x = o THEN "white" ELSE s.color[x]
  BY <1>1, <1>2 DEF StateType
<1>5. Live(t) = Live(s) /\ InUse(t) = InUse(s)
  BY <1>1, <1>4 DEF Live, InUse
<1>6. \A x \in Objects : Refs(t, x) = Refs(s, x)
  BY <1>3 DEF Refs, Stack, OpenUpvals, UpvalValue
<1>7. Shape(t)
  BY <1>1, <1>3, <1>4, <1>5 DEF Shape, ShapeOf
<1>8. Lists(t) /\ Closed(t)
  BY <1>1, <1>3, <1>5, <1>6 DEF Lists, Closed
<1>9. Cur(t) = Cur(s) /\ Passed(t) = Passed(s)
  BY <1>3 DEF Cur, Passed
<1>10. t[Cur(t)] = s[Cur(s)]
  BY <1>3, <1>9 DEF Cur
<1>11. ASSUME NEW S, S \subseteq Objects, Fresh(s, S) PROVE Fresh(t, S)
  BY <1>3, <1>4, <1>11 DEF Fresh
<1>12. Passed(s) \subseteq Objects /\ s[Cur(s)] \in Seq(Objects) /\ IsInjective(s[Cur(s)])
  <2>1. Passed(s) \subseteq InUse(s) /\ InUse(s) \subseteq Objects
    BY <1>1 DEF Passed, Lists, InUse
  <2> QED BY <2>1, CurIs
<1>13. In(s[Cur(s)]) \subseteq Objects
  BY <1>12, InType
<1>14. s.sweepgc.after \in Pointers(s[Cur(s)]) => In(Prefix(s[Cur(s)], s.sweepgc.after)) \subseteq Objects
  BY <1>12, RestIs, InType
<1>15. Cursor(s) => Cursor(t)
  BY <1>3, <1>9, <1>10, <1>11, <1>14 DEF Cursor
<1>16. Sweeping(t)
  BY <1>3, <1>9, <1>10, <1>11, <1>12, <1>13, <1>15 DEF Sweeping
<1> QED BY <1>2, <1>5, <1>7, <1>8, <1>16 DEF Base, t

(* Marking for a barrier.  *)

\* Marking v marks nothing else.
Alone(s, v) ==
  kind[v] \in {"upval", "bareudata"} =>
    s.open[v] = NULL /\ (s.val[v] = NULL \/ ~IsWhite(s, s.val[v]))

\* The barrier while the invariant is kept marks the object, and keeps the trace.
LEMMA ReallyMarkReady ==
  ASSUME NEW s, Base(s), KindOK, NEW X, Ready(s, X), NEW v \in Live(s)
  PROVE  LET t == ReallyMark(s, {v})
         IN  /\ Base(t) /\ Ready(t, X) /\ Live(t) = Live(s) /\ InUse(t) = InUse(s)
             /\ Same(s, t, {"color", "gray"}) /\ v \in Marked(t) /\ ~IsWhite(t, v)
             /\ Marked(s) \subseteq Marked(t)
             /\ Alone(s, v) => \A x \in Objects : x # v => t.color[x] = s.color[x]
             /\ \A x \in Objects : x # v /\ ~IsWhite(s, x) => t.color[x] = s.color[x]
             /\ \A x \in Objects : Refs(t, x) = Refs(s, x)
<1> DEFINE t == ReallyMark(s, {v})
<1>1. s \in StateType /\ Shape(s) /\ Trace(s, X, FALSE) /\ NoDead(s) /\ v \in Objects
  BY DEF Base, Ready, Live
<1>2. {v} \in SUBSET InUse(s)
  BY <1>1, AllLive
<1> DEFINE S == {v}
<1>3. v \in S /\ \A u \in S : u = v
  OBVIOUS
<1> HIDE DEF S
<1>4. /\ Marks(s, ReallyMark(s, S)) /\ Shape(ReallyMark(s, S))
      /\ Marked(ReallyMark(s, S)) = Marked(s) \cup Struck(s, S)
      /\ Same(s, ReallyMark(s, S), {"color", "gray"})
      /\ \A o \in Objects : o \notin Struck(s, S) => ReallyMark(s, S).color[o] = s.color[o]
      /\ Trace(ReallyMark(s, S), X, FALSE)
  BY <1>1, <1>2, ReallyMarkMarks, ReallyMarkTrace DEF S
<1>5. t = ReallyMark(s, S)
  BY DEF S
<1> HIDE DEF t
<1>6. /\ Marks(s, t) /\ Shape(t) /\ Marked(t) = Marked(s) \cup Struck(s, S)
      /\ Same(s, t, {"color", "gray"}) /\ Trace(t, X, FALSE)
      /\ \A o \in Objects : o \notin Struck(s, S) => t.color[o] = s.color[o]
  BY <1>4, <1>5
<1>7. /\ t.val = s.val /\ t.key = s.key /\ t.open = s.open /\ t.stack = s.stack /\ t.twups = s.twups
      /\ t.weak = s.weak /\ t.allweak = s.allweak /\ t.ephemeron = s.ephemeron /\ t.sweepgc = s.sweepgc
  BY <1>6 DEF Same, Fields
<1>8. v \in Marked(t)
  <2>1. S \in SUBSET Objects
    BY <1>1, <1>3
  <2> QED BY <1>1, <1>3, <1>6, <2>1, StruckIs
<1>9. Base(t) /\ NoDead(t) /\ Live(t) = Live(s) /\ InUse(t) = InUse(s)
  BY <1>1, <1>6, <1>7, MarksBase
<1>10. \A x \in Objects : Refs(t, x) = Refs(s, x)
  BY <1>7 DEF Refs, Stack, OpenUpvals, UpvalValue
<1>11. Alone(s, v) => \A x \in Objects : x # v => t.color[x] = s.color[x]
  <2> SUFFICES ASSUME Alone(s, v), NEW x \in Objects, x # v
               PROVE  x \notin Struck(s, S)
    BY <1>6
  <2>1. kind[v] \in {"upval", "bareudata"} => UpvalValue(s, v) = NULL \/ ~IsWhite(s, UpvalValue(s, v))
    BY DEF Alone, UpvalValue
  <2>2. HeldBy(s, S, "upval") = S
    BY <1>3, <2>1, Null DEF HeldBy
  <2>3. HeldBy(s, S, "bareudata") = S
    BY <1>3, <2>1, Null DEF HeldBy
  <2> QED BY <1>3, <2>2, <2>3 DEF Struck
<1>14. \A x \in Objects : x # v /\ ~IsWhite(s, x) => t.color[x] = s.color[x]
  <2>1. S \in SUBSET Objects
    BY <1>1, <1>3
  <2> QED BY <1>1, <1>3, <1>6, <2>1, StruckIs
<1>12. Ready(t, X)
  BY <1>6, <1>7, <1>9 DEF Ready
<1>13. ~IsWhite(t, v)
  BY <1>8 DEF Marked, IsWhite
<1> QED BY <1>6, <1>8, <1>9, <1>10, <1>11, <1>12, <1>13, <1>14 DEF t

\* The barrier in the generational mode marks the object and makes it old0: the invariant is
\* kept.
LEMMA Old0Gen ==
  ASSUME NEW s, Runs(s), KindOK, GenInv(s), NEW v \in Live(s), IsWhite(s, v), Alone(s, v)
  PROVE  LET t == SetAge(ReallyMark(s, {v}), v, "old0")
         IN  /\ Runs(t) /\ Live(t) = Live(s) /\ ~IsWhite(t, v)
             /\ Same(s, t, {"color", "gray", "age"})
<1> DEFINE r == ReallyMark(s, {v})
           t == SetAge(r, v, "old0")
           X == BlackOld1(s)
<1>1. /\ Base(s) /\ s.gcstate # "atomic" /\ Ready(s, X) /\ GenLists(s) /\ GenAges(s) /\ s \in StateType
      /\ v \in Objects /\ Shape(s)
  BY DEF Runs, Inv, GenInv, Base, Live
<1>2. v \notin Marked(s) /\ ~IsOld(s, v)
  BY <1>1 DEF Marked, IsWhite, GenAges, AgesOf
<1>3. /\ Base(r) /\ Ready(r, X) /\ Live(r) = Live(s) /\ InUse(r) = InUse(s)
      /\ Same(s, r, {"color", "gray"}) /\ v \in Marked(r) /\ ~IsWhite(r, v)
      /\ \A x \in Objects : x # v => r.color[x] = s.color[x]
      /\ \A x \in Objects : Refs(r, x) = Refs(s, x)
  BY <1>1, ReallyMarkReady
<1> HIDE DEF r
<1>4. r.age = s.age /\ r \in StateType
  BY <1>3 DEF Same, Fields, Base
<1>5. t \in StateType /\ Same(r, t, {"age"}) /\ t.age[v] = "old0"
      /\ \A x \in Objects : x # v => t.age[x] = s.age[x]
  BY <1>1, <1>4 DEF SetAge, StateType, Same, Fields, Ages
<1> HIDE DEF t
<1>6. /\ t.color = r.color /\ t.val = r.val /\ t.key = r.key /\ t.open = r.open
      /\ t.stack = r.stack /\ t.twups = r.twups
      /\ t.allgc = r.allgc /\ t.finobj = r.finobj /\ t.tobefnz = r.tobefnz
      /\ t.gray = r.gray /\ t.grayagain = r.grayagain /\ t.weak = r.weak
      /\ t.allweak = r.allweak /\ t.ephemeron = r.ephemeron
      /\ t.gcstate = r.gcstate /\ t.sweepgc = r.sweepgc
  BY <1>5 DEF Same, Fields
<1>7. /\ t.allgc = s.allgc /\ t.finobj = s.finobj
      /\ t.survival = s.survival /\ t.old1 = s.old1 /\ t.reallyold = s.reallyold
      /\ t.firstold1 = s.firstold1 /\ t.finobjsur = s.finobjsur
      /\ t.finobjold1 = s.finobjold1 /\ t.finobjrold = s.finobjrold
      /\ t.gcstate = s.gcstate /\ t.gckind = s.gckind /\ t.open = s.open
  BY <1>3, <1>5 DEF Same, Fields
<1>8. Live(t) = Live(s) /\ InUse(t) = InUse(s) /\ Marked(t) = Marked(r) /\ ~IsWhite(t, v)
  BY <1>3, <1>6 DEF Live, InUse, Marked, IsWhite
<1>9. \A x \in Objects : Refs(t, x) = Refs(r, x)
  BY <1>6 DEF Refs, Stack, OpenUpvals, UpvalValue
<1>10. Base(t)
  <2>1. Lists(r) /\ Shape(r) /\ Closed(r) /\ v \in InUse(r)
    BY <1>3 DEF Base, Marked, InUse
  <2>2. Live(t) = Live(r) /\ InUse(t) = InUse(r)
    BY <1>3, <1>8
  <2>3. \A x \in Objects : x \notin InUse(r) => t.age[x] = r.age[x]
    BY <1>4, <1>5, <2>1
  <2>4. Shape(t)
    BY <1>6, <2>1, <2>2, <2>3 DEF Shape, ShapeOf
  <2>5. Lists(t) /\ Closed(t)
    BY <1>6, <1>9, <2>1, <2>2 DEF Lists, Closed
  <2> QED BY <1>5, <2>4, <2>5 DEF Base
<1>11. Trace(t, X, FALSE)
  <2>1. ASSUME NEW x \in Objects PROVE TraceOf(t, X, FALSE, x)
    <3>1. TraceOf(r, X, FALSE, x) /\ r.gcstate # "atomic"
      BY <1>1, <1>3, <1>6, <1>7 DEF Ready, Trace
    <3>2. Visited(r, x, FALSE) => Visited(t, x, FALSE)
      BY <1>6, <1>9 DEF Visited, Full, IsWhite
    <3>3. t.age[x] \in {"touched1", "touched2"} => r.age[x] = t.age[x]
      BY <1>4, <1>5
    <3>4. Pending(t) = Pending(r) /\ Later(t) = Later(r)
      BY <1>6 DEF Pending, Later
    <3> QED BY <1>6, <1>8, <3>1, <3>2, <3>3, <3>4 DEF TraceOf, IsGray
  <2>2. Pending(t) = Pending(r)
    BY <1>6 DEF Pending
  <2> QED BY <1>3, <1>6, <1>8, <2>1, <2>2 DEF Trace, Ready
<1>12. Ready(t, X)
  BY <1>3, <1>6, <1>8, <1>11 DEF Ready, NoDead
<1>13. BlackOld1(t) = X
  <2>1. ASSUME NEW x \in Objects PROVE x \in BlackOld1(t) <=> x \in X
    <3>1. CASE x = v
      BY <1>2, <1>5, <3>1 DEF BlackOld1, IsOld
    <3>2. CASE x # v
      BY <1>3, <1>5, <1>6, <3>2 DEF BlackOld1, IsBlack
    <3> QED BY <3>1, <3>2
  <2> QED BY <2>1 DEF BlackOld1
<1>14. \A x \in Objects : /\ IsOld(s, x) => IsOld(t, x)
                          /\ s.age[x] # "new" => t.age[x] # "new"
                          /\ s.age[x] \in LateAges => t.age[x] \in LateAges
                          /\ t.age[x] = "old1" => s.age[x] = "old1"
  BY <1>2, <1>5 DEF IsOld, LateAges
<1>15. GenLists(t)
  <2>1. s.allgc \in Seq(Objects) /\ s.finobj \in Seq(Objects) /\ IsInjective(s.allgc) /\ IsInjective(s.finobj)
    BY <1>1 DEF StateType, Proper, Base, Lists
  <2>2. In(s.allgc) \subseteq Objects /\ In(s.finobj) \subseteq Objects
    BY <2>1, InType
  <2>3. /\ In(From(s.allgc, s.survival)) \subseteq Objects /\ In(From(s.allgc, s.old1)) \subseteq Objects
        /\ In(From(s.finobj, s.finobjsur)) \subseteq Objects /\ In(From(s.finobj, s.finobjold1)) \subseteq Objects
    BY <1>1, <2>1, FromSubset DEF GenLists
  <2>4. /\ AgedFrom(t, t.allgc, t.survival, t.old1) /\ AgedFrom(t, t.finobj, t.finobjsur, t.finobjold1)
    BY <1>1, <1>7, <1>14, <2>3 DEF GenLists, AgedFrom
  <2> QED BY <1>1, <1>7, <1>14, <2>2, <2>4 DEF GenLists
<1>16. ASSUME NEW x \in Objects PROVE AgesOf(t, x)
  <2>1. AgesOf(s, x) /\ Refs(s, x) \subseteq Objects /\ Refs(t, x) = Refs(s, x)
    BY <1>1, <1>3, <1>9, RefsType DEF GenAges
  <2>2. s.open[x] # NULL => s.open[x] \in Objects /\ kind[x] = "upval"
    BY <1>1 DEF StateType, OrNull, Proper, Shape, ShapeOf
  <2>3. CASE x # v
    <3>1. x \in Marked(t) <=> x \in Marked(s)
      BY <1>3, <1>6, <2>3 DEF Marked
    <3>2. (IsGray(t, x) <=> IsGray(s, x)) /\ t.age[x] = s.age[x]
      BY <1>3, <1>5, <1>6, <2>3 DEF IsGray
    <3> QED BY <1>7, <1>14, <2>1, <2>2, <3>1, <3>2 DEF AgesOf, IsOld
  <2>4. CASE x = v
    <3>0. s.open[v] # NULL => kind[v] = "upval"
      BY <2>2, <2>4
    <3>1. s.open[v] = NULL /\ v \in Marked(t)
      BY <1>3, <1>8, <3>0 DEF Alone
    <3> QED BY <1>5, <1>7, <2>4, <3>1 DEF AgesOf, IsOld
  <2> QED BY <2>3, <2>4
<1>17. Same(s, t, {"color", "gray", "age"})
  BY <1>3, <1>5 DEF Same
<1>18. t.gckind = "genminor" /\ t.gcstate = "propagate"
  BY <1>7 DEF GenInv
<1>19. GenInv(t)
  BY <1>12, <1>13, <1>15, <1>16, <1>18 DEF GenInv, GenAges
<1> QED BY <1>8, <1>10, <1>17, <1>18, <1>19 DEF t, r, Runs, Inv

\* May o get v, an upvalue or a userdata without user values, with its barrier?
Joins(s, o, v) == s.gckind = "genminor" /\ o \in Marked(s) /\ IsWhite(s, v) => Alone(s, v)

\* luaC_barrier: the object is not black, or what it gets is not white, if what an old object
\* gets in generational mode brings nothing white with it.
LEMMA BarrierInv ==
  ASSUME NEW s, Runs(s), KindOK, NEW o \in Objects, NEW v \in Live(s) \cup {NULL},
         kind[v] \in {"upval", "bareudata"} => Joins(s, o, v)
  PROVE  Ordered(s, Barrier(s, o, v), o, v)
<1> DEFINE t == Barrier(s, o, v)
           r == ReallyMark(s, {v})
<1>1. Base(s) /\ s \in StateType /\ s.gcstate # "atomic" /\ s.gcstate \in Phases
  BY DEF Runs, Inv, Base, StateType
<1>2. CASE ~(v # NULL /\ IsBlack(s, o) /\ IsWhite(s, v))
  <2>1. t = s
    BY <1>2 DEF Barrier
  <2> HIDE DEF t
  <2> QED BY <1>2, <2>1 DEF Ordered, Same, t
<1>3. CASE v # NULL /\ IsBlack(s, o) /\ IsWhite(s, v)
  <2>1. v \in Live(s) /\ v \in Objects
    BY <1>3 DEF Live
  <2>2. CASE IncInv(s)
    <3>1. s.gcstate \notin Resting /\ s.gckind # "genminor"
      <4>1. o \in InUse(s) /\ s.color[o] # "white"
        BY <1>3 DEF IsBlack, InUse
      <4> QED BY <2>2, <4>1 DEF IncInv, Fresh
    <3>2. CASE s.gcstate \in Marking
      <4>1. Ready(s, {}) /\ s.age[o] = "new" /\ KeepInvariant(s)
        BY <2>2, <3>2 DEF IncInv, Marking, KeepInvariant
      <4>2. t = r
        BY <1>3, <4>1 DEF Barrier, IsOld
      <4>3. /\ Base(r) /\ Ready(r, {}) /\ Live(r) = Live(s) /\ InUse(r) = InUse(s)
            /\ Same(s, r, {"color", "gray"}) /\ ~IsWhite(r, v)
        BY <1>1, <2>1, <4>1, ReallyMarkReady
      <4> HIDE DEF t, r
      <4>4. /\ r.age = s.age /\ r.gcstate = s.gcstate /\ r.gckind = s.gckind /\ r.sweepgc = s.sweepgc
            /\ r.finobjsur = s.finobjsur /\ r.finobjold1 = s.finobjold1 /\ r.finobjrold = s.finobjrold
        BY <4>3 DEF Same, Fields
      <4>5. s.gcstate \notin SweepStates
        BY <3>2 DEF Marking, SweepStates
      <4>6. IncInv(r)
        BY <1>1, <2>2, <3>1, <4>3, <4>4, <4>5 DEF IncInv
      <4>7. Same(s, r, {"color", "gray", "grayagain", "age"})
        BY <4>3 DEF Same
      <4> QED BY <1>1, <4>2, <4>3, <4>4, <4>6, <4>7 DEF Ordered, Runs, Inv, t
    <3>3. CASE s.gcstate \notin Marking
      <4>1. Sweeping(s) /\ s.gcstate \in SweepStates /\ ~KeepInvariant(s)
        BY <1>1, <2>2, <3>1, <3>3 DEF IncInv, Resting, Marking, SweepStates, Phases, KeepInvariant
      <4>2. t = Paint(s, o, "white")
        BY <1>3, <3>1, <4>1 DEF Barrier
      <4>3. o \in Live(s)
        BY <1>3 DEF IsBlack, Live
      <4>4. /\ Base(t) /\ Sweeping(t) /\ Live(t) = Live(s) /\ Same(s, t, {"color"})
            /\ t.color = [s.color EXCEPT ![o] = "white"]
        BY <1>1, <4>1, <4>2, <4>3, Repainted
      <4> HIDE DEF t
      <4>5. ~IsBlack(t, o)
        BY <1>1, <4>4 DEF IsBlack, StateType
      <4>6. /\ t.gcstate = s.gcstate /\ t.gckind = s.gckind
            /\ t.finobjsur = s.finobjsur /\ t.finobjold1 = s.finobjold1 /\ t.finobjrold = s.finobjrold
        BY <4>4 DEF Same, Fields
      <4>7. IncInv(t)
        BY <1>1, <2>2, <3>1, <3>3, <4>4, <4>6 DEF IncInv
      <4>8. Same(s, t, {"color", "gray", "grayagain", "age"})
        BY <4>4 DEF Same
      <4> QED BY <1>1, <4>4, <4>5, <4>6, <4>7, <4>8 DEF Ordered, Runs, Inv, t
    <3> QED BY <3>2, <3>3
  <2>3. CASE GenInv(s)
    <3>1. IsOld(s, o) /\ KeepInvariant(s)
      BY <1>3, <2>3 DEF GenInv, GenAges, AgesOf, IsBlack, Marked, KeepInvariant
    <3>2. t = SetAge(r, v, "old0")
      BY <1>3, <3>1 DEF Barrier
    <3>3. Alone(s, v)
      BY <1>3, <2>3 DEF Joins, GenInv, Alone, Marked, IsBlack
    <3>4. /\ Runs(t) /\ Live(t) = Live(s) /\ ~IsWhite(t, v)
          /\ Same(s, t, {"color", "gray", "age"})
      BY <1>3, <2>1, <2>3, <3>2, <3>3, Old0Gen
    <3> HIDE DEF t
    <3>5. Same(s, t, {"color", "gray", "grayagain", "age"})
      BY <3>4 DEF Same
    <3> QED BY <3>4, <3>5 DEF Ordered, t
  <2> QED BY <2>2, <2>3 DEF Runs, Inv
<1> QED BY <1>2, <1>3

WithVal(s, V) == [s EXCEPT !.val = V]

WithKey(s, K) == [s EXCEPT !.key = K]

\* The states that differ in values, and in keys.
LEMMA WithIs ==
  ASSUME NEW s \in StateType, NEW V \in [Objects -> OrNull(Proper)]
  PROVE  /\ WithVal(s, V) \in StateType /\ Same(s, WithVal(s, V), {"val"}) /\ WithVal(s, V).val = V
         /\ WithKey(s, V) \in StateType /\ Same(s, WithKey(s, V), {"key"}) /\ WithKey(s, V).key = V
BY DEF WithVal, WithKey, StateType, Same, Fields

\* Painting an object and changing values, in either order.
LEMMA WithPaint ==
  ASSUME NEW s \in StateType, NEW V, NEW o, NEW c
  PROVE  /\ WithVal(Paint(s, o, c), V) = Paint(WithVal(s, V), o, c)
         /\ WithKey(Paint(s, o, c), V) = Paint(WithKey(s, V), o, c)
BY DEF WithVal, WithKey, StateType, Paint

\* Aging an object and changing values, in either order.
LEMMA WithSetAge ==
  ASSUME NEW s \in StateType, NEW V, NEW o, NEW a
  PROVE  /\ WithVal(SetAge(s, o, a), V) = SetAge(WithVal(s, V), o, a)
         /\ WithKey(SetAge(s, o, a), V) = SetAge(WithKey(s, V), o, a)
BY DEF WithVal, WithKey, StateType, SetAge

\* Linking an object as gray and changing values, in either order.
LEMMA WithLink ==
  ASSUME NEW s \in StateType, NEW V, NEW o
  PROVE  /\ WithVal(Link(s, o, "grayagain"), V) = Link(WithVal(s, V), o, "grayagain")
         /\ WithKey(Link(s, o, "grayagain"), V) = Link(WithKey(s, V), o, "grayagain")
BY DEF WithVal, WithKey, StateType, Paint, Link

\* Marking does not look at values, but for those of upvalues and the metatables of userdata
\* without user values.
LEMMA ReallyMarkVal ==
  ASSUME NEW s \in StateType, NEW V \in [Objects -> OrNull(Proper)], NEW S,
         AlikeIn(WithVal(s, V), s, WithHeld(s, S, "upval"))
  PROVE  ReallyMark(WithVal(s, V), S) = WithVal(ReallyMark(s, S), V)
<1> DEFINE a == WithVal(s, V)
           C == Painted(s, S)
           G == Greyed(s, S)
<1>1. a.color = s.color /\ a.gray = s.gray /\ a.open = s.open
  BY DEF StateType, WithVal
<1> HIDE DEF a
<1>2. AlikeIn(a, s, WithHeld(s, S, "upval"))
  BY DEF a
<1>4. Painted(a, S) = C /\ Greyed(a, S) = G
  BY <1>1, <1>2, ReallyMarkAlike
<1>5. ReallyMark(a, S) = [a EXCEPT !.color = Painted(a, S), !.gray = Greyed(a, S)]
      /\ ReallyMark(s, S) = [s EXCEPT !.color = C, !.gray = G]
  BY ReallyMarkFields
<1>6. ReallyMark(a, S) = [a EXCEPT !.color = C, !.gray = G]
      /\ ReallyMark(s, S) = [s EXCEPT !.color = C, !.gray = G]
  BY <1>4, <1>5
<1> HIDE DEF C, G
<1> QED BY <1>6 DEF a, StateType, WithVal

\* A barrier after the store is the barrier before it, followed by the store.
LEMMA BarrierVal ==
  ASSUME NEW s \in StateType, NEW V \in [Objects -> OrNull(Proper)], NEW o, NEW v \in OrNull(Objects),
         AlikeIn(WithVal(s, V), s, WithHeld(s, {v}, "upval"))
  PROVE  Barrier(WithVal(s, V), o, v) = WithVal(Barrier(s, o, v), V)
<1> DEFINE a == WithVal(s, V)
           r == ReallyMark(s, {v})
           ra == ReallyMark(a, {v})
<1>1. a.color = s.color /\ a.age = s.age /\ a.gcstate = s.gcstate /\ a.gckind = s.gckind
  BY DEF StateType, WithVal
<1>2. /\ IsBlack(a, o) <=> IsBlack(s, o)
      /\ IsWhite(a, v) <=> IsWhite(s, v)
      /\ KeepInvariant(a) <=> KeepInvariant(s)
      /\ IsOld(a, o) <=> IsOld(s, o)
  BY <1>1 DEF IsBlack, IsWhite, KeepInvariant, IsOld
<1>3. ra = WithVal(r, V)
  BY ReallyMarkVal
<1>4. v # NULL => SetAge(ra, v, "old0") = WithVal(SetAge(r, v, "old0"), V)
  <2> SUFFICES ASSUME v # NULL PROVE SetAge(ra, v, "old0") = WithVal(SetAge(r, v, "old0"), V)
    OBVIOUS
  <2>1. {v} \in SUBSET Objects
    BY DEF OrNull
  <2>2. r \in StateType
    BY <2>1, ReallyMarkIs
  <2> HIDE DEF r, ra
  <2>3. WithVal(SetAge(r, v, "old0"), V) = SetAge(WithVal(r, V), v, "old0")
    BY <2>2, WithSetAge
  <2> QED BY <1>3, <2>3
<1>5. Paint(a, o, "white") = WithVal(Paint(s, o, "white"), V)
  BY WithPaint
<1>6. Barrier(a, o, v) =
        IF ~(v # NULL /\ IsBlack(a, o) /\ IsWhite(a, v)) THEN a
        ELSE IF KeepInvariant(a) THEN IF IsOld(a, o) THEN SetAge(ra, v, "old0") ELSE ra
        ELSE IF a.gckind # "genminor" THEN Paint(a, o, "white") ELSE a
  BY DEF Barrier
<1>7. Barrier(s, o, v) =
        IF ~(v # NULL /\ IsBlack(s, o) /\ IsWhite(s, v)) THEN s
        ELSE IF KeepInvariant(s) THEN IF IsOld(s, o) THEN SetAge(r, v, "old0") ELSE r
        ELSE IF s.gckind # "genminor" THEN Paint(s, o, "white") ELSE s
  BY DEF Barrier
<1> HIDE DEF r, ra
<1> QED BY <1>1, <1>2, <1>3, <1>4, <1>5, <1>6, <1>7

\* A back barrier after the store is the back barrier before it, followed by the store.
LEMMA BarrierBackVal ==
  ASSUME NEW s \in StateType, NEW V \in [Objects -> OrNull(Proper)], NEW o \in Objects, NEW v
  PROVE  /\ BarrierBack(WithVal(s, V), o, v) = WithVal(BarrierBack(s, o, v), V)
         /\ BarrierBack(WithKey(s, V), o, v) = WithKey(BarrierBack(s, o, v), V)
<1> DEFINE r(a) == IF a.age[o] = "touched2" THEN Paint(a, o, "gray") ELSE Link(a, o, "grayagain")
<1>1. r(s) \in StateType
  <2>1. Paint(s, o, "gray") \in StateType
    BY DEF Paint, StateType, Colors
  <2>2. Link(s, o, "grayagain") \in StateType
    <3>1. LET t == Link(s, o, "grayagain") IN t \in StateType
      BY LinkIs
    <3> QED BY <3>1
  <2> QED BY <2>1, <2>2
<1>2. ASSUME NEW a, a = WithVal(s, V) \/ a = WithKey(s, V)
      PROVE  /\ IsBlack(a, o) <=> IsBlack(s, o)
             /\ IsWhite(a, v) <=> IsWhite(s, v)
             /\ IsOld(a, o) <=> IsOld(s, o)
             /\ a.age = s.age
  <2>1. a.color = s.color /\ a.age = s.age
    BY <1>2 DEF StateType, WithVal, WithKey
  <2> QED BY <2>1 DEF IsBlack, IsWhite, IsOld
<1>3. \A a : BarrierBack(a, o, v) =
        IF ~(v # NULL /\ IsBlack(a, o) /\ IsWhite(a, v)) THEN a
        ELSE IF IsOld(a, o) THEN SetAge(r(a), o, "touched1") ELSE r(a)
  BY DEF BarrierBack
<1>4. r(WithVal(s, V)) = WithVal(r(s), V) /\ r(WithKey(s, V)) = WithKey(r(s), V)
  BY <1>2, WithPaint, WithLink
<1> HIDE DEF r
<1>5. /\ SetAge(WithVal(r(s), V), o, "touched1") = WithVal(SetAge(r(s), o, "touched1"), V)
      /\ SetAge(WithKey(r(s), V), o, "touched1") = WithKey(SetAge(r(s), o, "touched1"), V)
  BY <1>1, WithSetAge
<1> QED BY <1>2, <1>3, <1>4, <1>5

(* A store to the object o, which may now refer to x besides.  *)
Stored(s, t, o, x) ==
  /\ t \in StateType /\ Same(s, t, {"val", "key"}) /\ o \in Live(s) /\ o # MainThread
  /\ \A y \in Objects : y # o => t.val[y] = s.val[y] /\ t.key[y] = s.key[y]
  /\ ShapeOf(t, o) /\ Refs(t, o) \subseteq Refs(s, o) \cup ({x} \ {NULL})
  /\ x \in Live(s) \cup {NULL}

\* A store of a live object into a live one keeps the invariant, when it is not from black to
\* white.
LEMMA StoredInv ==
  ASSUME NEW s, Runs(s), KindOK, NEW t, NEW o, NEW x, Stored(s, t, o, x),
         x # NULL /\ IsBlack(s, o) => ~IsWhite(s, x)
  PROVE  Runs(t)
<1>1. Base(s) /\ s \in StateType /\ Shape(s) /\ Closed(s) /\ o \in Objects
  BY DEF Runs, Inv, Base, Stored, Live
<1>2. t.stack = s.stack /\ t.open = s.open /\ t.color = s.color /\ t.age = s.age /\ t.twups = s.twups
  BY DEF Stored, Same, Fields
<1>3. ASSUME NEW y \in Objects PROVE ShapeOf(t, y)
  <2>1. CASE y = o
    BY <2>1 DEF Stored
  <2>2. CASE y # o
    <3>1. ShapeOf(s, y) /\ t.val[y] = s.val[y] /\ t.key[y] = s.key[y] /\ InUse(t) = InUse(s)
      BY <1>1, <1>2, <2>2 DEF Shape, Stored, InUse
    <3> QED BY <1>2, <3>1 DEF ShapeOf
  <2> QED BY <2>1, <2>2
<1>4. Shape(t)
  BY <1>1, <1>2, <1>3 DEF Shape
<1>5. Refs(s, o) \subseteq Live(s)
  BY <1>1 DEF Closed, Stored
<1>6. Refs(t, o) \subseteq Live(s)
  BY <1>5 DEF Stored
<1>7. Same(s, t, {"val", "key", "stack"})
  BY DEF Stored, Same
<1>8. Write(s, t, o)
  BY <1>1, <1>2, <1>4, <1>6, <1>7 DEF Write, Stored
<1>9. Guarded(s, t, o)
  BY DEF Guarded, Stored
<1> QED BY <1>8, <1>9, WriteInv

\* Such a store as a value.
LEMMA StoreVal ==
  ASSUME NEW s, Runs(s), KindOK, NEW o, o \in Live(s), NEW x, x \in OrNull(Proper), x \in Live(s) \cup {NULL},
         kind[o] \notin {"thread", "string"}, s.open[o] = NULL, NEW b, Ordered(s, b, o, x),
         x # NULL => (kind[x] = "upval" => kind[o] = "closure"),
         x # NULL => (kind[o] = "bareudata" => kind[x] \in TableKinds)
  PROVE  Runs(WithVal(b, [s.val EXCEPT ![o] = x]))
<1> DEFINE V == [s.val EXCEPT ![o] = x]
           t == WithVal(b, V)
<1>1. /\ Runs(b) /\ Live(b) = Live(s) /\ b \in StateType /\ s \in StateType /\ o \in Objects
      /\ Shape(b) /\ o \in InUse(b)
  <2>1. Runs(b) /\ Live(b) = Live(s)
    BY DEF Ordered
  <2> QED BY <2>1 DEF Runs, Inv, Base, Live, InUse
<1>2. b.val = s.val /\ b.key = s.key /\ b.open = s.open
  BY DEF Ordered, Same, Fields
<1>3. V \in [Objects -> OrNull(Proper)] /\ V[o] = x /\ \A y \in Objects : y # o => V[y] = s.val[y]
  BY <1>1 DEF StateType
<1> HIDE DEF V
<1>4. t \in StateType /\ Same(b, t, {"val"}) /\ t.val = V
  BY <1>1, <1>3, WithIs
<1> HIDE DEF t
<1>5. t.key = b.key /\ t.open = b.open /\ t.color = b.color /\ t.age = b.age
  BY <1>4 DEF Same, Fields
<1>6. o # MainThread
  BY DEF KindOK
<1>7. ShapeOf(b, o) /\ InUse(t) = InUse(b) /\ b.open[o] = NULL /\ t.open[o] = NULL
  BY <1>1, <1>2, <1>5 DEF Shape, InUse
<1>8. ShapeOf(t, o)
  BY <1>1, <1>3, <1>4, <1>5, <1>7 DEF ShapeOf
<1>9. Refs(t, o) \subseteq Refs(b, o) \cup ({x} \ {NULL})
  <2>1. CASE kind[o] = "upval"
    <3>1. Refs(t, o) = {UpvalValue(t, o)} \ {NULL}
      BY <1>1, <2>1, RefsUpval
    <3>2. UpvalValue(t, o) = x
      BY <1>3, <1>4, <1>7 DEF UpvalValue
    <3> QED BY <3>1, <3>2
  <2>2. CASE kind[o] # "upval"
    <3>1. Refs(t, o) = {t.val[o], t.key[o]} \ {NULL} /\ Refs(b, o) = {b.val[o], b.key[o]} \ {NULL}
      BY <1>1, <2>2, RefsOther
    <3> QED BY <1>3, <1>4, <1>5, <3>1
  <2> QED BY <2>1, <2>2
<1>10. Same(b, t, {"val", "key"})
  BY <1>4 DEF Same
<1>11. Stored(b, t, o, x)
  BY <1>1, <1>2, <1>3, <1>4, <1>5, <1>6, <1>8, <1>9, <1>10 DEF Stored
<1>12. x # NULL /\ IsBlack(b, o) => ~IsWhite(b, x)
  BY DEF Ordered
<1> QED BY <1>1, <1>11, <1>12, StoredInv DEF t, V

\* Such a store as a key.
LEMMA StoreKey ==
  ASSUME NEW s, Runs(s), KindOK, NEW o, o \in Live(s), NEW x, x \in Proper, x \in Live(s),
         kind[o] \in WeakKinds, NEW b, Ordered(s, b, o, x), kind[x] # "upval"
  PROVE  Runs(WithKey(b, [s.key EXCEPT ![o] = x]))
<1> DEFINE V == [s.key EXCEPT ![o] = x]
           t == WithKey(b, V)
<1>1. /\ Runs(b) /\ Live(b) = Live(s) /\ b \in StateType /\ s \in StateType /\ o \in Objects
      /\ Shape(b) /\ o \in InUse(b)
  <2>1. Runs(b) /\ Live(b) = Live(s)
    BY DEF Ordered
  <2> QED BY <2>1 DEF Runs, Inv, Base, Live, InUse
<1>2. b.val = s.val /\ b.key = s.key /\ b.open = s.open
  BY DEF Ordered, Same, Fields
<1>3. V \in [Objects -> OrNull(Proper)] /\ V[o] = x /\ \A y \in Objects : y # o => V[y] = s.key[y]
  BY <1>1 DEF StateType, OrNull
<1> HIDE DEF V
<1>4. t \in StateType /\ Same(b, t, {"key"}) /\ t.key = V
  BY <1>1, <1>3, WithIs
<1> HIDE DEF t
<1>5. t.val = b.val /\ t.open = b.open /\ t.color = b.color /\ t.age = b.age
  BY <1>4 DEF Same, Fields
<1>6. o # MainThread
  BY DEF KindOK, WeakKinds
<1>7. ShapeOf(b, o) /\ InUse(t) = InUse(b)
  BY <1>1, <1>2, <1>5 DEF Shape, InUse
<1>8. ShapeOf(t, o)
  BY <1>1, <1>3, <1>4, <1>5, <1>7 DEF ShapeOf
<1>9. Refs(t, o) \subseteq Refs(b, o) \cup ({x} \ {NULL})
  <2>1. Refs(t, o) = {t.val[o], t.key[o]} \ {NULL} /\ Refs(b, o) = {b.val[o], b.key[o]} \ {NULL}
    BY <1>1, RefsOther DEF WeakKinds
  <2> QED BY <1>3, <1>4, <1>5, <2>1
<1>10. Same(b, t, {"val", "key"})
  BY <1>4 DEF Same
<1>11. Stored(b, t, o, x)
  BY <1>1, <1>2, <1>3, <1>4, <1>5, <1>6, <1>8, <1>9, <1>10 DEF Stored
<1>12. x # NULL /\ IsBlack(b, o) => ~IsWhite(b, x)
  BY DEF Ordered
<1> QED BY <1>1, <1>11, <1>12, StoredInv DEF t, V

(* What a step of the program does to the state of the collector.  *)
Stepped(s, t) ==
  Runs(t) /\ t.gcstate = s.gcstate /\ t.gckind = s.gckind /\ t.infin = s.infin

Storable(s) == {NULL} \cup { x \in s.stack : kind[x] # "upval" }

\* What is on the stack is live, and can be stored.
LEMMA StackLive ==
  ASSUME NEW s, Base(s), KindOK
  PROVE  /\ s.stack \subseteq Live(s) /\ s.stack \subseteq Proper /\ MainThread \in Live(s)
         /\ \A x \in Storable(s) : x \in OrNull(Proper) /\ x \in Live(s) \cup {NULL}
                                   /\ (x # NULL => kind[x] # "upval" /\ x \in Proper)
<1>1. s.stack \subseteq Proper /\ MainThread \in Live(s) /\ MainThread \in Objects
  BY Null DEF Base, StateType, Closed
<1>2. Refs(s, MainThread) = s.stack \cup OpenUpvals(s, MainThread)
  BY <1>1, RefsThread DEF KindOK, Stack
<1>3. s.stack \subseteq Live(s)
  BY <1>1, <1>2 DEF Base, Closed
<1>4. \A x \in s.stack : x # NULL
  BY <1>1, Null DEF Proper
<1> QED BY <1>1, <1>3, <1>4 DEF Storable, OrNull

\* A store changes neither the phase nor the mode, nor whether a finalizer runs.
LEMMA WithStep ==
  ASSUME NEW s, NEW b, NEW o, NEW x, Ordered(s, b, o, x), NEW V \in [Objects -> OrNull(Proper)]
  PROVE  /\ Runs(WithVal(b, V)) => Stepped(s, WithVal(b, V))
         /\ Runs(WithKey(b, V)) => Stepped(s, WithKey(b, V))
<1>1. b \in StateType /\ b.gcstate = s.gcstate /\ b.gckind = s.gckind /\ b.infin = s.infin
  BY DEF Ordered, Runs, Inv, Base, Same, Fields
<1>2. ASSUME NEW t, t = WithVal(b, V) \/ t = WithKey(b, V)
      PROVE  t.gcstate = b.gcstate /\ t.gckind = b.gckind /\ t.infin = b.infin
  BY <1>1, <1>2 DEF WithVal, WithKey, StateType
<1> QED BY <1>1, <1>2 DEF Stepped

\* Storing a value into a table or a userdata, with luaC_barrierback.
LEMMA BackVal ==
  ASSUME NEW s, Runs(s), KindOK, NEW o \in s.stack, kind[o] \in Tables, NEW x \in Storable(s)
  PROVE  Stepped(s, BarrierBack([s EXCEPT !.val[o] = x], o, x))
<1> DEFINE V == [s.val EXCEPT ![o] = x]
           b == BarrierBack(s, o, x)
<1>1. Base(s) /\ s \in StateType /\ Shape(s)
  BY DEF Runs, Inv, Base
<1>2. o \in Live(s) /\ o \in Objects /\ x \in OrNull(Proper) /\ x \in Live(s) \cup {NULL}
      /\ (x # NULL => kind[x] # "upval")
  BY <1>1, StackLive DEF Live
<1>3. [s EXCEPT !.val[o] = x] = WithVal(s, V) /\ V \in [Objects -> OrNull(Proper)]
  BY <1>1, <1>2 DEF WithVal, WithKey, StateType
<1>4. Ordered(s, b, o, x)
  BY <1>2, BarrierBackInv
<1>5. kind[o] \notin {"thread", "string", "bareudata"} /\ s.open[o] = NULL
  BY <1>1, <1>2 DEF Shape, ShapeOf, Tables
<1>6. Runs(WithVal(b, V))
  BY <1>2, <1>4, <1>5, StoreVal
<1> HIDE DEF V
<1>7. BarrierBack(WithVal(s, V), o, x) = WithVal(b, V)
  BY <1>1, <1>2, <1>3, BarrierBackVal
<1> HIDE DEF b
<1> QED BY <1>3, <1>4, <1>6, <1>7, WithStep

\* Storing a key into a weak table, with luaC_barrierback.
LEMMA BackKey ==
  ASSUME NEW s, Runs(s), KindOK, NEW o \in s.stack, kind[o] \in WeakKinds,
         NEW x \in Storable(s) \ {NULL}
  PROVE  LET t == BarrierBack([s EXCEPT !.key[o] = x], o, x)
         IN  Stepped(s, t) /\ t.stack = s.stack
<1> DEFINE V == [s.key EXCEPT ![o] = x]
           b == BarrierBack(s, o, x)
<1>1. Base(s) /\ s \in StateType /\ Shape(s)
  BY DEF Runs, Inv, Base
<1>2. o \in Live(s) /\ o \in Objects /\ x \in OrNull(Proper) /\ x \in Proper /\ x \in Live(s)
      /\ kind[x] # "upval"
  BY <1>1, StackLive DEF Live
<1>3. [s EXCEPT !.key[o] = x] = WithKey(s, V) /\ V \in [Objects -> OrNull(Proper)]
  BY <1>1, <1>2 DEF WithVal, WithKey, StateType
<1>4. Ordered(s, b, o, x)
  BY <1>2, BarrierBackInv DEF WeakKinds, Tables
<1>6. Runs(WithKey(b, V))
  BY <1>2, <1>4, StoreKey
<1> HIDE DEF V
<1>7. BarrierBack(WithKey(s, V), o, x) = WithKey(b, V)
  BY <1>1, <1>2, <1>3, BarrierBackVal
<1> HIDE DEF b
<1>8. WithKey(b, V).stack = s.stack
  BY <1>4 DEF WithKey, Ordered, Runs, Inv, Base, StateType, Same, Fields
<1> QED BY <1>3, <1>4, <1>6, <1>7, <1>8, WithStep

\* Storing a key, then a value, into a weak table.
LEMMA SetWeakInv ==
  ASSUME NEW s, Runs(s), KindOK, NEW o \in s.stack, kind[o] \in WeakKinds,
         NEW k \in Storable(s) \ {NULL}, NEW x \in Storable(s)
  PROVE  LET keyed == BarrierBack([s EXCEPT !.key[o] = k], o, k)
         IN  Stepped(s, BarrierBack([keyed EXCEPT !.val[o] = x], o, x))
<1> DEFINE keyed == BarrierBack([s EXCEPT !.key[o] = k], o, k)
<1>1. Stepped(s, keyed) /\ keyed.stack = s.stack
  BY BackKey
<1> HIDE DEF keyed
<1>2. Runs(keyed) /\ o \in keyed.stack /\ x \in Storable(keyed) /\ kind[o] \in Tables
  BY <1>1 DEF Stepped, Storable, WeakKinds, Tables
<1>3. Stepped(keyed, BarrierBack([keyed EXCEPT !.val[o] = x], o, x))
  BY <1>2, BackVal
<1>4. Stepped(s, BarrierBack([keyed EXCEPT !.val[o] = x], o, x))
  BY <1>1, <1>3 DEF Stepped
<1> QED BY <1>4 DEF keyed

\* Such a store moves nothing between the lists.
LEMMA ForwardLists ==
  ASSUME NEW s \in StateType, NEW o \in Objects, NEW x \in OrNull(Proper)
  PROVE  LET t == Barrier([s EXCEPT !.val[o] = x], o, x)
         IN  t.stack = s.stack /\ t.allgc = s.allgc
<1> DEFINE a == [s EXCEPT !.val[o] = x]
           r == ReallyMark(a, {x})
<1>1. a \in StateType /\ a.stack = s.stack /\ a.allgc = s.allgc
  BY DEF StateType
<1> HIDE DEF a
<1>2. r.stack = a.stack /\ r.allgc = a.allgc
  BY <1>1, ReallyMarkFields DEF StateType
<1>3. SetAge(r, x, "old0").stack = r.stack /\ SetAge(r, x, "old0").allgc = r.allgc
  <2> DEFINE A == Painted(a, {x})
             B == Greyed(a, {x})
  <2>1. r = [a EXCEPT !.color = A, !.gray = B]
    BY ReallyMarkFields
  <2> HIDE DEF A, B, r
  <2> QED BY <1>1, <2>1 DEF SetAge, StateType
<1>4. Paint(a, o, "white").stack = a.stack /\ Paint(a, o, "white").allgc = a.allgc
  BY <1>1 DEF Paint, StateType
<1>5. Barrier(a, o, x) \in {a, r, SetAge(r, x, "old0"), Paint(a, o, "white")}
  BY DEF Barrier
<1> HIDE DEF r
<1>6. Barrier(a, o, x).stack = s.stack /\ Barrier(a, o, x).allgc = s.allgc
  BY <1>1, <1>2, <1>3, <1>4, <1>5
<1> QED BY <1>6 DEF a

(* A store with a forward barrier; an upvalue is not left as the barrier ages one.  *)
LEMMA ForwardVal ==
  ASSUME NEW s, Runs(s), KindOK, NEW o \in s.stack, kind[o] \in {"closure", "upval", "bareudata"},
         s.open[o] = NULL,
         NEW x \in s.stack \cup {NULL}, x # NULL => (kind[x] = "upval" => kind[o] = "closure"),
         x # NULL => (kind[o] = "bareudata" => kind[x] \in TableKinds),
         x # NULL /\ kind[x] \in {"upval", "bareudata"} => Joins(s, o, x)
  PROVE  Stepped(s, Barrier([s EXCEPT !.val[o] = x], o, x))
<1> DEFINE V == [s.val EXCEPT ![o] = x]
           b == Barrier(s, o, x)
<1>1. Base(s) /\ s \in StateType /\ Shape(s)
  BY DEF Runs, Inv, Base
<1>2. o \in Live(s) /\ o \in Objects /\ x \in OrNull(Proper) /\ x \in Live(s) \cup {NULL}
      /\ x \in OrNull(Objects)
  BY <1>1, StackLive DEF Live, OrNull, Proper
<1>3. [s EXCEPT !.val[o] = x] = WithVal(s, V) /\ V \in [Objects -> OrNull(Proper)]
  BY <1>1, <1>2 DEF WithVal, WithKey, StateType
<1>4. \A y \in Objects : y # o => V[y] = s.val[y]
  BY <1>1 DEF StateType
<1>5. kind[o] \notin {"thread", "string"} /\ kind[o] # "thread"
  OBVIOUS
<1>6. x # NULL => AlikeIn(WithVal(s, V), s, WithHeld(s, {x}, "upval"))
  <2> HIDE DEF V
  <2> SUFFICES ASSUME x # NULL, NEW u \in WithHeld(s, {x}, "upval"), kind[u] \in {"upval", "bareudata"}
               PROVE UpvalValue(WithVal(s, V), u) = UpvalValue(s, u)
    <3>1. \A q : IsWhite(WithVal(s, V), q) <=> IsWhite(s, q)
      <4>1. WithVal(s, V).color = s.color
        BY <1>1 DEF WithVal, StateType
      <4> QED BY <4>1 DEF IsWhite
    <3> QED BY <3>1 DEF AlikeIn
  <2>1. WithVal(s, V).val = V /\ WithVal(s, V).open = s.open
    BY <1>1 DEF WithVal, StateType
  <2>2. u # o
    <3>1. CASE kind[o] = "closure"
      BY <3>1
    <3>2. CASE kind[o] # "closure"
      <4>1. kind[x] # "upval"
        BY <3>2
      <4>2. WithHeld(s, {x}, "upval") = {x}
        BY <4>1 DEF WithHeld
      <4> QED BY <3>2, <4>1, <4>2 DEF TableKinds
    <3> QED BY <3>1, <3>2
  <2>3. u \in Objects
    <3>1. {x} \in SUBSET Objects
      BY <1>2 DEF OrNull
    <3>2. WithHeld(s, {x}, "upval") \in SUBSET Objects
      BY <1>1, <3>1, HeldIs
    <3> QED BY <3>2
  <2>4. s.open[u] # NULL => s.open[u] # o /\ s.open[u] \in Objects
    BY <1>1, <1>5, <2>3 DEF Shape, ShapeOf, StateType, OrNull, Proper
  <2> QED BY <1>4, <2>1, <2>2, <2>3, <2>4 DEF UpvalValue
<1> HIDE DEF V
<1>7. Barrier(WithVal(s, V), o, x) = WithVal(b, V)
  <2>1. CASE x # NULL
    BY <1>1, <1>2, <1>3, <1>6, <2>1, BarrierVal
  <2>2. CASE x = NULL
    BY <2>2 DEF Barrier
  <2> QED BY <2>1, <2>2
<1>9. Ordered(s, b, o, x)
  <2>1. CASE x # NULL
    BY <1>2, <2>1, BarrierInv
  <2>2. CASE x = NULL
    <3>1. b = s
      BY <2>2 DEF Barrier
    <3> QED BY <2>2, <3>1 DEF Ordered, Same
  <2> QED BY <2>1, <2>2
<1> HIDE DEF b
<1>10. Runs(WithVal(b, V))
  BY <1>2, <1>5, <1>9, StoreVal DEF V
<1> QED BY <1>3, <1>7, <1>9, <1>10, WithStep

==============================================================================
