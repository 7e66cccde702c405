----------------------------- MODULE StasisProofs -----------------------------
(***************************************************************************)
(* Theorems about lstasis_save and lstasis_load, for every set of heaps and *)
(* libraries within the assumptions of LuaHeap and StasisRoundTrip.  Of a   *)
(* save: type correctness, the discipline of the work-list, completeness of *)
(* what is handed out, and that it implements SnapshotPromise.  Of a load   *)
(* of what a save wrote: the collector waits, the load is all or nothing,   *)
(* allocation numbers resume, and the loaded state is the saved one.        *)
(***************************************************************************)
EXTENDS StasisRoundTrip, FiniteSetTheorems, TLAPS

(*-------------------------------- the save ------------------------------*)

\* What the assumptions say of the heap being saved.
LEMMA HeapFacts ==
  ASSUME heap \in Heaps
  PROVE  /\ heap.kind \in [Obj -> Kinds]
         /\ heap.roots \in Seq(Obj \cup {Absent})
         /\ \A o \in Obj : heap.places[o] \in Seq(Place)
         /\ \A i \in DOMAIN heap.roots :
              /\ heap.roots[i] \in Obj \cup {Absent}
              /\ heap.roots[i] # Absent =>
                   heap.kind[heap.roots[i]] \in {"table", "thread"}
         /\ Absent \notin Obj /\ Absent \notin LightPtr
         /\ Absent \notin CFunction
         /\ Obj \cap LightPtr = {} /\ Obj \cap CFunction = {}
         /\ LightPtr \cap CFunction = {}
  BY HeapAssumption DEF Heap, Value

\* The three outcomes of discover_tv, together: types, the discipline of ids
\* and queue, and that nothing already resolved stops being so.
LEMMA Discovery ==
  ASSUME TypeOK, IdsAreStreamPositions, KnownAreSerializable,
         NEW v \in Value \cup {Absent}, discover_tv(v), heap' = heap
  PROVE  /\ id' \in [Obj -> Nat] /\ next_id' \in Nat \ {0}
         /\ ordered' \in Seq(Obj) /\ queue' \in Seq(Obj)
         /\ error' \in Reasons \cup {"none"}
         /\ IdsAreStreamPositions' /\ KnownAreSerializable'
         /\ Len(ordered') - Len(queue') = Len(ordered) - Len(queue)
         /\ Len(ordered) <= Len(ordered')
         /\ \A i \in DOMAIN ordered : ordered'[i] = ordered[i]
         /\ \A o \in Obj : id[o] # 0 => id'[o] = id[o]
         /\ \A o \in Obj : id[o] = 0 /\ id'[o] # 0 => id'[o] = Len(ordered) + 1
         /\ error # "none" => error' = error
         /\ Resolved(v)'
         /\ \A w : Resolved(w) => Resolved(w)'
  <1>0. /\ Absent \notin Obj /\ Obj \cap LightPtr = {}
        /\ id \in [Obj -> Nat] /\ next_id \in Nat \ {0}
        /\ ordered \in Seq(Obj) /\ queue \in Seq(Obj)
        /\ error \in Reasons \cup {"none"}
    BY HeapFacts DEF TypeOK
  <1>1. CASE Accept(v)
    <2>1. /\ v \in Obj /\ id[v] = 0 /\ is_serializable(heap, v)
          /\ id' = [id EXCEPT ![v] = next_id] /\ next_id' = next_id + 1
          /\ ordered' = Append(ordered, v) /\ queue' = Append(queue, v)
          /\ error' = error
      BY <1>1 DEF Accept
    <2>2. next_id = Len(ordered) + 1
      BY DEF IdsAreStreamPositions
    <2>3. IdsAreStreamPositions'
      <3>1. next_id' = Len(ordered') + 1
        BY <1>0, <2>1, <2>2
      <3>2. ASSUME NEW i \in DOMAIN ordered'
            PROVE  id'[ordered'[i]] = i
        <4>1. CASE i \in DOMAIN ordered
          <5>1. ordered'[i] = ordered[i] /\ ordered[i] \in Obj
            BY <1>0, <2>1, <4>1
          <5>2. id[ordered[i]] = i /\ i # 0
            BY <1>0, <4>1 DEF IdsAreStreamPositions
          <5> QED BY <1>0, <2>1, <5>1, <5>2
        <4>2. CASE i \notin DOMAIN ordered
          <5>1. i = Len(ordered) + 1 /\ ordered'[i] = v
            BY <1>0, <2>1, <4>2
          <5> QED BY <1>0, <2>1, <2>2, <5>1
        <4> QED BY <4>1, <4>2
      <3>3. ASSUME NEW o \in Obj, id'[o] # 0
            PROVE  id'[o] \in DOMAIN ordered' /\ ordered'[id'[o]] = o
        <4>1. CASE o = v
          BY <1>0, <2>1, <2>2, <4>1
        <4>2. CASE o # v
          <5>1. id[o] \in DOMAIN ordered /\ ordered[id[o]] = o
            BY <1>0, <2>1, <3>3, <4>2 DEF IdsAreStreamPositions, Known
          <5> QED BY <1>0, <2>1, <4>2, <5>1
        <4> QED BY <4>1, <4>2
      <3> QED BY <3>1, <3>2, <3>3 DEF IdsAreStreamPositions, Known
    <2>4. KnownAreSerializable'
      BY <1>0, <2>1 DEF KnownAreSerializable
    <2>5. \A w : Resolved(w) => Resolved(w)'
      BY <1>0, <2>1 DEF Resolved
    <2>6. Resolved(v)'
      BY <1>0, <2>1 DEF Resolved
    <2> QED BY <1>0, <2>1, <2>2, <2>3, <2>4, <2>5, <2>6
  <1>2. CASE Reject(v)
    <2>1. /\ UNCHANGED <<id, next_id, ordered, queue>>
          /\ \/ v \in Obj /\ id[v] = 0 /\ ~is_serializable(heap, v)
                /\ error' = Latched("userdata")
             \/ v \in LightPtr /\ error' = Latched("light userdata")
      BY <1>2 DEF Reject, discovery
    <2>2. /\ error' \in Reasons \cup {"none"} /\ error' # "none"
          /\ error # "none" => error' = error
      BY <1>0, <2>1 DEF Latched, Reasons
    <2>3. IdsAreStreamPositions' /\ KnownAreSerializable'
      BY <2>1 DEF IdsAreStreamPositions, KnownAreSerializable, Known
    <2>4. Resolved(v)' /\ \A w : Resolved(w) => Resolved(w)'
      BY <2>1, <2>2 DEF Resolved
    <2>5. UNCHANGED <<id, next_id, ordered, queue>>
      BY <2>1
    <2> QED BY <1>0, <2>2, <2>3, <2>4, <2>5
  <1>3. CASE Pass(v)
    <2>1. /\ UNCHANGED <<id, next_id, ordered, queue, error>>
          /\ IF v \in Obj THEN id[v] # 0 ELSE v \notin LightPtr
      BY <1>3 DEF Pass, discovery
    <2>2. IdsAreStreamPositions' /\ KnownAreSerializable'
      BY <2>1 DEF IdsAreStreamPositions, KnownAreSerializable, Known
    <2>3. Resolved(v)' /\ \A w : Resolved(w) => Resolved(w)'
      BY <2>1 DEF Resolved
    <2> QED BY <1>0, <2>1, <2>2, <2>3
  <1> QED BY <1>1, <1>2, <1>3 DEF discover_tv

-----------------------------------------------------------------------------
\* The invariant holds before the first root.
LEMMA InitInv == Init => SaveInv
  <1> SUFFICES ASSUME Init PROVE SaveInv
    OBVIOUS
  <1>1. TypeOK
    BY DEF Init, TypeOK, PCs
  <1>2. IdsAreStreamPositions /\ QueueIsUnprocessed
    BY DEF Init, IdsAreStreamPositions, QueueIsUnprocessed, Known
  <1>3. FollowedBehindCursor
    BY DEF Init, FollowedBehindCursor, Processed, Known
  <1>4. /\ Phases /\ KnownAreSerializable /\ EarlierReferrer
        /\ ErrorHasCause /\ WrittenWithoutFault
    BY DEF Init, Phases, KnownAreSerializable, EarlierReferrer,
           ErrorHasCause, WrittenWithoutFault, Known
  <1> QED BY <1>1, <1>2, <1>3, <1>4 DEF SaveInv

\* What a discovery step keeps, whether it is a root or a place of the object
\* at the cursor that is looked at.
LEMMA DiscoveryKeeps ==
  ASSUME SaveInv, pc \in {"roots", "places"},
         NEW v \in Value \cup {Absent}, discover_tv(v),
         \/ v \in Obj /\ v \in Roots(heap)
         \/ v = Absent
         \/ pc = "places" /\ \E p \in Places(heap, cur) : Visits(p) /\ p.val = v,
         UNCHANGED <<heap, pc, cur, stream>>
  PROVE  /\ QueueIsUnprocessed' /\ EarlierReferrer'
         /\ ErrorHasCause' /\ WrittenWithoutFault'
         /\ \A o \in Obj : o \in Processed' => o \in Processed
  <1>1. /\ TypeOK /\ Phases /\ IdsAreStreamPositions /\ QueueIsUnprocessed
        /\ KnownAreSerializable /\ EarlierReferrer
        /\ ErrorHasCause /\ WrittenWithoutFault
    BY DEF SaveInv
  <1>2. /\ id \in [Obj -> Nat] /\ id' \in [Obj -> Nat]
        /\ ordered \in Seq(Obj) /\ queue \in Seq(Obj)
        /\ ordered' \in Seq(Obj) /\ queue' \in Seq(Obj)
        /\ Len(ordered') - Len(queue') = Len(ordered) - Len(queue)
        /\ Len(ordered) <= Len(ordered')
        /\ \A i \in DOMAIN ordered : ordered'[i] = ordered[i]
        /\ \A o \in Obj : id[o] # 0 => id'[o] = id[o]
        /\ \A o \in Obj : id[o] = 0 /\ id'[o] # 0 => id'[o] = Len(ordered) + 1
        /\ error # "none" => error' = error
    BY <1>1, Discovery DEF TypeOK
  <1>3. pc = "places" => /\ cur \in Obj /\ id[cur] # 0
                         /\ id[cur] <= Len(ordered)
    <2> SUFFICES ASSUME pc = "places"
                 PROVE  cur \in Obj /\ id[cur] # 0 /\ id[cur] <= Len(ordered)
      OBVIOUS
    <2>1. /\ cur \in Obj
          /\ Len(queue) < Len(ordered) /\ Len(queue) \in Nat /\ Len(ordered) \in Nat
          /\ cur = ordered[Len(ordered) - Len(queue)]
      <3>1. cur \in Obj
        BY <1>1 DEF TypeOK
      <3>2. Len(queue) \in Nat /\ Len(ordered) \in Nat
        BY <1>2
      <3> QED BY <1>1, <3>1, <3>2 DEF QueueIsUnprocessed
    <2>2. Len(ordered) - Len(queue) \in DOMAIN ordered
      BY <1>2, <2>1
    <2>3. id[cur] = Len(ordered) - Len(queue)
      BY <1>1, <2>1, <2>2 DEF IdsAreStreamPositions
    <2> QED BY <2>1, <2>3
  <1>4. QueueIsUnprocessed'
    <2>1. CASE UNCHANGED <<ordered, queue>>
      BY <1>1, <2>1 DEF QueueIsUnprocessed
    <2>2. CASE ordered' = Append(ordered, v) /\ queue' = Append(queue, v) /\ v \in Obj
      <3>1. Len(queue') = Len(queue) + 1 /\ Len(ordered') = Len(ordered) + 1
            /\ Len(queue) \in Nat /\ Len(ordered) \in Nat
        BY <1>2, <2>2
      <3>0. DOMAIN ordered = 1..Len(ordered) /\ DOMAIN queue = 1..Len(queue)
        BY <1>2
      <3>2. Len(queue') <= Len(ordered')
        BY <1>1, <3>1 DEF QueueIsUnprocessed
      <3>3. ASSUME NEW i \in DOMAIN queue'
            PROVE  queue'[i] = ordered'[Len(ordered') - Len(queue') + i]
        <4>1. CASE i \in DOMAIN queue
          <5>1. queue'[i] = queue[i]
            BY <1>2, <2>2, <4>1
          <5>2. queue[i] = ordered[Len(ordered) - Len(queue) + i]
            BY <1>1, <4>1 DEF QueueIsUnprocessed
          <5>3. Len(ordered) - Len(queue) + i \in DOMAIN ordered
            BY <1>1, <3>0, <3>1, <4>1 DEF QueueIsUnprocessed
          <5>4. ordered'[Len(ordered) - Len(queue) + i] = queue[i]
            BY <1>2, <5>2, <5>3
          <5> QED BY <3>1, <5>1, <5>4
        <4>2. CASE i \notin DOMAIN queue
          BY <1>2, <2>2, <3>1, <3>3, <4>2
        <4> QED BY <4>1, <4>2
      <3>4. pc' = "places" => /\ Len(queue') < Len(ordered')
                              /\ cur' = ordered'[Len(ordered') - Len(queue')]
        <4> SUFFICES ASSUME pc = "places"
                     PROVE  /\ Len(queue') < Len(ordered')
                            /\ cur = ordered'[Len(ordered') - Len(queue')]
          OBVIOUS
        <4>1. /\ Len(queue) < Len(ordered)
              /\ cur = ordered[Len(ordered) - Len(queue)]
          BY <1>1 DEF QueueIsUnprocessed
        <4>2. Len(ordered) - Len(queue) \in DOMAIN ordered
          BY <3>0, <3>1, <4>1
        <4>3. ordered'[Len(ordered) - Len(queue)] = cur
          BY <1>2, <4>1, <4>2
        <4> QED BY <3>1, <4>1, <4>3
      <3> QED BY <3>2, <3>3, <3>4 DEF QueueIsUnprocessed
    <2> QED BY <2>1, <2>2 DEF discover_tv, Accept, Reject, Pass, discovery
  <1>5. EarlierReferrer'
    <2> SUFFICES ASSUME NEW o \in Obj, id'[o] # 0
                 PROVE  \/ o \in Roots(heap)
                        \/ \E q \in Obj : /\ id'[q] # 0 /\ id'[q] < id'[o]
                                          /\ o \in Refs(heap, q)
      BY DEF EarlierReferrer, Known
    <2>1. CASE id[o] # 0
      BY <1>1, <1>2, <2>1 DEF EarlierReferrer, Known
    <2>2. CASE id[o] = 0
      <3>1. o = v /\ id'[o] = Len(ordered) + 1
        BY <1>2, <2>2 DEF discover_tv, Accept, Reject, Pass, discovery
      <3>2. CASE v \in Roots(heap)
        BY <3>1, <3>2
      <3>3. CASE pc = "places" /\ \E p \in Places(heap, cur) : Visits(p) /\ p.val = v
        <4>1. o \in Refs(heap, cur)
          BY <3>1, <3>3 DEF Refs
        <4>2. cur \in Obj /\ id'[cur] # 0 /\ id'[cur] < id'[o]
          BY <1>2, <1>3, <3>1, <3>3
        <4> QED BY <4>1, <4>2
      <3>4. v # Absent
        BY <1>1, <3>1, HeapFacts DEF TypeOK
      <3> QED BY <3>2, <3>3, <3>4
    <2> QED BY <2>1, <2>2
  <1>6. ErrorHasCause'
    <2>1. CASE error # "none"
      <3>1. PICK o \in Obj : id[o] # 0 /\ Offends(heap, o)
        BY <1>1, <2>1 DEF ErrorHasCause
      <3> QED BY <1>2, <3>1 DEF ErrorHasCause
    <2>2. CASE error = "none" /\ error' # "none"
      <3>1. Reject(v)
        BY <2>2 DEF discover_tv, Accept, Pass
      <3>2. \/ v \in Obj /\ ~is_serializable(heap, v)
            \/ v \in LightPtr
        BY <3>1 DEF Reject
      <3>3. v \notin Roots(heap) /\ v # Absent
        <4>1. heap \in Heaps
          BY <1>1 DEF TypeOK
        <4>2. /\ Absent \notin Obj /\ Absent \notin LightPtr
              /\ Obj \cap LightPtr = {}
              /\ \A i \in DOMAIN heap.roots : heap.roots[i] # Absent =>
                   /\ heap.roots[i] \in Obj
                   /\ heap.kind[heap.roots[i]] # "userdata"
          BY <4>1, HeapFacts
        <4> QED BY <3>2, <4>2 DEF Roots, is_serializable
      <3>4. PICK p \in Places(heap, cur) : Visits(p) /\ p.val = v
        BY <3>3
      <3>5. Offends(heap, cur)
        BY <3>2, <3>4 DEF Offends, Unsaveable
      <3> QED BY <1>2, <1>3, <3>3, <3>5 DEF ErrorHasCause
    <2> QED BY <2>1, <2>2 DEF ErrorHasCause
  <1>7. WrittenWithoutFault'
    BY <1>1 DEF WrittenWithoutFault, Phases
  <1>8. ASSUME NEW o \in Obj, o \in Processed'
        PROVE  o \in Processed
    <2>1. /\ id'[o] # 0 /\ id'[o] <= Len(ordered') - Len(queue')
      BY <1>8 DEF Processed, Known
    <2>2. id[o] # 0
      BY <1>1, <1>2, <2>1 DEF QueueIsUnprocessed
    <2> QED BY <1>2, <2>1, <2>2 DEF Processed, Known
  <1> QED BY <1>4, <1>5, <1>6, <1>7, <1>8

\* Discovering a root keeps it.
LEMMA RootStep == SaveInv /\ DiscoverRoot => SaveInv'
  <1> SUFFICES ASSUME SaveInv, DiscoverRoot PROVE SaveInv'
    OBVIOUS
  <1>1. /\ TypeOK /\ Phases /\ IdsAreStreamPositions
        /\ KnownAreSerializable /\ FollowedBehindCursor
    BY DEF SaveInv
  <1>2. /\ pc = "roots" /\ rootpos <= Len(heap.roots)
        /\ discover_tv(heap.roots[rootpos]) /\ rootpos' = rootpos + 1
        /\ heap' = heap /\ pc' = pc /\ cur' = cur /\ pos' = pos
        /\ stream' = stream /\ footer' = footer
    BY DEF DiscoverRoot, output
  <1>3. /\ rootpos \in DOMAIN heap.roots
        /\ heap.roots[rootpos] \in Obj \cup {Absent}
    BY <1>1, <1>2, HeapFacts DEF TypeOK
  <1>4. PICK v \in Value \cup {Absent} :
             v = heap.roots[rootpos] /\ (v = Absent \/ v \in Obj)
    BY <1>3 DEF Value
  <1>a. discover_tv(v) /\ (v \in Obj => v \in Roots(heap) \/ v = Absent)
    BY <1>2, <1>3, <1>4 DEF Roots
  <1>5. /\ id' \in [Obj -> Nat] /\ next_id' \in Nat \ {0}
        /\ ordered' \in Seq(Obj) /\ queue' \in Seq(Obj)
        /\ error' \in Reasons \cup {"none"}
        /\ IdsAreStreamPositions' /\ KnownAreSerializable'
        /\ Resolved(v)'
        /\ \A w : Resolved(w) => Resolved(w)'
    BY <1>1, <1>2, <1>4, <1>a, Discovery
  <1>6. /\ QueueIsUnprocessed' /\ EarlierReferrer'
        /\ ErrorHasCause' /\ WrittenWithoutFault'
        /\ \A o \in Obj : o \in Processed' => o \in Processed
    BY <1>2, <1>4, <1>a, DiscoveryKeeps
  <1>7. TypeOK'
    BY <1>1, <1>2, <1>5 DEF TypeOK
  <1>8. Phases'
    BY <1>1, <1>2 DEF Phases
  <1>9. FollowedBehindCursor'
    <2>1. ASSUME NEW i \in 1..(rootpos' - 1), i \in DOMAIN heap.roots
          PROVE  Resolved(heap.roots[i])'
      <3>1. CASE i = rootpos
        BY <1>2, <1>4, <1>5, <3>1 DEF Resolved
      <3>2. CASE i # rootpos
        <4>1. i \in 1..(rootpos - 1)
          BY <1>1, <1>2, <3>2 DEF TypeOK
        <4> QED BY <1>1, <1>2, <1>5, <2>1, <4>1 DEF FollowedBehindCursor
      <3> QED BY <3>1, <3>2
    <2>2. ASSUME NEW o \in Processed', NEW i \in DOMAIN heap.places[o],
                 Visits(heap.places[o][i]), o = cur => i < pos
          PROVE  Resolved(heap.places[o][i].val)'
      <3>1. o \in Processed
        BY <1>6 DEF Processed, Known
      <3>2. Resolved(heap.places[o][i].val)
        BY <1>1, <2>2, <3>1 DEF FollowedBehindCursor
      <3> QED BY <1>2, <1>5, <3>2 DEF Resolved
    <2> QED BY <1>2, <2>1, <2>2 DEF FollowedBehindCursor
  <1> QED BY <1>5, <1>6, <1>7, <1>8, <1>9 DEF SaveInv

\* The steps that move the control and leave ids, errors and records alone.
LEMMA ControlKeeps ==
  ASSUME SaveInv, UNCHANGED <<heap, id, next_id, ordered, error, stream>>
  PROVE  /\ IdsAreStreamPositions' /\ KnownAreSerializable'
         /\ EarlierReferrer' /\ ErrorHasCause' /\ WrittenWithoutFault'
  <1>1. /\ IdsAreStreamPositions /\ KnownAreSerializable /\ EarlierReferrer
        /\ ErrorHasCause /\ WrittenWithoutFault
    BY DEF SaveInv
  <1>2. /\ IdsAreStreamPositions' /\ KnownAreSerializable'
        /\ EarlierReferrer' /\ ErrorHasCause'
    BY <1>1 DEF IdsAreStreamPositions, KnownAreSerializable, EarlierReferrer,
                ErrorHasCause, Known
  <1>3. WrittenWithoutFault'
    <2>1. \A p : PlaceFault(p)' = PlaceFault(p)
      BY DEF PlaceFault
    <2> QED BY <1>1, <2>1 DEF WrittenWithoutFault
  <1> QED BY <1>2, <1>3

\* Following a place of the object at the cursor keeps it.
LEMMA PlaceStep == SaveInv /\ DiscoverPlace => SaveInv'
  <1> SUFFICES ASSUME SaveInv, DiscoverPlace PROVE SaveInv'
    OBVIOUS
  <1>1. /\ TypeOK /\ Phases /\ IdsAreStreamPositions /\ QueueIsUnprocessed
        /\ KnownAreSerializable /\ FollowedBehindCursor /\ EarlierReferrer
        /\ ErrorHasCause /\ WrittenWithoutFault
    BY DEF SaveInv
  <1>2. /\ pc = "places" /\ pos <= Len(heap.places[cur]) /\ cur \in Obj
        /\ pos' = pos + 1 /\ rootpos' = rootpos
        /\ heap' = heap /\ pc' = pc /\ cur' = cur
        /\ stream' = stream /\ footer' = footer
    BY <1>1 DEF DiscoverPlace, output, TypeOK
  <1>3. /\ pos \in DOMAIN heap.places[cur]
        /\ heap.places[cur][pos] \in Place
    BY <1>1, <1>2, HeapFacts DEF TypeOK
  <1>4. PICK v \in Value \cup {Absent} : v = heap.places[cur][pos].val
    BY <1>3 DEF Place
  <1>5. CASE Visits(heap.places[cur][pos])
    <2>1. discover_tv(v)
      BY <1>4, <1>5 DEF DiscoverPlace
    <2>2. \E p \in Places(heap, cur) : Visits(p) /\ p.val = v
      BY <1>3, <1>4, <1>5 DEF Places
    <2>3. /\ id' \in [Obj -> Nat] /\ next_id' \in Nat \ {0}
          /\ ordered' \in Seq(Obj) /\ queue' \in Seq(Obj)
          /\ error' \in Reasons \cup {"none"}
          /\ IdsAreStreamPositions' /\ KnownAreSerializable'
          /\ Resolved(v)'
          /\ \A w : Resolved(w) => Resolved(w)'
      BY <1>1, <1>2, <2>1, Discovery
    <2>4. /\ QueueIsUnprocessed' /\ EarlierReferrer'
          /\ ErrorHasCause' /\ WrittenWithoutFault'
          /\ \A o \in Obj : o \in Processed' => o \in Processed
      BY <1>2, <2>1, <2>2, DiscoveryKeeps
    <2>5. TypeOK'
      BY <1>1, <1>2, <2>3 DEF TypeOK
    <2>6. Phases'
      BY <1>1, <1>2 DEF Phases
    <2>7. FollowedBehindCursor'
      <3>1. ASSUME NEW i \in 1..(rootpos - 1), i \in DOMAIN heap.roots
            PROVE  Resolved(heap.roots[i])'
        <4>1. Resolved(heap.roots[i])
          BY <1>1, <3>1 DEF FollowedBehindCursor
        <4> QED BY <1>2, <2>3, <4>1 DEF Resolved
      <3>2. ASSUME NEW o \in Processed', NEW i \in DOMAIN heap.places[o],
                   Visits(heap.places[o][i]), o = cur => i < pos + 1
            PROVE  Resolved(heap.places[o][i].val)'
        <4>1. o \in Processed
          BY <2>4 DEF Processed, Known
        <4>2. CASE o = cur /\ i = pos
          BY <1>2, <1>4, <2>3, <4>2 DEF Resolved
        <4>3. CASE ~(o = cur /\ i = pos)
          <5>1. o = cur => i < pos
            <6>1. o = cur => i \in Nat
              BY <1>1, <1>2, <3>2, HeapFacts DEF TypeOK
            <6> QED BY <1>1, <3>2, <4>3, <6>1 DEF TypeOK
          <5>2. Resolved(heap.places[o][i].val)
            BY <1>1, <3>2, <4>1, <5>1 DEF FollowedBehindCursor
          <5> QED BY <1>2, <2>3, <5>2 DEF Resolved
        <4> QED BY <4>2, <4>3
      <3> QED BY <1>2, <3>1, <3>2 DEF FollowedBehindCursor
    <2> QED BY <2>3, <2>4, <2>5, <2>6, <2>7 DEF SaveInv
  <1>6. CASE ~Visits(heap.places[cur][pos])
    <2>1. UNCHANGED <<id, next_id, ordered, queue, error>>
      BY <1>6 DEF DiscoverPlace, discovery
    <2>2. TypeOK' /\ Phases'
      BY <1>1, <1>2, <2>1 DEF TypeOK, Phases
    <2>3. FollowedBehindCursor'
      <3>1. ASSUME NEW i \in 1..(rootpos - 1), i \in DOMAIN heap.roots
            PROVE  Resolved(heap.roots[i])'
        BY <1>1, <1>2, <2>1, <3>1 DEF FollowedBehindCursor, Resolved
      <3>2. ASSUME NEW o \in Processed, NEW i \in DOMAIN heap.places[o],
                   Visits(heap.places[o][i]), o = cur => i < pos + 1
            PROVE  Resolved(heap.places[o][i].val)'
        <4>1. o = cur => i < pos
          <5>1. o = cur => i \in Nat
            BY <1>1, <1>2, <3>2, HeapFacts, SMTT(30) DEF TypeOK
          <5> QED BY <1>1, <1>6, <3>2, <5>1 DEF TypeOK
        <4>2. Resolved(heap.places[o][i].val)
          BY <1>1, <3>2, <4>1 DEF FollowedBehindCursor
        <4> QED BY <1>2, <2>1, <4>2 DEF Resolved
      <3> QED BY <1>2, <2>1, <3>1, <3>2 DEF FollowedBehindCursor, Processed, Known
    <2>4. QueueIsUnprocessed'
      BY <1>1, <1>2, <2>1 DEF QueueIsUnprocessed
    <2> QED BY <1>2, <2>1, <2>2, <2>3, <2>4, ControlKeeps DEF SaveInv
  <1> QED BY <1>5, <1>6

\* So does the end of the roots,
LEMMA EndRootsStep == SaveInv /\ EndRoots => SaveInv'
  <1> SUFFICES ASSUME SaveInv, EndRoots PROVE SaveInv'
    OBVIOUS
  <1>1. /\ pc = "roots" /\ rootpos > Len(heap.roots) /\ pc' = "pop"
        /\ UNCHANGED <<heap, id, next_id, ordered, queue, rootpos, cur, pos,
                       error, stream, footer>>
    BY DEF EndRoots, discovery, output
  <1>2. TypeOK' /\ Phases'
    BY <1>1 DEF SaveInv, TypeOK, Phases, PCs
  <1>3. QueueIsUnprocessed' /\ FollowedBehindCursor'
    BY <1>1 DEF SaveInv, QueueIsUnprocessed, FollowedBehindCursor, Processed,
                Known, Resolved
  <1> QED BY <1>1, <1>2, <1>3, ControlKeeps DEF SaveInv

\* taking an object from the queue,
LEMMA PopStep == SaveInv /\ PopObj => SaveInv'
  <1> SUFFICES ASSUME SaveInv, PopObj PROVE SaveInv'
    OBVIOUS
  <1>1. /\ TypeOK /\ Phases /\ IdsAreStreamPositions /\ QueueIsUnprocessed
        /\ FollowedBehindCursor
    BY DEF SaveInv
  <1>2. /\ pc = "pop" /\ queue # << >> /\ cur' = Head(queue)
        /\ queue' = Tail(queue) /\ pos' = 1 /\ pc' = "places"
        /\ UNCHANGED <<heap, id, next_id, ordered, rootpos, error, stream,
                       footer>>
    BY DEF PopObj, output
  <1>3. /\ ordered \in Seq(Obj) /\ queue \in Seq(Obj)
        /\ Len(queue) \in Nat \ {0} /\ Len(ordered) \in Nat
        /\ DOMAIN queue = 1..Len(queue) /\ DOMAIN ordered = 1..Len(ordered)
        /\ Head(queue) = queue[1] /\ Head(queue) \in Obj
        /\ Tail(queue) \in Seq(Obj) /\ Len(Tail(queue)) = Len(queue) - 1
        /\ \A i \in 1..(Len(queue) - 1) : Tail(queue)[i] = queue[i + 1]
    BY <1>1, <1>2 DEF TypeOK
  <1>4. TypeOK' /\ Phases'
    BY <1>1, <1>2, <1>3 DEF TypeOK, Phases, PCs
  <1>5. /\ cur' = ordered[Len(ordered) - Len(queue) + 1]
        /\ id[cur'] = Len(ordered) - Len(queue) + 1
    <2>1. cur' = ordered[Len(ordered) - Len(queue) + 1]
      BY <1>1, <1>2, <1>3 DEF QueueIsUnprocessed
    <2>2. Len(ordered) - Len(queue) + 1 \in DOMAIN ordered
      BY <1>1, <1>3 DEF QueueIsUnprocessed
    <2> QED BY <1>1, <2>1, <2>2 DEF IdsAreStreamPositions
  <1>6. QueueIsUnprocessed'
    <2>1. Len(queue') < Len(ordered')
      BY <1>1, <1>2, <1>3 DEF QueueIsUnprocessed
    <2>2. cur' = ordered'[Len(ordered') - Len(queue')]
      BY <1>2, <1>3, <1>5
    <2>3. ASSUME NEW i \in DOMAIN queue'
          PROVE  queue'[i] = ordered'[Len(ordered') - Len(queue') + i]
      <3>1. i \in 1..(Len(queue) - 1)
        BY <1>2, <1>3
      <3>2. queue'[i] = queue[i + 1] /\ i + 1 \in DOMAIN queue
        BY <1>2, <1>3, <3>1
      <3>3. queue[i + 1] = ordered[Len(ordered) - Len(queue) + (i + 1)]
        BY <1>1, <3>2 DEF QueueIsUnprocessed
      <3> QED BY <1>2, <1>3, <3>1, <3>2, <3>3
    <2> QED BY <1>3, <1>2, <2>1, <2>2, <2>3 DEF QueueIsUnprocessed
  <1>7. FollowedBehindCursor'
    <2>1. ASSUME NEW o \in Processed', NEW i \in DOMAIN heap.places[o],
                 Visits(heap.places[o][i]), o = cur' => i < pos'
          PROVE  Resolved(heap.places[o][i].val)'
      <3>1. o \in Obj /\ id[o] # 0 /\ id[o] <= Len(ordered) - Len(queue) + 1
        BY <1>2, <1>3 DEF Processed, Known
      <3>2. CASE id[o] <= Len(ordered) - Len(queue)
        <4>1. o \in Processed /\ o # cur
          <5>1. cur = Absent /\ Absent \notin Obj
            BY <1>1, <1>2, HeapFacts DEF Phases, TypeOK
          <5> QED BY <3>1, <3>2, <5>1 DEF Processed, Known
        <4>2. Resolved(heap.places[o][i].val)
          BY <1>1, <2>1, <4>1 DEF FollowedBehindCursor
        <4> QED BY <1>2, <4>2 DEF Resolved
      <3>3. CASE id[o] = Len(ordered) - Len(queue) + 1
        <4>1. o = ordered[id[o]]
          BY <1>1, <3>1 DEF IdsAreStreamPositions, Known
        <4>2. o = cur'
          BY <1>5, <3>3, <4>1
        <4>3. i \in Nat \ {0}
          BY <1>1, <2>1, <3>1, HeapFacts DEF TypeOK
        <4> QED BY <1>2, <2>1, <4>2, <4>3
      <3> QED BY <1>1, <1>3, <3>1, <3>2, <3>3 DEF TypeOK
    <2>2. ASSUME NEW i \in 1..(rootpos - 1), i \in DOMAIN heap.roots
          PROVE  Resolved(heap.roots[i])'
      BY <1>1, <1>2, <2>2 DEF FollowedBehindCursor, Resolved
    <2> QED BY <1>2, <2>1, <2>2 DEF FollowedBehindCursor
  <1> QED BY <1>2, <1>4, <1>6, <1>7, ControlKeeps DEF SaveInv

\* the end of an object,
LEMMA EndObjStep == SaveInv /\ EndObj => SaveInv'
  <1> SUFFICES ASSUME SaveInv, EndObj PROVE SaveInv'
    OBVIOUS
  <1>1. /\ TypeOK /\ Phases /\ QueueIsUnprocessed /\ FollowedBehindCursor
    BY DEF SaveInv
  <1>2. /\ pc = "places" /\ pos > Len(heap.places[cur]) /\ cur \in Obj
        /\ pc' = "pop" /\ cur' = Absent
        /\ UNCHANGED <<heap, id, next_id, ordered, queue, rootpos, pos,
                       error, stream, footer>>
    BY <1>1 DEF EndObj, discovery, output, TypeOK
  <1>3. TypeOK' /\ Phases'
    BY <1>1, <1>2 DEF TypeOK, Phases, PCs
  <1>4. QueueIsUnprocessed'
    BY <1>1, <1>2 DEF QueueIsUnprocessed
  <1>5. FollowedBehindCursor'
    <2>1. ASSUME NEW o \in Processed, NEW i \in DOMAIN heap.places[o],
                 Visits(heap.places[o][i])
          PROVE  Resolved(heap.places[o][i].val)'
      <3>1. o = cur => i < pos
        BY <1>1, <1>2, <2>1, HeapFacts DEF TypeOK
      <3>2. Resolved(heap.places[o][i].val)
        BY <1>1, <2>1, <3>1 DEF FollowedBehindCursor
      <3> QED BY <1>2, <3>2 DEF Resolved
    <2>2. ASSUME NEW i \in 1..(rootpos - 1), i \in DOMAIN heap.roots
          PROVE  Resolved(heap.roots[i])'
      BY <1>1, <1>2, <2>2 DEF FollowedBehindCursor, Resolved
    <2> QED BY <1>2, <2>1, <2>2 DEF FollowedBehindCursor, Processed, Known
  <1> QED BY <1>2, <1>3, <1>4, <1>5, ControlKeeps DEF SaveInv

\* The steps after discovery: ids and work-list no longer change.
LEMMA WritingKeeps ==
  ASSUME SaveInv, pc # "places", pc' # "places", error # "none" => error' # "none",
         UNCHANGED <<heap, id, next_id, ordered, queue, rootpos, cur, pos>>
  PROVE  /\ IdsAreStreamPositions' /\ KnownAreSerializable'
         /\ EarlierReferrer' /\ QueueIsUnprocessed' /\ FollowedBehindCursor'
  <1>1. /\ IdsAreStreamPositions' /\ KnownAreSerializable'
        /\ EarlierReferrer' /\ QueueIsUnprocessed'
    BY DEF SaveInv, IdsAreStreamPositions, KnownAreSerializable,
           EarlierReferrer, QueueIsUnprocessed, Known
  <1>2. \A w : Resolved(w) => Resolved(w)'
    BY DEF Resolved
  <1>3. FollowedBehindCursor'
    <2>1. ASSUME NEW o \in Processed, NEW i \in DOMAIN heap.places[o],
                 Visits(heap.places[o][i]), o = cur => i < pos
          PROVE  Resolved(heap.places[o][i].val)'
      <3>1. Resolved(heap.places[o][i].val)
        BY <2>1 DEF SaveInv, FollowedBehindCursor
      <3> QED BY <3>1, <1>2 DEF Resolved
    <2>2. ASSUME NEW i \in 1..(rootpos - 1), i \in DOMAIN heap.roots
          PROVE  Resolved(heap.roots[i])'
      BY <1>2, <2>2 DEF SaveInv, FollowedBehindCursor, Resolved
    <2> QED BY <2>1, <2>2 DEF FollowedBehindCursor, Processed, Known
  <1> QED BY <1>1, <1>3

\* the decision to write or to refuse,
LEMMA EndDiscoveryStep == SaveInv /\ EndDiscovery => SaveInv'
  <1> SUFFICES ASSUME SaveInv, EndDiscovery PROVE SaveInv'
    OBVIOUS
  <1>1. /\ pc = "pop" /\ queue = << >>
        /\ pc' = IF error = "none" THEN "write" ELSE "failed"
        /\ UNCHANGED <<heap, id, next_id, ordered, queue, rootpos, cur, pos,
                       error, stream, footer>>
    BY DEF EndDiscovery, discovery, output
  <1>2. TypeOK' /\ Phases'
    BY <1>1 DEF SaveInv, TypeOK, Phases, PCs
  <1> QED BY <1>1, <1>2, ControlKeeps, WritingKeeps DEF SaveInv

\* With the work-list empty, everything a known object refers to is resolved.
LEMMA FollowedAtEnd ==
  ASSUME SaveInv, pc # "roots", pc # "places", queue = << >>
  PROVE  /\ \A o \in Obj : id[o] # 0 =>
              \A i \in DOMAIN heap.places[o] :
                Visits(heap.places[o][i]) => Resolved(heap.places[o][i].val)
         /\ \A i \in DOMAIN heap.roots : Resolved(heap.roots[i])
  <1>1. /\ TypeOK /\ Phases /\ IdsAreStreamPositions /\ FollowedBehindCursor
    BY DEF SaveInv
  <1>2. cur \notin Obj
    BY <1>1, HeapFacts DEF Phases, TypeOK
  <1>3. ASSUME NEW o \in Obj, id[o] # 0, NEW i \in DOMAIN heap.places[o],
               Visits(heap.places[o][i])
        PROVE  Resolved(heap.places[o][i].val)
    <2>1. id[o] \in DOMAIN ordered /\ Len(queue) = 0
      BY <1>1, <1>3 DEF IdsAreStreamPositions, Known
    <2>2. o \in Processed
      BY <1>1, <1>3, <2>1 DEF Processed, Known, TypeOK
    <2> QED BY <1>1, <1>2, <1>3, <2>2 DEF FollowedBehindCursor
  <1>4. ASSUME NEW i \in DOMAIN heap.roots
        PROVE  Resolved(heap.roots[i])
    <2>1. i \in 1..(rootpos - 1)
      BY <1>1, <1>4, HeapFacts DEF Phases, TypeOK
    <2> QED BY <1>1, <2>1 DEF FollowedBehindCursor
  <1> QED BY <1>3, <1>4

\* A record has the type the loader expects of one.
LEMMA RecordType ==
  ASSUME TypeOK, NEW o \in Obj
  PROVE  Record(o) \in StreamRecord
  <1>1. ASSUME NEW v \in Value \cup {Absent}
        PROVE  Wire(v) \in WireValue
    <2>1. CASE v \in Obj \cup {Absent}
      BY <2>1 DEF Wire, WireValue, ser_get_id, TypeOK
    <2>2. CASE v \notin Obj \cup {Absent} /\ v \in CFunction
      BY <2>2 DEF Wire, WireValue
    <2>3. CASE v \notin Obj \cup {Absent} /\ v \notin CFunction
      BY <2>3 DEF Wire, WireValue, Value
    <2> QED BY <2>1, <2>2, <2>3
  <1>2. ASSUME NEW p \in Place
        PROVE  WirePlace(p) \in [role : Roles, tag : Kinds \cup {"none"},
                                 val : WireValue]
    <2>1. /\ p.val \in Value \cup {Absent} /\ p.role \in Roles
          /\ Wire(p.val) \in WireValue
      BY <1>1 DEF Place
    <2>2. <<"id", 0>> \in WireValue
      BY DEF WireValue
    <2>3. p.val # Absent => <<"kont", p.val>> \in WireValue
      BY <2>1 DEF WireValue
    <2>4. WirePlace(p).val \in WireValue
      BY <2>1, <2>2, <2>3 DEF WirePlace
    <2>5. TagOf(p) \in Kinds \cup {"none"}
      BY HeapFacts DEF TagOf, TypeOK
    <2> QED BY <2>1, <2>4, <2>5 DEF WirePlace
  <1>3. heap.kind[o] \in Kinds /\ heap.places[o] \in Seq(Place)
    BY HeapFacts DEF TypeOK
  <1>4. [i \in DOMAIN heap.places[o] |-> WirePlace(heap.places[o][i])]
          \in Seq([role : Roles, tag : Kinds \cup {"none"}, val : WireValue])
    <2> DEFINE ps == heap.places[o]
               R  == [role : Roles, tag : Kinds \cup {"none"}, val : WireValue]
    <2>1. DOMAIN ps = 1..Len(ps) /\ Len(ps) \in Nat
      BY <1>3
    <2>2. \A i \in 1..Len(ps) : WirePlace(ps[i]) \in R
      BY <1>2, <1>3
    <2> HIDE DEF ps, R
    <2>3. [i \in 1..Len(ps) |-> WirePlace(ps[i])] \in Seq(R)
      BY <2>1, <2>2
    <2> QED BY <2>1, <2>3 DEF ps, R
  <1> QED BY <1>3, <1>4 DEF Record, StreamRecord

\* writing a record, with or without an error,
LEMMA WriteObjStep == SaveInv /\ WriteObj => SaveInv'
  <1> SUFFICES ASSUME SaveInv, WriteObj PROVE SaveInv'
    OBVIOUS
  <1> DEFINE o == ordered[Len(stream) + 1]
  <1>1. /\ TypeOK /\ Phases /\ IdsAreStreamPositions /\ WrittenWithoutFault
        /\ ErrorHasCause
    BY DEF SaveInv
  <1>2. /\ pc = "write" /\ error = "none" /\ Len(stream) < Len(ordered)
        /\ stream' = Append(stream, Record(o))
        /\ UNCHANGED <<heap, pc, id, next_id, ordered, queue, rootpos, cur,
                       pos, footer>>
    BY DEF WriteObj, discovery
  <1>3. PICK reason \in WriteFaults(o) :
             error' = IF reason = "none" THEN error ELSE Latched(reason)
    BY DEF WriteObj
  <1>4. /\ Len(stream) \in Nat /\ Len(stream') = Len(stream) + 1
        /\ Len(stream) + 1 \in DOMAIN ordered
        /\ o \in Obj /\ id[o] # 0
    <2>1. Len(stream) \in Nat /\ ordered \in Seq(Obj)
      BY <1>1 DEF WrittenWithoutFault, TypeOK
    <2>2. Len(stream) + 1 \in DOMAIN ordered
      BY <1>2, <2>1
    <2>3. o \in Obj /\ id[o] = Len(stream) + 1
      BY <1>1, <2>1, <2>2 DEF IdsAreStreamPositions
    <2>4. Len(stream') = Len(stream) + 1
      BY <1>1, <1>2 DEF TypeOK
    <2> QED BY <2>1, <2>2, <2>3, <2>4
  <1>5. reason = "none" => /\ o \notin heap.huge
                           /\ \A i \in DOMAIN heap.places[o] :
                                PlaceFault(heap.places[o][i]) = "none"
    BY <1>3 DEF WriteFaults
  <1>6. reason \in Reasons \cup {"none"}
    BY <1>3 DEF WriteFaults, PlaceFault, Reasons
  <1>7. error' = reason
    BY <1>2, <1>3 DEF Latched
  <1>8. TypeOK'
    <2>1. Record(o) \in StreamRecord
      BY <1>1, <1>4, RecordType
    <2>2. stream' \in Seq(StreamRecord)
      BY <1>1, <1>2, <2>1 DEF TypeOK
    <2> QED BY <1>1, <1>2, <1>6, <1>7, <2>2 DEF TypeOK
  <1>9. Phases'
    BY <1>1, <1>2 DEF Phases
  <1>10. reason # "none" => Offends(heap, o)
    <2> SUFFICES ASSUME reason # "none" PROVE Offends(heap, o)
      OBVIOUS
    <2>1. CASE \E i \in DOMAIN heap.places[o] :
                 PlaceFault(heap.places[o][i]) # "none"
      <3>1. PICK i \in DOMAIN heap.places[o] :
                   PlaceFault(heap.places[o][i]) # "none"
        BY <2>1
      <3>2. heap.places[o][i] \in Places(heap, o)
        BY <3>1 DEF Places
      <3>3. Unsaveable(heap, heap.places[o][i])
        <4> DEFINE p == heap.places[o][i]
        <4>1. p.role \in Tagged => (p.role \notin {"deadkey", "open", "frame"})
          BY DEF Tagged
        <4>2. p.val \in Obj \cup LightPtr => p.val # Absent
          BY <1>1, HeapFacts DEF TypeOK
        <4>3. ASSUME p.val \in Obj, id[p.val] = 0, p.role \in Tagged
              PROVE  ~is_serializable(heap, p.val)
          <5>1. queue = << >> /\ Visits(p)
            BY <1>1, <1>2, <4>1, <4>2, <4>3 DEF Phases, Visits
          <5>2. Resolved(p.val)
            BY <1>2, <1>4, <3>1, <5>1, FollowedAtEnd
          <5> QED BY <1>1, <1>2, <4>3, <5>2, HeapFacts DEF Resolved, TypeOK
        <4> QED BY <3>1, <4>1, <4>2, <4>3 DEF PlaceFault, Unsaveable, Visits
      <3> QED BY <3>2, <3>3 DEF Offends
    <2>2. CASE \A i \in DOMAIN heap.places[o] :
                 PlaceFault(heap.places[o][i]) = "none"
      BY <1>3, <2>2 DEF WriteFaults, Offends
    <2> QED BY <2>1, <2>2
  <1>11. ErrorHasCause'
    BY <1>2, <1>4, <1>7, <1>10 DEF ErrorHasCause
  <1>12. WrittenWithoutFault'
    <2>1. \A p : PlaceFault(p)' = PlaceFault(p)
      BY <1>2 DEF PlaceFault
    <2>2. ASSUME error' = "none", NEW k \in 1..Len(stream'), k <= Len(ordered)
          PROVE  /\ ordered[k] \notin heap.huge
                 /\ \A i \in DOMAIN heap.places[ordered[k]] :
                      PlaceFault(heap.places[ordered[k]][i]) = "none"
      <3>1. CASE k = Len(stream) + 1
        BY <1>5, <1>7, <2>2, <3>1
      <3>2. CASE k # Len(stream) + 1
        <4>1. k \in 1..Len(stream)
          BY <1>4, <3>2
        <4> QED BY <1>1, <1>2, <2>2, <4>1 DEF WrittenWithoutFault
      <3> QED BY <3>1, <3>2
    <2> QED BY <1>2, <1>4, <2>1, <2>2 DEF WrittenWithoutFault
  <1> QED BY <1>1, <1>2, <1>8, <1>9, <1>11, <1>12, WritingKeeps DEF SaveInv

\* writing the roots,
LEMMA WriteRootsStep == SaveInv /\ WriteRoots => SaveInv'
  <1> SUFFICES ASSUME SaveInv, WriteRoots PROVE SaveInv'
    OBVIOUS
  <1>1. /\ TypeOK /\ Phases
    BY DEF SaveInv
  <1>2. /\ pc = "write" /\ pc' = "footer"
        /\ error # "none" \/ Len(stream) = Len(ordered)
        /\ footer' = [i \in DOMAIN heap.roots |-> ser_get_id(heap.roots[i])]
        /\ UNCHANGED <<heap, id, next_id, ordered, queue, rootpos, cur, pos,
                       error, stream>>
    BY DEF WriteRoots, discovery
  <1>3. footer' \in Seq(Nat)
    <2>1. heap.roots \in Seq(Obj \cup {Absent}) /\ id \in [Obj -> Nat]
      BY <1>1, HeapFacts DEF TypeOK
    <2> QED BY <1>2, <2>1 DEF ser_get_id
  <1>4. TypeOK' /\ Phases'
    BY <1>1, <1>2, <1>3 DEF TypeOK, Phases, PCs
  <1> QED BY <1>2, <1>4, ControlKeeps, WritingKeeps DEF SaveInv

\* and returning.
LEMMA ReturnStep == SaveInv /\ Return => SaveInv'
  <1> SUFFICES ASSUME SaveInv, Return PROVE SaveInv'
    OBVIOUS
  <1>1. /\ TypeOK /\ Phases /\ ErrorHasCause /\ WrittenWithoutFault
    BY DEF SaveInv
  <1>2. /\ pc = "footer"
        /\ UNCHANGED <<heap, id, next_id, ordered, queue, rootpos, cur, pos,
                       error>>
    BY DEF Return, discovery
  <1>3. CASE error = "none"
    <2>1. pc' = "done" /\ UNCHANGED <<stream, footer>>
      BY <1>3 DEF Return, output
    <2>2. TypeOK' /\ Phases'
      BY <1>1, <1>2, <1>3, <2>1 DEF TypeOK, Phases, PCs
    <2> QED BY <1>2, <2>1, <2>2, ControlKeeps, WritingKeeps DEF SaveInv
  <1>4. CASE error # "none"
    <2>1. pc' = "failed" /\ stream' = << >> /\ footer' = << >>
      BY <1>4 DEF Return
    <2>2. TypeOK' /\ Phases'
      BY <1>1, <1>2, <1>4, <2>1 DEF TypeOK, Phases, PCs
    <2>3. ErrorHasCause' /\ WrittenWithoutFault'
      BY <1>1, <1>2, <1>4, <2>1 DEF ErrorHasCause, WrittenWithoutFault
    <2> QED BY <1>2, <1>4, <2>1, <2>2, <2>3, WritingKeeps DEF SaveInv
  <1> QED BY <1>3, <1>4

\* The invariant is inductive.
LEMMA NextKeepsInv == SaveInv /\ [Next]_vars => SaveInv'
  <1> SUFFICES ASSUME SaveInv, [Next]_vars PROVE SaveInv'
    OBVIOUS
  <1>1. CASE UNCHANGED vars
    <2>1. UNCHANGED <<heap, pc, id, next_id, ordered, queue, rootpos, cur, pos,
                      error, stream, footer>>
      BY <1>1 DEF vars
    <2>2. TypeOK' /\ Phases' /\ QueueIsUnprocessed'
      BY <2>1 DEF SaveInv, TypeOK, Phases, QueueIsUnprocessed
    <2>3. FollowedBehindCursor'
      BY <2>1 DEF SaveInv, FollowedBehindCursor, Processed, Known, Resolved
    <2> QED BY <2>1, <2>2, <2>3, ControlKeeps DEF SaveInv
  <1> QED BY <1>1, RootStep, EndRootsStep, PopStep, PlaceStep, EndObjStep,
             EndDiscoveryStep, WriteObjStep, WriteRootsStep, ReturnStep
          DEF Next

(***************************************************************************)
(* The invariants of the run of lstasis_save, whatever the heaps: types,   *)
(* ids that are stream positions, a work-list that holds exactly what is    *)
(* discovered and not processed, nothing skipped behind the cursor, and     *)
(* nothing gathered that no root leads to.                                  *)
(***************************************************************************)
THEOREM SaveInvariant == Spec => []SaveInv
  <1>1. Init => SaveInv
    BY InitInv
  <1>2. SaveInv /\ [Next]_vars => SaveInv'
    BY NextKeepsInv
  <1> QED BY <1>1, <1>2, PTL DEF Spec

\* The types of the variables of lstasis_save in every reachable state.
THEOREM TypeCorrect == Spec => []TypeOK
  <1>1. SaveInv => TypeOK
    BY DEF SaveInv
  <1> QED BY <1>1, SaveInvariant, PTL

\* Ids are stream positions, and pointer map and object array are inverse.
THEOREM IdsAreDense == Spec => []IdsAreStreamPositions
  <1>1. SaveInv => IdsAreStreamPositions
    BY DEF SaveInv
  <1> QED BY <1>1, SaveInvariant, PTL

\* Discovery skips nothing, whatever cycles and sharing the heap has.
THEOREM NothingSkipped == Spec => []FollowedBehindCursor
  <1>1. SaveInv => FollowedBehindCursor
    BY DEF SaveInv
  <1> QED BY <1>1, SaveInvariant, PTL

\* The first error is the one reported (ser_fail's early return).
THEOREM FirstErrorWins == Spec => FirstErrorKept
  <1>1. SaveInv /\ [Next]_vars => [error # "none" => error' = error]_vars
    <2> SUFFICES ASSUME SaveInv, [Next]_vars, error # "none"
                 PROVE  error' = error
      OBVIOUS
    <2>1. ASSUME NEW v, discover_tv(v)
          PROVE  error' = error
      BY <2>1 DEF discover_tv, Accept, Reject, Pass, Latched
    <2>2. CASE UNCHANGED vars
      BY <2>2 DEF vars
    <2>3. CASE DiscoverRoot
      BY <2>3 DEF DiscoverRoot, discover_tv, Accept, Reject, Pass, Latched
    <2>4. CASE DiscoverPlace
      BY <2>4 DEF DiscoverPlace, discover_tv, Accept, Reject, Pass, Latched
    <2>5. CASE EndRoots \/ PopObj \/ EndObj \/ EndDiscovery \/ WriteRoots \/ Return
      BY <2>5 DEF EndRoots, PopObj, EndObj, EndDiscovery, WriteRoots, Return
    <2>6. CASE WriteObj
      BY <2>6 DEF WriteObj
    <2> QED BY <2>2, <2>3, <2>4, <2>5, <2>6 DEF Next
  <1> QED BY <1>1, SaveInvariant, PTL DEF Spec, FirstErrorKept

\* After a successful write pass nothing known lacks a form.
LEMMA NothingOffends ==
  ASSUME SaveInv, pc \in {"footer", "done"}, error = "none"
  PROVE  /\ Roots(heap) \subseteq Known
         /\ \A o \in Known : Refs(heap, o) \subseteq Known /\ ~Offends(heap, o)
  <1>1. /\ TypeOK /\ Phases /\ IdsAreStreamPositions /\ WrittenWithoutFault
    BY DEF SaveInv
  <1>2. queue = << >> /\ Len(stream) = Len(ordered) /\ heap \in Heaps
    BY <1>1 DEF Phases, TypeOK
  <1>3. /\ \A o \in Obj : id[o] # 0 =>
              \A i \in DOMAIN heap.places[o] :
                Visits(heap.places[o][i]) => Resolved(heap.places[o][i].val)
        /\ \A i \in DOMAIN heap.roots : Resolved(heap.roots[i])
    BY <1>2, FollowedAtEnd
  <1>4. \A v : Resolved(v) => /\ v \in Obj => id[v] # 0
                              /\ v \notin LightPtr
    BY <1>2, HeapFacts DEF Resolved
  <1>5. Roots(heap) \subseteq Known
    BY <1>2, <1>3, <1>4, HeapFacts DEF Roots, Known
  <1>6. ASSUME NEW o \in Known
        PROVE  Refs(heap, o) \subseteq Known
    BY <1>3, <1>4, <1>6 DEF Refs, Places, Known
  <1>7. ASSUME NEW o \in Known, Offends(heap, o)
        PROVE  FALSE
    <2>1. /\ id[o] \in 1..Len(stream) /\ id[o] <= Len(ordered)
          /\ ordered[id[o]] = o /\ o \in Obj /\ id[o] # 0
      BY <1>1, <1>2, <1>7 DEF IdsAreStreamPositions, Known, TypeOK
    <2>2. /\ o \notin heap.huge
          /\ \A i \in DOMAIN heap.places[o] :
               PlaceFault(heap.places[o][i]) = "none"
      BY <1>1, <2>1 DEF WrittenWithoutFault
    <2>3. PICK i \in DOMAIN heap.places[o], p \in Places(heap, o) :
               p = heap.places[o][i] /\ Unsaveable(heap, p)
      BY <1>7, <2>2 DEF Offends, Places
    <2>4. CASE /\ Visits(p)
               /\ \/ p.val \in LightPtr
                  \/ p.val \in Obj /\ ~is_serializable(heap, p.val)
      <3>1. Resolved(p.val)
        BY <1>3, <2>1, <2>3, <2>4
      <3>2. p.val \in Obj /\ id[p.val] # 0
        BY <1>4, <2>4, <3>1
      <3> QED BY <1>4, <2>4, <3>1, <3>2 DEF SaveInv, KnownAreSerializable
    <2>5. PlaceFault(p) = "none"
      BY <2>2, <2>3
    <2>6. CASE p.role = "uservalue"
      BY <2>5, <2>6 DEF PlaceFault
    <2>7. CASE p.role = "kont" /\ p.val \notin BuiltinKonts \cup {Absent}
      BY <2>5, <2>7 DEF PlaceFault
    <2>8. CASE /\ p.role \in Tagged \cup {"cfn"}
               /\ p.val \in CFunction /\ NameOf[p.val] = Absent
      BY <2>5, <2>8 DEF PlaceFault
    <2> QED BY <2>3, <2>4, <2>6, <2>7, <2>8 DEF Unsaveable
  <1> QED BY <1>5, <1>6, <1>7

\* Hence the outcome of a save is the heap's.
LEMMA InvMatchesHeap == SaveInv => OutcomeMatchesHeap
  <1> SUFFICES ASSUME SaveInv PROVE OutcomeMatchesHeap
    OBVIOUS
  <1>1. ASSUME pc = "done" PROVE \A o \in Known : ~Offends(heap, o)
    <2>1. error = "none"
      BY <1>1 DEF SaveInv, Phases
    <2> QED BY <1>1, <2>1, NothingOffends
  <1>2. ASSUME error # "none" PROVE \E o \in Known : Offends(heap, o)
    BY <1>2 DEF SaveInv, ErrorHasCause, Known
  <1> QED BY <1>1, <1>2 DEF OutcomeMatchesHeap

(***************************************************************************)
(* A save fails because of an object it found that has no form in a         *)
(* snapshot, and succeeds only when it found none (ser_fail is called for   *)
(* every value write_tv and the wobj_* functions cannot write).             *)
(***************************************************************************)
THEOREM OutcomeIsTheHeaps == Spec => []OutcomeMatchesHeap
  <1>1. SaveInv => OutcomeMatchesHeap
    BY InvMatchesHeap
  <1> QED BY <1>1, SaveInvariant, PTL

(***************************************************************************)
(* What a saved object makes the collector keep is saved with it, in every  *)
(* heap in which the threads of the open upvalues are met: discover_all     *)
(* does not look behind an open upvalue, and needs not then.                *)
(***************************************************************************)
LEMMA DoneHoldsAllLive ==
  ASSUME OwnersAreMet
  PROVE  SaveInv => SnapshotHoldsAllLive
  <1> SUFFICES ASSUME SaveInv, pc = "done"
               PROVE  /\ Roots(heap) \subseteq Known
                      /\ \A o \in Known : Marks(heap, o) \subseteq Known
    BY DEF SnapshotHoldsAllLive
  <1>1. /\ Roots(heap) \subseteq Known
        /\ \A o \in Known : Refs(heap, o) \subseteq Known
    BY NothingOffends DEF SaveInv, Phases
  <1>2. Closed(heap, Known) /\ Known \in SUBSET Obj
    BY <1>1 DEF Closed, Known
  <1>3. heap \in Heaps /\ Absent \notin Obj
    BY HeapFacts DEF SaveInv, TypeOK
  <1>4. ASSUME NEW o \in Known, NEW v \in Marks(heap, o)
        PROVE  v \in Known
    <2>1. PICK i \in DOMAIN heap.places[o] :
            /\ heap.places[o][i].role \notin {"deadkey", "frame"}
            /\ heap.places[o][i].val = v
      BY DEF Marks
    <2>2. v \in Obj /\ heap.places[o][i] \in Places(heap, o)
      BY DEF Marks, Places
    <2>3. CASE heap.places[o][i].role # "open"
      <3>1. v \in Refs(heap, o)
        BY <1>3, <2>1, <2>2, <2>3 DEF Refs, Visits
      <3> QED BY <1>1, <3>1
    <2>4. CASE heap.places[o][i].role = "open"
      <3>1. o \in Obj
        BY DEF Known
      <3>2. PICK t \in Obj :
              /\ [role |-> "stack", val |-> v] \in Places(heap, t)
              /\ \A S \in SUBSET Obj : Closed(heap, S) /\ o \in S => t \in S
        BY <1>3, <2>1, <2>2, <2>4, <3>1 DEF OwnersAreMet
      <3>3. t \in Known
        BY <1>2, <3>2
      <3>4. v \in Refs(heap, t)
        BY <1>3, <2>2, <3>2 DEF Refs, Visits
      <3> QED BY <1>1, <3>3, <3>4
    <2> QED BY <2>3, <2>4
  <1> QED BY <1>1, <1>4

(***************************************************************************)
(* A snapshot handed out holds everything the collector would keep alive,   *)
(* provided no open upvalue is met without its thread.                      *)
(***************************************************************************)
THEOREM LiveIsSaved ==
  ASSUME OwnersAreMet
  PROVE  Spec => []SnapshotHoldsAllLive
  <1>1. SaveInv => SnapshotHoldsAllLive
    BY DoneHoldsAllLive
  <1> QED BY <1>1, SaveInvariant, PTL

-----------------------------------------------------------------------------
\* What is in the buffer is the record of each object written so far.
Written ==
  /\ Len(stream) <= Len(ordered)
  /\ \A k \in 1..Len(stream) : stream[k] = Record(ordered[k])

\* Records are only appended, and dropped all together.
LEMMA NextKeepsWritten == SaveInv /\ Written /\ [Next]_vars => Written'
  <1> SUFFICES ASSUME SaveInv, Written, [Next]_vars PROVE Written'
    OBVIOUS
  <1>0. /\ TypeOK /\ Phases
        /\ stream \in Seq(StreamRecord) /\ ordered \in Seq(Obj)
        /\ Len(stream) \in Nat /\ Len(ordered) \in Nat
    BY DEF SaveInv, TypeOK
  <1>1. CASE stream = << >> /\ stream' = << >> /\ ordered' \in Seq(Obj)
    BY <1>1 DEF Written
  <1>2. CASE UNCHANGED <<stream, ordered, heap, id>>
    <2>1. \A q : Record(q)' = Record(q)
      BY <1>2, ZenonT(40) DEF Record, WirePlace, TagOf, Wire, ser_get_id
    <2>2. UNCHANGED <<stream, ordered>>
      BY <1>2
    <2> QED BY <2>1, <2>2, ZenonT(40) DEF Written
  <1>3. CASE WriteObj
    <2> DEFINE o == ordered[Len(stream) + 1]
    <2>1. /\ UNCHANGED <<ordered, heap, id>>
          /\ Len(stream) < Len(ordered)
          /\ stream' = Append(stream, Record(o))
      BY <1>3 DEF WriteObj, discovery
    <2>2. Len(stream') = Len(stream) + 1
      BY <1>0, <2>1
    <2>3. \A q : Record(q)' = Record(q)
      BY <2>1, ZenonT(40) DEF Record, WirePlace, TagOf, Wire, ser_get_id
    <2>4. ASSUME NEW k \in 1..Len(stream')
          PROVE  stream'[k] = Record(ordered[k])
      <3>1. CASE k = Len(stream) + 1
        BY <1>0, <2>1, <3>1
      <3>2. CASE k # Len(stream) + 1
        BY <1>0, <2>1, <2>2, <3>2 DEF Written
      <3> QED BY <3>1, <3>2
    <2> QED BY <1>0, <2>1, <2>2, <2>3, <2>4 DEF Written
  <1>4. CASE DiscoverRoot \/ DiscoverPlace
    <2>1. stream = << >> /\ stream' = << >>
      BY <1>0, <1>4 DEF DiscoverRoot, DiscoverPlace, Phases, output
    <2>2. ordered' \in Seq(Obj)
      BY NextKeepsInv DEF SaveInv, TypeOK
    <2> QED BY <1>1, <2>1, <2>2
  <1>5. CASE EndRoots \/ PopObj \/ EndObj \/ EndDiscovery \/ WriteRoots
    BY <1>2, <1>5 DEF EndRoots, PopObj, EndObj, EndDiscovery, WriteRoots,
                      discovery, output
  <1>6. CASE Return
    <2>1. UNCHANGED <<ordered, heap, id>>
      BY <1>6 DEF Return, discovery
    <2>2. CASE error = "none"
      BY <1>2, <1>6, <2>1, <2>2 DEF Return, output
    <2>3. CASE error # "none"
      BY <1>0, <1>6, <2>1, <2>3 DEF Return, Written
    <2> QED BY <2>2, <2>3
  <1>7. CASE UNCHANGED vars
    BY <1>2, <1>7 DEF vars
  <1> QED BY <1>3, <1>4, <1>5, <1>6, <1>7 DEF Next

\* A record without an error names every object its places hold.
LEMMA WrittenMeansNothingStranded == SaveInv /\ Written => NoStrandedReference
  <1> SUFFICES ASSUME SaveInv, Written, error = "none",
                      NEW k \in DOMAIN stream, NEW i \in DOMAIN stream[k].places,
                      stream[k].places[i].val = <<"id", 0>>
               PROVE  LET p == heap.places[ordered[k]][i] IN
                        p.val = Absent \/ p.role \in {"deadkey", "open"}
    BY DEF NoStrandedReference
  <1> DEFINE o == ordered[k]
             p == heap.places[o][i]
  <1>1. /\ TypeOK /\ Phases /\ IdsAreStreamPositions
        /\ stream \in Seq(StreamRecord) /\ ordered \in Seq(Obj)
        /\ heap \in Heaps /\ id \in [Obj -> Nat]
    BY DEF SaveInv, TypeOK
  <1>2. /\ k \in 1..Len(stream) /\ k \in DOMAIN ordered /\ o \in Obj
        /\ id[o] # 0 /\ stream # << >>
    BY <1>1 DEF Written, IdsAreStreamPositions
  <1>3. stream[k] = Record(o)
    BY <1>2 DEF Written
  <1>4. /\ i \in DOMAIN heap.places[o]
        /\ WirePlace(p).val = <<"id", 0>>
    BY <1>3, SMTT(30) DEF Record
  <1>5. /\ pc \notin {"roots", "places", "pop"}
        /\ queue = << >>
    BY <1>1, <1>2 DEF Phases, TypeOK, PCs
  <1>6. \A q \in Obj : id[q] # 0 =>
           \A j \in DOMAIN heap.places[q] :
             Visits(heap.places[q][j]) => Resolved(heap.places[q][j].val)
    BY <1>5, FollowedAtEnd
  <1>7. SUFFICES ASSUME p.val # Absent, p.role \notin {"deadkey", "open"}
                 PROVE  FALSE
    OBVIOUS
  <1>8. p.val \in Obj /\ id[p.val] = 0
    BY <1>4, <1>7 DEF WirePlace, Wire, ser_get_id
  <1>9. CASE p.role # "frame"
    <2>1. Resolved(p.val)
      BY <1>2, <1>4, <1>6, <1>7, <1>9 DEF Visits
    <2> QED BY <1>1, <1>8, <2>1, HeapFacts DEF Resolved
  <1>10. CASE p.role = "frame"
    <2>0. \A x \in Obj : \A m \in DOMAIN heap.places[x] :
            heap.places[x][m].role = "frame" /\ heap.places[x][m].val # Absent =>
              \E q \in Obj : \E j \in DOMAIN heap.places[x],
                                n \in DOMAIN heap.places[q] :
                /\ heap.places[x][j] = [role |-> "stack", val |-> q]
                /\ heap.places[q][n] = [role |-> "proto",
                                       val |-> heap.places[x][m].val]
      BY <1>1, HeapAssumption, Zenon
    <2>1. PICK q \in Obj : \E j \in DOMAIN heap.places[o],
                               n \in DOMAIN heap.places[q] :
            /\ heap.places[o][j] = [role |-> "stack", val |-> q]
            /\ heap.places[q][n] = [role |-> "proto", val |-> p.val]
      BY <1>2, <1>4, <1>7, <1>10, <2>0
    <2>2. PICK j \in DOMAIN heap.places[o], n \in DOMAIN heap.places[q] :
            /\ heap.places[o][j] = [role |-> "stack", val |-> q]
            /\ heap.places[q][n] = [role |-> "proto", val |-> p.val]
      BY <2>1
    <2>3. Absent \notin Obj /\ Obj \cap LightPtr = {}
      BY <1>1, HeapFacts
    <2>4. Resolved(q)
      BY <1>2, <1>6, <2>2, <2>3 DEF Visits
    <2>5. id[q] # 0
      BY <2>3, <2>4 DEF Resolved
    <2>6. Resolved(p.val)
      BY <1>6, <1>7, <2>2, <2>5 DEF Visits
    <2> QED BY <1>8, <2>3, <2>6 DEF Resolved
  <1> QED BY <1>9, <1>10

(***************************************************************************)
(* Discovery and the write pass agree on what is reachable: with no error   *)
(* latched, the only references written as "no object" are absent ones,     *)
(* keys the collector cleared, and the slots of open upvalues.              *)
(***************************************************************************)
THEOREM NothingStranded == Spec => []NoStrandedReference
  <1>1. Init => SaveInv /\ Written
    BY InitInv DEF Init, Written
  <1>2. (SaveInv /\ Written) /\ [Next]_vars => (SaveInv /\ Written)'
    BY NextKeepsInv, NextKeepsWritten
  <1>3. SaveInv /\ Written => NoStrandedReference
    BY WrittenMeansNothingStranded
  <1> QED BY <1>1, <1>2, <1>3, PTL DEF Spec

\* The promise speaks of the heap in the same terms.
LEMMA SameHeapTerms ==
  \A h, o : /\ Promise!Roots(h) = Roots(h)
            /\ Promise!Refs(h, o) = Refs(h, o)
            /\ Promise!is_serializable(h, o) <=> is_serializable(h, o)
            /\ Promise!Offends(h, o) <=> Offends(h, o)
  <1>1. \A h, o : /\ Promise!Places(h, o) = Places(h, o)
                  /\ Promise!Roots(h) = Roots(h)
    BY DEF Promise!Places, Places, Promise!Roots, Roots
  <1>2. \A p : Promise!Visits(p) <=> Visits(p)
    BY DEF Promise!Visits, Visits
  <1>3. \A h, o : Promise!is_serializable(h, o) <=> is_serializable(h, o)
    BY <1>1 DEF Promise!is_serializable, is_serializable, Promise!Persists,
                Persists
  <1>4. \A h, o : Promise!Refs(h, o) = Refs(h, o)
    BY <1>1, <1>2 DEF Promise!Refs, Refs
  <1>5. \A h, p : Promise!Unsaveable(h, p) <=> Unsaveable(h, p)
    BY <1>2, <1>3 DEF Promise!Unsaveable, Unsaveable, Promise!Tagged, Tagged
  <1>6. \A h, o : Promise!Offends(h, o) <=> Offends(h, o)
    BY <1>1, <1>5 DEF Promise!Offends, Offends
  <1> QED BY <1>1, <1>3, <1>4, <1>6

(***************************************************************************)
(* lstasis_save keeps its promise: every step of it gathers one object      *)
(* reachable from what is gathered already, delivers a set of objects       *)
(* closed under the references it follows with nothing unsaveable in it, or *)
(* fails because of an object that really offends -- or does nothing the    *)
(* promise speaks of.                                                       *)
(***************************************************************************)
THEOREM SaveKeepsPromise == Spec => Promise!Safety
  <1> DEFINE result == IF pc \in {"done", "failed"} THEN pc ELSE "pending"
  <1>1. Init => Promise!Init
    BY DEF Init, Promise!Init, Known
  <1>2. SaveInv /\ [Next]_vars => [Promise!Next]_Promise!svars
    <2> SUFFICES ASSUME SaveInv, [Next]_vars
                 PROVE  \/ Promise!Next
                        \/ UNCHANGED <<heap, Known, result>>
      BY DEF Promise!svars
    <2>0. TypeOK /\ Phases /\ id \in [Obj -> Nat] /\ next_id \in Nat \ {0}
      BY DEF SaveInv, TypeOK
    <2>1. ASSUME NEW v \in Value \cup {Absent}, discover_tv(v),
                 UNCHANGED <<heap, pc>>, pc \in {"roots", "places"},
                 v \in Obj => v \in Roots(heap) \/ \E q \in Known : v \in Refs(heap, q)
          PROVE  Promise!Next \/ UNCHANGED <<heap, Known, result>>
      <3>1. CASE Accept(v)
        <4>1. /\ v \in Obj \ Known /\ is_serializable(heap, v)
              /\ Known' = Known \cup {v}
          BY <2>0, <3>1 DEF Accept, Known
        <4>2. Promise!Gather
          BY <2>1, <4>1, SameHeapTerms DEF Promise!Gather
        <4> QED BY <4>2 DEF Promise!Next
      <3>2. CASE Reject(v) \/ Pass(v)
        BY <2>1, <3>2 DEF Reject, Pass, discovery, Known
      <3> QED BY <2>1, <3>1, <3>2 DEF discover_tv
    <2>2. CASE DiscoverRoot
      <3>1. PICK v \in Value \cup {Absent} : v = heap.roots[rootpos]
        BY <2>0, <2>2, HeapFacts DEF DiscoverRoot, TypeOK, Value
      <3>2. v \in Obj => v \in Roots(heap)
        BY <2>0, <2>2, <3>1, HeapFacts DEF DiscoverRoot, Roots, TypeOK
      <3> QED BY <2>1, <2>2, <3>1, <3>2 DEF DiscoverRoot
    <2>3. CASE DiscoverPlace
      <3>1. /\ cur \in Obj /\ pos \in DOMAIN heap.places[cur]
            /\ heap.places[cur][pos] \in Place
        BY <2>0, <2>3, HeapFacts DEF DiscoverPlace, TypeOK
      <3>2. PICK v \in Value \cup {Absent} : v = heap.places[cur][pos].val
        BY <3>1 DEF Place
      <3>3. CASE Visits(heap.places[cur][pos])
        <4>1. cur \in Known
          <5>1. /\ Len(queue) < Len(ordered) /\ Len(queue) \in Nat
                /\ Len(ordered) \in Nat
                /\ cur = ordered[Len(ordered) - Len(queue)]
            BY <2>3 DEF DiscoverPlace, SaveInv, TypeOK, QueueIsUnprocessed
          <5>2. Len(ordered) - Len(queue) \in DOMAIN ordered
            BY <2>0, <5>1 DEF TypeOK
          <5>3. id[cur] = Len(ordered) - Len(queue)
            BY <5>1, <5>2 DEF SaveInv, IdsAreStreamPositions
          <5> QED BY <3>1, <5>1, <5>3 DEF Known
        <4>2. v \in Obj => v \in Refs(heap, cur)
          BY <3>1, <3>2, <3>3 DEF Refs, Places
        <4>3. discover_tv(v) /\ UNCHANGED <<heap, pc>> /\ pc = "places"
          BY <2>3, <3>2, <3>3 DEF DiscoverPlace
        <4> QED BY <2>1, <4>1, <4>2, <4>3
      <3>4. CASE ~Visits(heap.places[cur][pos])
        BY <2>3, <3>4 DEF DiscoverPlace, discovery, Known
      <3> QED BY <3>3, <3>4
    <2>4. CASE EndRoots \/ PopObj \/ EndObj \/ WriteObj \/ WriteRoots
      BY <2>4 DEF EndRoots, PopObj, EndObj, WriteObj, WriteRoots, discovery,
                  Known
    <2>5. ASSUME pc \notin {"done", "failed"}, pc' = "failed", error # "none",
                 UNCHANGED <<heap, id>>
          PROVE  Promise!Next
      <3>1. \E o \in Known : Offends(heap, o)
        BY <2>5 DEF SaveInv, ErrorHasCause, Known
      <3>2. Promise!Fail
        BY <2>5, <3>1, SameHeapTerms DEF Promise!Fail, Known
      <3> QED BY <3>2 DEF Promise!Next
    <2>6. CASE EndDiscovery
      <3>1. /\ pc = "pop" /\ UNCHANGED <<heap, id, error>>
            /\ pc' = IF error = "none" THEN "write" ELSE "failed"
        BY <2>6 DEF EndDiscovery, discovery
      <3>2. CASE error = "none"
        BY <3>1, <3>2 DEF Known
      <3> QED BY <2>5, <3>1, <3>2
    <2>7. CASE Return
      <3>1. pc = "footer" /\ UNCHANGED <<heap, id, error>>
        BY <2>7 DEF Return, discovery
      <3>2. CASE error = "none"
        <4>1. pc' = "done" /\ Known' = Known
          BY <2>7, <3>1, <3>2 DEF Return, Known
        <4>2. Promise!Deliver
          BY <3>1, <3>2, <4>1, NothingOffends, SameHeapTerms
          DEF Promise!Deliver
        <4> QED BY <4>2 DEF Promise!Next
      <3>3. CASE error # "none"
        BY <2>5, <2>7, <3>1, <3>3 DEF Return
      <3> QED BY <3>2, <3>3
    <2>8. CASE UNCHANGED vars
      BY <2>8 DEF vars, Known
    <2> QED BY <2>2, <2>3, <2>4, <2>6, <2>7, <2>8 DEF Next
  <1> QED BY <1>1, <1>2, SaveInvariant, PTL DEF Spec, Promise!Safety

(*-------------------------------- the load ------------------------------*)

Main == footer[2]
Ids == 1..Len(stream)

\* The ids of the roots, from the write pass on.
Footed == pc \in {"footer", "done"} =>
            footer = [i \in DOMAIN heap.roots |-> ser_get_id(heap.roots[i])]

Early == {"header", "newstate", "idtable", "1"}
Fills == {"2a", "2b", "2c", "2d", "2e", "2f main", "2f", "2g"}
Late  == {"2h", "restart", "loaded"}
Given == {"fail_L", "failed"}
Ended == {"aborted"}

Codes == (Kinds \ {"upval"}) \cup {"open upval", "closed upval"}

\* The pass whose turn it is to fill a record.
Turn(k) == CASE Load!Code(k) = "proto"        -> 1
             [] Load!Code(k) = "closed upval" -> 2
             [] Load!Code(k) = "lclosure"     -> 3
             [] Load!Code(k) = "cclosure"     -> 4
             [] Load!Code(k) = "table"        -> 5
             [] Load!Code(k) = "thread"       -> IF k = Main THEN 6 ELSE 7
             [] Load!Code(k) = "userdata"     -> 8
             [] OTHER                         -> 9

\* The new state exists from lua_newstate to lua_close, with the collector
\* stopped until it is handed out; an error is latched before giving up.  Only
\* an emergency collection has freed anything.
StateInv ==
  /\ lpc \in Early \cup Fills \cup Late \cup Given \cup Ended
  /\ freed # {} => shortage
  /\ lpc \in {"header", "newstate"} => L = "none"
  /\ lpc \in ({"idtable", "1", "fail_L"} \cup Fills \cup Late) => L = "open"
  /\ lpc = "failed" => L # "open"
  /\ lpc \in Ended => L = "open"
  /\ L = "open" /\ lpc # "loaded" => gcstopped
  /\ lpc = "loaded" => ~gcstopped
  /\ lpc \in {"restart", "loaded"} => globals = footer /\ L_seq = heap.next_seq
  /\ lpc \in Early \cup Late => lerror = "none"
  /\ lpc \in Given => lerror # "none"

\* An object exists for every id when pass 1 ends, with the number it had.
MadeInv ==
  /\ at \in Nat /\ at >= 1
  /\ lpc \in {"header", "newstate", "idtable"} => at = 1
  /\ lpc = "1" => at <= Len(stream) + 1 /\ made = {Main} \cup 1..(at - 1)
  /\ lpc \in Fills \cup Late =>
       /\ made = Ids
       /\ obj_seq = [k \in Ids |-> heap.seq[ordered[k]]]

\* The records behind the cursor are filled, each place with what Loaded says.
FillInv ==
  /\ lpc \in Early => filled = {}
  /\ lpc \in {"1"} \cup Fills \cup Late => DOMAIN body = Ids
  /\ filled \subseteq Ids
  /\ \A p \in 1..8 : lpc = Load!FillPasses[p] /\ lerror = "none" =>
       \A k \in Ids : Turn(k) < p \/ (Turn(k) = p /\ k < at) => k \in filled
  /\ lpc \in Late => \A k \in Ids : Turn(k) < 9 => k \in filled
  /\ lpc \in Fills \cup Late => \A k \in filled :
       body[k] = [i \in DOMAIN stream[k].places |->
                    Load!Loaded(stream[k].places[i])]
  /\ lerror = "none" => \A k \in filled : \A i \in DOMAIN stream[k].places :
       Load!Fault(stream[k].places[i]) = "none"

\* The finalizer of an object is registered when its metatable has one.
Due(k) == /\ stream[k].kind \in {"table", "userdata"}
          /\ \E m \in Load!Metatables(k) : stream[m].gc

\* The objects behind the cursor of pass 2h are registered once.
FinalInv ==
  /\ lpc \notin Late => finobj = << >>
  /\ lpc \in Late =>
       /\ cached = {}
       /\ finobj \in Seq(Ids)
       /\ \A n \in DOMAIN finobj : finobj[n] < at /\ Due(finobj[n])
       /\ \A n, m \in DOMAIN finobj : finobj[n] = finobj[m] => n = m
       /\ \A k \in Ids : k < at /\ Due(k) =>
            \E n \in DOMAIN finobj : finobj[n] = k
  /\ lpc \in {"restart", "loaded"} => at > Len(stream)

LoadInv == StateInv /\ MadeInv /\ FillInv /\ FinalInv

RTInv == /\ SaveInv /\ Written /\ Footed
         /\ pc # "done" => Load!LInit
         /\ LoadInv
-----------------------------------------------------------------------------
\* What a finished save hands to the load.
LEMMA SnapshotFacts ==
  ASSUME SaveInv, Written, Footed, pc = "done"
  PROVE  /\ Len(stream) \in Nat /\ Len(stream) = Len(ordered)
         /\ DOMAIN stream = Ids /\ DOMAIN ordered = Ids
         /\ \A k \in Ids : /\ ordered[k] \in Obj /\ id[ordered[k]] = k
                           /\ stream[k] = Record(ordered[k])
                           /\ stream[k].kind \in Kinds
         /\ Main \in Ids /\ stream[Main].kind = "thread"
         /\ 2 \in DOMAIN footer /\ footer # << >>
         /\ \A r \in DOMAIN footer : r # 2 /\ footer[r] # 0 =>
              footer[r] \in Ids /\ stream[footer[r]].kind = "table"
  <1>1. /\ TypeOK /\ Phases /\ IdsAreStreamPositions
        /\ stream \in Seq(StreamRecord) /\ ordered \in Seq(Obj)
        /\ heap \in Heaps /\ id \in [Obj -> Nat] /\ error = "none"
    BY DEF SaveInv, TypeOK, Phases
  <1>2. /\ Len(stream) \in Nat /\ Len(stream) = Len(ordered)
        /\ DOMAIN stream = Ids /\ DOMAIN ordered = Ids
    BY <1>1 DEF Phases, Ids
  <1>3. ASSUME NEW k \in Ids
        PROVE  /\ ordered[k] \in Obj /\ id[ordered[k]] = k
               /\ stream[k] = Record(ordered[k])
               /\ stream[k].kind \in Kinds
    <2>1. stream[k] \in StreamRecord
      BY <1>1, <1>2
    <2> QED BY <1>1, <1>2, <2>1 DEF IdsAreStreamPositions, Written, Ids,
                                    StreamRecord
  <1>4. /\ footer = [i \in DOMAIN heap.roots |-> ser_get_id(heap.roots[i])]
        /\ 2 \in DOMAIN heap.roots /\ heap.roots[2] # Absent
    BY <1>1, HeapAssumption DEF Footed
  <1>5. \A i \in DOMAIN heap.roots : heap.roots[i] # Absent =>
          /\ heap.roots[i] \in Obj
          /\ heap.kind[heap.roots[i]] = IF i = 2 THEN "thread" ELSE "table"
    BY <1>1, HeapFacts, HeapAssumption
  <1>6. ASSUME NEW i \in DOMAIN heap.roots, heap.roots[i] # Absent
        PROVE  /\ footer[i] \in Ids
               /\ stream[footer[i]].kind = IF i = 2 THEN "thread" ELSE "table"
    <2>1. footer[i] = id[heap.roots[i]] /\ heap.roots[i] \in Obj
      BY <1>4, <1>5, <1>6 DEF ser_get_id
    <2>2. heap.roots[i] \in Known
      BY <1>1, <1>6, NothingOffends DEF Roots
    <2>3. footer[i] \in Ids /\ ordered[footer[i]] = heap.roots[i]
      BY <1>1, <1>2, <2>1, <2>2 DEF IdsAreStreamPositions
    <2>4. stream[footer[i]] = Record(heap.roots[i])
      BY <1>3, <2>3
    <2>5. stream[footer[i]].kind = heap.kind[heap.roots[i]]
      BY <2>4 DEF Record
    <2> QED BY <1>5, <1>6, <2>3, <2>5
  <1>7. \A r \in DOMAIN footer : r # 2 /\ footer[r] # 0 =>
          footer[r] \in Ids /\ stream[footer[r]].kind = "table"
    BY <1>4, <1>6 DEF ser_get_id
  <1>8. Main \in Ids /\ stream[Main].kind = "thread"
    BY <1>4, <1>6 DEF Main
  <1>9. 2 \in DOMAIN footer /\ footer # << >>
    BY <1>4
  <1> QED BY <1>2, <1>3, <1>7, <1>8, <1>9

\* The passes that fill, by number.
LEMMA PassFacts ==
  /\ \A p \in 1..8 : Load!FillPasses[p] \in Fills
  /\ \A p, q \in 1..8 : Load!FillPasses[p] = Load!FillPasses[q] => p = q
  /\ \A l \in Fills : \E p \in 1..8 : l = Load!FillPasses[p]
  <1>1. /\ Load!FillPasses[1] = "2a" /\ Load!FillPasses[2] = "2b"
        /\ Load!FillPasses[3] = "2c" /\ Load!FillPasses[4] = "2d"
        /\ Load!FillPasses[5] = "2e" /\ Load!FillPasses[6] = "2f main"
        /\ Load!FillPasses[7] = "2f" /\ Load!FillPasses[8] = "2g"
    BY DEF Load!FillPasses
  <1>2. \A p \in 1..8 : p = 1 \/ p = 2 \/ p = 3 \/ p = 4
                        \/ p = 5 \/ p = 6 \/ p = 7 \/ p = 8
    OBVIOUS
  <1>3. \A p \in 1..8 : Load!FillPasses[p] \in Fills
    BY <1>1, <1>2 DEF Fills
  <1>4. \A p, q \in 1..8 : Load!FillPasses[p] = Load!FillPasses[q] => p = q
    BY <1>1, <1>2
  <1>5. ASSUME NEW l \in Fills
        PROVE  \E p \in 1..8 : l = Load!FillPasses[p]
    <2>1. /\ 1 \in 1..8 /\ 2 \in 1..8 /\ 3 \in 1..8 /\ 4 \in 1..8
          /\ 5 \in 1..8 /\ 6 \in 1..8 /\ 7 \in 1..8 /\ 8 \in 1..8
      OBVIOUS
    <2> QED BY <1>1, <2>1 DEF Fills
  <1> QED BY <1>3, <1>4, <1>5

\* Type codes and kinds.
LEMMA CodeFacts ==
  ASSUME NEW k, stream[k].kind \in Kinds
  PROVE  /\ Load!Code(k) \in Codes
         /\ stream[k].kind # "upval" => Load!Code(k) = stream[k].kind
         /\ stream[k].kind = "upval" =>
              Load!Code(k) \in {"open upval", "closed upval"}
  BY DEF Load!Code, Codes, Kinds

\* What a request for memory may come to.
LEMMA RequestFacts ==
  ASSUME NEW g, NEW q \in Load!Requests(g), freed = {}
  PROVE  q[1] \in {lpc, "aborted"} /\ (q[3] # {} => q[2] = TRUE)
  <1>1. CASE q = <<lpc, shortage, freed>>
    <2>1. q[1] = lpc /\ q[3] = {}
      BY <1>1
    <2> QED BY <2>1
  <1>2. CASE q = <<"aborted", TRUE, freed>>
    <2>1. q[1] = "aborted" /\ q[3] = {}
      BY <1>2
    <2> QED BY <2>1
  <1>3. ASSUME NEW G, q = <<lpc, TRUE, G>>
        PROVE  q[1] = lpc /\ q[2] = TRUE
    BY <1>3
  <1> QED BY <1>1, <1>2, <1>3 DEF Load!Requests

\* A record whose turn it is is of the pass's kind.
LEMMA TurnIsMine ==
  ASSUME NEW k, stream[k].kind \in Kinds,
         k = Main => Load!Code(k) = "thread",
         NEW p \in 1..8, Turn(k) = p
  PROVE  /\ Load!Code(k) = Load!FillKind[Load!FillPasses[p]]
         /\ (Load!FillPasses[p] = "2f main") <=> (k = Main)
  <1>1. /\ Load!FillPasses[1] = "2a" /\ Load!FillPasses[2] = "2b"
        /\ Load!FillPasses[3] = "2c" /\ Load!FillPasses[4] = "2d"
        /\ Load!FillPasses[5] = "2e" /\ Load!FillPasses[6] = "2f main"
        /\ Load!FillPasses[7] = "2f" /\ Load!FillPasses[8] = "2g"
    BY DEF Load!FillPasses
  <1>2. /\ Load!FillKind["2a"] = "proto" /\ Load!FillKind["2b"] = "closed upval"
        /\ Load!FillKind["2c"] = "lclosure" /\ Load!FillKind["2d"] = "cclosure"
        /\ Load!FillKind["2e"] = "table" /\ Load!FillKind["2f main"] = "thread"
        /\ Load!FillKind["2f"] = "thread" /\ Load!FillKind["2g"] = "userdata"
    BY DEF Load!FillKind
  <1>3. CASE Load!Code(k) \in {"string", "open upval"}
    <2>1. Turn(k) = 9
      BY <1>3 DEF Turn
    <2>2. p # 9
      OBVIOUS
    <2> QED BY <2>1, <2>2, Zenon
  <1>4. CASE Load!Code(k) = "thread" /\ k = Main
    <2>1. Turn(k) = 6
      BY <1>4 DEF Turn
    <2> QED BY <1>1, <1>2, <1>4, <2>1
  <1>5. CASE Load!Code(k) = "thread" /\ k # Main
    <2>1. Turn(k) = 7
      BY <1>5 DEF Turn
    <2> QED BY <1>1, <1>2, <1>5, <2>1
  <1>6. CASE Load!Code(k) = "proto"
    <2>1. Turn(k) = 1 /\ k # Main
      BY <1>6 DEF Turn
    <2> QED BY <1>1, <1>2, <1>6, <2>1
  <1>7. CASE Load!Code(k) = "closed upval"
    <2>1. Turn(k) = 2 /\ k # Main
      BY <1>7 DEF Turn
    <2> QED BY <1>1, <1>2, <1>7, <2>1
  <1>8. CASE Load!Code(k) = "lclosure"
    <2>1. Turn(k) = 3 /\ k # Main
      BY <1>8 DEF Turn
    <2> QED BY <1>1, <1>2, <1>8, <2>1
  <1>9. CASE Load!Code(k) = "cclosure"
    <2>1. Turn(k) = 4 /\ k # Main
      BY <1>9 DEF Turn
    <2> QED BY <1>1, <1>2, <1>9, <2>1
  <1>10. CASE Load!Code(k) = "table"
    <2>1. Turn(k) = 5 /\ k # Main
      BY <1>10 DEF Turn
    <2> QED BY <1>1, <1>2, <1>10, <2>1
  <1>11. CASE Load!Code(k) = "userdata"
    <2>1. Turn(k) = 8 /\ k # Main
      BY <1>11 DEF Turn
    <2> QED BY <1>1, <1>2, <1>11, <2>1
  <1>12. Load!Code(k) \in Codes
    BY CodeFacts
  <1> QED BY <1>3, <1>4, <1>5, <1>6, <1>7, <1>8, <1>9, <1>10, <1>11, <1>12
          DEF Codes, Kinds

\* Every record but a string's and an open upvalue's has its turn.
LEMMA EveryTurn ==
  ASSUME NEW k, stream[k].kind \in Kinds
  PROVE  /\ Turn(k) \in 1..9
         /\ Load!Code(k) \notin {"string", "open upval"} => Turn(k) < 9
  <1>1. Load!Code(k) \in Codes
    BY CodeFacts
  <1>2. CASE Load!Code(k) \in {"string", "open upval"}
    <2>1. Turn(k) = 9
      BY <1>2 DEF Turn
    <2>2. 9 \in 1..9
      OBVIOUS
    <2> QED BY <1>2, <2>1, <2>2, Zenon
  <1>3. ASSUME NEW c \in {"proto", "closed upval", "lclosure", "cclosure",
                           "table", "userdata", "thread"}, Load!Code(k) = c
        PROVE  Turn(k) \in {1, 2, 3, 4, 5, 6, 7, 8}
    <2>1. CASE c = "thread"
      <3>1. Turn(k) = IF k = Main THEN 6 ELSE 7
        BY <1>3, <2>1 DEF Turn
      <3> QED BY <3>1
    <2>2. c = "proto" => Turn(k) = 1
      BY <1>3 DEF Turn
    <2>3. c = "closed upval" => Turn(k) = 2
      BY <1>3 DEF Turn
    <2>4. c = "lclosure" => Turn(k) = 3
      BY <1>3 DEF Turn
    <2>5. c = "cclosure" => Turn(k) = 4
      BY <1>3 DEF Turn
    <2>6. c = "table" => Turn(k) = 5
      BY <1>3 DEF Turn
    <2>7. c = "userdata" => Turn(k) = 8
      BY <1>3 DEF Turn
    <2> QED BY <1>3, <2>1, <2>2, <2>3, <2>4, <2>5, <2>6, <2>7
  <1>4. CASE Load!Code(k) \notin {"string", "open upval"}
    <2>1. Load!Code(k) \in {"proto", "closed upval", "lclosure", "cclosure",
                            "table", "userdata", "thread"}
      BY <1>1, <1>4 DEF Codes, Kinds
    <2>2. Turn(k) \in {1, 2, 3, 4, 5, 6, 7, 8}
      BY <2>1, <1>3
    <2>3. \A n \in {1, 2, 3, 4, 5, 6, 7, 8} : n \in 1..9 /\ n < 9
      OBVIOUS
    <2> QED BY <2>2, <2>3, Zenon
  <1> QED BY <1>2, <1>4

\* Before the load begins its invariant holds, whatever the save does.
LEMMA IdleLoad == Load!LInit => LoadInv
  <1> SUFFICES ASSUME Load!LInit PROVE LoadInv
    OBVIOUS
  <1>1. StateInv
    BY DEF Load!LInit, StateInv, Early, Fills, Late, Given, Ended
  <1>2. MadeInv
    BY DEF Load!LInit, MadeInv, Fills, Late
  <1>3. \A p \in 1..8 : lpc # Load!FillPasses[p]
    BY PassFacts DEF Load!LInit, Fills
  <1>4. FillInv
    BY <1>3 DEF Load!LInit, FillInv, Fills, Late
  <1>5. FinalInv
    BY DEF Load!LInit, FinalInv, Late
  <1> QED BY <1>1, <1>2, <1>4, <1>5 DEF LoadInv

\* While the load is at work.
Loading == SaveInv /\ Written /\ Footed /\ pc = "done" /\ LoadInv

\* The snapshot does not change, nor what is read from it.
LEMMA SameSnapshot ==
  ASSUME UNCHANGED vars
  PROVE  /\ UNCHANGED <<stream, footer, heap, ordered>>
         /\ Ids' = Ids /\ Main' = Main /\ Load!Ids = Ids
         /\ Load!main_thread_id = Main
         /\ \A k : Turn(k)' = Turn(k)
         /\ \A k : Load!Code(k)' = Load!Code(k)
         /\ \A q : Load!Fault(q)' = Load!Fault(q)
         /\ made' = made => \A q : Load!Loaded(q)' = Load!Loaded(q)
         /\ body' = body => \A k : Due(k)' = Due(k)
  <1>1. UNCHANGED <<stream, footer, heap, ordered>>
    BY DEF vars
  <1>2. Ids' = Ids /\ Main' = Main /\ Load!Ids = Ids /\ Load!main_thread_id = Main
    BY <1>1 DEF Ids, Main, Load!Ids, Load!main_thread_id
  <1>7. \A k : Load!Code(k)' = Load!Code(k)
    BY <1>1 DEF Load!Code
  <1>3. \A k : Turn(k)' = Turn(k)
    BY <1>2, <1>7 DEF Turn
  <1>4. \A q : Load!Fault(q)' = Load!Fault(q)
    <2>1. \A q : Load!BadId(q)' <=> Load!BadId(q)
      BY <1>1, <1>7 DEF Load!BadId, Load!Ids
    <2> QED BY <2>1 DEF Load!Fault
  <1>5. ASSUME made' = made
        PROVE  \A q : Load!Loaded(q)' = Load!Loaded(q)
    BY <1>4, <1>5 DEF Load!Loaded
  <1>6. ASSUME body' = body
        PROVE  \A k : Due(k)' = Due(k)
    BY <1>1, <1>6 DEF Due, Load!Metatables
  <1> QED BY <1>1, <1>2, <1>3, <1>4, <1>5, <1>6, <1>7

\* No pass that fills is one of the others.
LEMMA NotAFill ==
  \A l \in Early \cup Late \cup Given \cup Ended :
    l \notin Fills /\ \A p \in 1..8 : l # Load!FillPasses[p]
  BY PassFacts DEF Early, Late, Given, Ended, Fills

\* Up to the end of pass 1 nothing is filled or registered.
LEMMA EarlySteps ==
  ASSUME Loading, UNCHANGED vars, freed = {},
         Load!ReadIndex \/ Load!NewState \/ Load!IdTable \/ Load!Create
  PROVE  LoadInv'
  <1>0. /\ StateInv /\ MadeInv /\ FillInv /\ FinalInv
        /\ Main \in Ids /\ Len(stream) \in Nat
        /\ stream[Main].kind = "thread"
    BY SnapshotFacts DEF Loading, LoadInv
  <1>1. /\ UNCHANGED <<stream, footer, heap, ordered>>
        /\ Ids' = Ids /\ Main' = Main /\ Load!Ids = Ids
        /\ Load!main_thread_id = Main
        /\ \A q : Load!Fault(q)' = Load!Fault(q)
    BY SameSnapshot
  <1>8. ASSUME Load!IdTable
        PROVE  /\ lpc = "idtable" /\ UNCHANGED <<at, filled>>
               /\ \/ /\ lpc' = "1" /\ made' = {Main} /\ DOMAIN body' = Ids
                     /\ UNCHANGED lerror
                  \/ lpc' = "fail_L" /\ lerror' # "none"
    <2>1. Main # 0 /\ {Main} \ {0} = {Main}
      BY <1>0 DEF Ids
    <2> QED BY <1>1, <1>8, <2>1 DEF Load!IdTable, Load!Fails
  <1>9. ASSUME Load!Create
        PROVE  /\ lpc = "1" /\ lpc' \in {"1", "aborted"} /\ at \in Ids
               /\ at' = at + 1
               /\ UNCHANGED <<filled, body, L, gcstopped, finobj, globals, lerror>>
               /\ made' = IF at = Main THEN made ELSE made \cup {at}
               /\ freed' # {} => shortage'
    <2>1. gcstopped
      BY <1>0, <1>9 DEF Load!Create, StateInv
    <2>2. CASE at = Main
      BY <1>0, <1>1, <1>9, <2>2 DEF Load!Create, Load!memory, StateInv
    <2>3. CASE at # Main
      <3>1. PICK q \in Load!CreateRequests(at) :
              lpc' = q[1] /\ shortage' = q[2] /\ freed' = q[3]
        BY <1>1, <1>9, <2>3 DEF Load!Create, Load!Meets
      <3>2. \E g : q \in Load!Requests(g)
        BY <2>1, <3>1 DEF Load!CreateRequests
      <3>3. q[1] \in {lpc, "aborted"} /\ (q[3] # {} => q[2] = TRUE)
        BY <3>2, RequestFacts
      <3> QED BY <1>1, <1>9, <2>3, <3>1, <3>3 DEF Load!Create
    <2> QED BY <2>2, <2>3
  <1>2. /\ filled' = filled /\ filled = {} /\ finobj' = finobj /\ finobj = << >>
        /\ lpc \in Early
        /\ lpc' \in Early \cup Given \cup Ended
    BY <1>0, <1>8, <1>9
    DEF Load!ReadIndex, Load!NewState, Load!IdTable, Load!objects, Load!state,
        FillInv, FinalInv, Early, Late, Given, Ended
  <1>3. lpc' \notin Fills \cup Late /\ \A p \in 1..8 : lpc' # Load!FillPasses[p]
    BY <1>2, NotAFill DEF Early, Late, Given, Ended
  <1>4. StateInv'
    <2>1. CASE Load!Create
      BY <1>0, <1>9, <2>1 DEF StateInv, Early, Late, Given, Fills, Ended
    <2>2. CASE Load!ReadIndex \/ Load!NewState \/ Load!IdTable
      BY <1>0, <1>1, <1>8, <2>2
      DEF Load!ReadIndex, Load!NewState, Load!IdTable, Load!memory,
          Load!objects, Load!state, Load!Fails, StateInv,
          Early, Late, Given, Fills, Ended
    <2> QED BY <2>1, <2>2
  <1>5. MadeInv'
    <2>1. CASE Load!ReadIndex \/ Load!NewState \/ Load!IdTable
      BY <1>0, <1>1, <1>3, <1>8, <2>1
      DEF Load!ReadIndex, Load!NewState, Load!objects, MadeInv
    <2>2. CASE Load!Create
      <3>1. /\ lpc = "1" /\ lpc' \in {"1", "aborted"} /\ at \in Ids /\ at' = at + 1
            /\ made' = IF at = Main THEN made ELSE made \cup {at}
            /\ made = {Main} \cup 1..(at - 1)
            /\ at \in Nat /\ at >= 1
        BY <1>0, <1>9, <2>2 DEF MadeInv
      <3>2. at' <= Len(stream) + 1 /\ at' \in Nat /\ at' >= 1
        BY <1>0, <3>1 DEF Ids
      <3>3. 1..(at' - 1) = 1..(at - 1) \cup {at}
        BY <3>1
      <3>4. made' = {Main} \cup 1..(at' - 1)
        BY <3>1, <3>3
      <3> QED BY <1>1, <1>3, <3>1, <3>2, <3>4 DEF MadeInv
    <2> QED BY <2>1, <2>2
  <1>6. FillInv'
    <2>1. lpc' = "1" => DOMAIN body' = Ids
      BY <1>0, <1>1, <1>8, <1>9
      DEF Load!ReadIndex, Load!NewState, Load!Create, FillInv
    <2> QED BY <1>0, <1>1, <1>2, <1>3, <2>1 DEF FillInv
  <1>7. FinalInv'
    BY <1>2, <1>3 DEF FinalInv, Late
  <1> QED BY <1>4, <1>5, <1>6, <1>7 DEF LoadInv

\* Pass 1.5: every object made has its number back.
LEMMA ObjidsStep ==
  ASSUME Loading, UNCHANGED vars, Load!RestoreObjids
  PROVE  LoadInv'
  <1>0. /\ StateInv /\ MadeInv /\ FillInv /\ FinalInv
        /\ Main \in Ids /\ Len(stream) \in Nat
        /\ DOMAIN ordered = Ids
    BY SnapshotFacts DEF Loading, LoadInv
  <1>1. /\ UNCHANGED <<stream, footer, heap, ordered>>
        /\ Ids' = Ids /\ Main' = Main /\ Load!Ids = Ids
        /\ \A q : Load!Fault(q)' = Load!Fault(q)
    BY SameSnapshot
  <1>2. /\ lpc = "1" /\ at \notin Ids /\ lpc' = "2a" /\ at' = 1
        /\ obj_seq' = [k \in Ids |-> IF k \in made
                         THEN [j \in DOMAIN ordered |-> heap.seq[ordered[j]]][k]
                         ELSE obj_seq[k]]
        /\ UNCHANGED <<made, filled, body, L, L_seq, gcstopped, cached, finobj,
                       globals, lerror, shortage, freed>>
    BY <1>1 DEF Load!RestoreObjids, Load!state, Load!memory, Load!FillPasses
  <1>3. made = Ids
    <2>1. /\ made = {Main} \cup 1..(at - 1) /\ at <= Len(stream) + 1
          /\ at \in Nat /\ at >= 1
      BY <1>0, <1>2 DEF MadeInv
    <2>2. at = Len(stream) + 1
      BY <1>0, <1>2, <2>1 DEF Ids
    <2> QED BY <1>0, <2>1, <2>2 DEF Ids
  <1>4. obj_seq' = [k \in Ids |-> heap.seq[ordered[k]]]
    BY <1>0, <1>2, <1>3
  <1>5. StateInv'
    BY <1>0, <1>1, <1>2 DEF StateInv, Early, Late, Given, Fills, Ended
  <1>6. MadeInv'
    BY <1>0, <1>1, <1>2, <1>3, <1>4 DEF MadeInv
  <1>7. FillInv'
    <2>1. filled' = {} /\ DOMAIN body' = Ids
      BY <1>0, <1>2 DEF FillInv, Early
    <2>2. \A p \in 1..8 : lpc' = Load!FillPasses[p] => p = 1
      <3>1. Load!FillPasses[1] = "2a"
        BY DEF Load!FillPasses
      <3> QED BY <1>2, <3>1, PassFacts
    <2>3. \A k \in Ids : Turn(k)' \in 1..9
      <3>1. \A k \in Ids : stream[k].kind \in Kinds
        BY SnapshotFacts DEF Loading
      <3>2. \A k \in Ids : Turn(k) \in 1..9
        BY <3>1, EveryTurn
      <3> QED BY <3>2, SameSnapshot
    <2>4. \A k \in Ids : ~(Turn(k)' < 1 \/ (Turn(k)' = 1 /\ k < 1))
      BY <2>3 DEF Ids
    <2>5. lpc' \notin Early \cup Late
      BY <1>2 DEF Early, Late
    <2> QED BY <1>1, <1>2, <2>1, <2>2, <2>4, <2>5 DEF FillInv
  <1>8. FinalInv'
    BY <1>0, <1>2 DEF FinalInv, Late
  <1> QED BY <1>5, <1>6, <1>7, <1>8 DEF LoadInv

\* An error is latched exactly when one is found or there was one.
LEMMA FillFaultsFacts ==
  ASSUME NEW k, NEW e \in Load!FillFaults(k), e = "none"
  PROVE  /\ lerror = "none"
         /\ \A i \in DOMAIN stream[k].places :
              Load!Fault(stream[k].places[i]) = "none"
  <1> DEFINE ps  == stream[k].places
             bad == { i \in DOMAIN ps : Load!Fault(ps[i]) # "none" }
  <1>1. CASE bad = {}
    <2>1. e = lerror
      BY <1>1 DEF Load!FillFaults
    <2> QED BY <1>1, <2>1
  <1>2. CASE bad # {}
    <2>1. PICK i \in bad : e = Load!Fails(Load!Fault(ps[i]))
      BY <1>2 DEF Load!FillFaults
    <2>2. e # "none"
      BY <2>1 DEF Load!Fails
    <2> QED BY <2>2
  <1> QED BY <1>1, <1>2

\* One record of a pass.
LEMMA FillStep ==
  ASSUME Loading, UNCHANGED vars, freed = {},
         NEW n \in 1..8, Load!FillOf(Load!FillPasses[n])
  PROVE  LoadInv'
  <1> DEFINE pass == Load!FillPasses[n]
             mine == /\ Load!Code(at) = Load!FillKind[pass]
                     /\ (pass = "2f main") <=> (at = Main)
  <1>0. /\ StateInv /\ MadeInv /\ FillInv /\ FinalInv
        /\ Len(stream) \in Nat
        /\ \A k \in Ids : stream[k].kind \in Kinds
        /\ Load!Code(Main) = "thread"
    <2>1. stream[Main].kind = "thread" /\ "thread" \in Kinds
      BY SnapshotFacts DEF Loading, Kinds
    <2> QED BY <2>1, SnapshotFacts, CodeFacts DEF Loading, LoadInv
  <1>1. /\ UNCHANGED <<stream, footer, heap, ordered>>
        /\ Ids' = Ids /\ Main' = Main /\ Load!Ids = Ids
        /\ Load!main_thread_id = Main
        /\ \A k : Turn(k)' = Turn(k)
        /\ \A q : Load!Fault(q)' = Load!Fault(q)
    BY SameSnapshot
  <1>9. /\ lpc = pass /\ at \in Ids
        /\ UNCHANGED <<made, obj_seq, L, L_seq, gcstopped, cached, finobj, globals>>
        /\ mine => Load!FillRecord(at)
        /\ ~mine => UNCHANGED <<filled, body, lerror, lpc, shortage, freed>>
        /\ at' = at + 1 \/ (mine /\ at' = Len(stream) + 1 /\ lerror' # "none")
    BY <1>1 DEF Load!FillOf, Load!state, Load!memory
  <1>2. /\ lpc = pass /\ lpc' \in {pass, "aborted"} /\ at \in Ids
        /\ UNCHANGED <<made, obj_seq, L, L_seq, gcstopped, cached, finobj, globals>>
        /\ mine => Load!FillRecord(at)
        /\ ~mine => UNCHANGED <<filled, body, lerror>>
        /\ at' = at + 1 \/ (mine /\ at' = Len(stream) + 1 /\ lerror' # "none")
        /\ freed' # {} => shortage'
    <2>1. CASE mine
      <3>1. PICK places, q : /\ q \in Load!FillRequests(at, places)
                             /\ lpc' = q[1] /\ shortage' = q[2] /\ freed' = q[3]
        BY <1>9, <2>1 DEF Load!FillRecord, Load!Meets
      <3>2. q = <<lpc, shortage, freed>> \/ \E g : q \in Load!Requests(g)
        BY <3>1 DEF Load!FillRequests
      <3>3. q[1] \in {lpc, "aborted"} /\ (q[3] # {} => q[2] = TRUE)
        <4>1. CASE q = <<lpc, shortage, freed>>
          <5>1. q[1] = lpc /\ q[3] = {}
            BY <4>1
          <5> QED BY <5>1
        <4> QED BY <3>2, <4>1, RequestFacts
      <3> QED BY <1>9, <3>1, <3>3
    <2>2. CASE ~mine
      BY <1>9, <2>2
    <2> QED BY <2>1, <2>2
  <1>3. pass \in Fills /\ pass \notin Early \cup Late \cup Given \cup Ended
    BY PassFacts, NotAFill
  <1>10. /\ lpc' \in Fills \cup Ended /\ lpc' \notin Early \cup Late \cup Given
         /\ \A p \in 1..8 : lpc' = Load!FillPasses[p] => lpc' = pass
    BY <1>2, <1>3, NotAFill DEF Ended, Early, Late, Given
  <1>4. \A q : Load!Loaded(q)' = Load!Loaded(q)
    BY <1>2, SameSnapshot
  <1>5. StateInv'
    BY <1>0, <1>1, <1>2, <1>3, <1>10 DEF StateInv, Early, Late, Given, Ended
  <1>6. MadeInv'
    <2>1. at' \in Nat /\ at' >= 1
      <3>1. at' = at + 1 \/ at' = Len(stream) + 1
        BY <1>2
      <3>2. at \in Nat /\ Len(stream) \in Nat
        BY <1>0 DEF MadeInv
      <3> QED BY <3>1, <3>2
    <2>2. pass \notin Early
      BY <1>3
    <2> QED BY <1>0, <1>1, <1>2, <1>3, <1>10, <2>1, <2>2 DEF MadeInv, Early
  <1>7. FinalInv'
    BY <1>0, <1>2, <1>3, <1>10 DEF FinalInv, Late
  <1>8. FillInv'
    <2>1. /\ DOMAIN body = Ids /\ filled \subseteq Ids
          /\ \A k \in filled :
               body[k] = [i \in DOMAIN stream[k].places |->
                            Load!Loaded(stream[k].places[i])]
      BY <1>0, <1>2, <1>3 DEF FillInv
    <2>2. ASSUME lerror = "none"
          PROVE  /\ \A k \in Ids : Turn(k) < n \/ (Turn(k) = n /\ k < at)
                                     => k \in filled
                 /\ \A k \in filled : \A i \in DOMAIN stream[k].places :
                      Load!Fault(stream[k].places[i]) = "none"
      BY <1>0, <1>2, <2>2 DEF FillInv
    <2>3. ASSUME NEW p \in 1..8, lpc' = Load!FillPasses[p]
          PROVE  p = n
      BY <1>10, <2>3, PassFacts
    <2>4. ASSUME NEW k \in Ids, Turn(k) = n, k = at
          PROVE  mine
      <3>1. k = Main => Load!Code(k) = "thread"
        BY <1>0
      <3>2. /\ Load!Code(k) = Load!FillKind[Load!FillPasses[n]]
            /\ (Load!FillPasses[n] = "2f main") <=> (k = Main)
        BY <1>0, <2>4, <3>1, TurnIsMine
      <3> QED BY <2>4, <3>2
    <2> HIDE DEF mine
    <2>5. CASE mine
      <3>1. /\ filled' = filled \cup {at}
            /\ body' = [body EXCEPT ![at] =
                          [i \in DOMAIN stream[at].places |->
                             Load!Loaded(stream[at].places[i])]]
            /\ lerror' \in Load!FillFaults(at)
        BY <1>2, <2>5 DEF Load!FillRecord
      <3>2. DOMAIN body' = Ids /\ filled' \subseteq Ids
        BY <1>2, <2>1, <3>1
      <3>3. ASSUME NEW k \in filled'
            PROVE  body'[k] = [i \in DOMAIN stream[k].places |->
                                 Load!Loaded(stream[k].places[i])]
        BY <1>2, <2>1, <3>1
      <3>4. ASSUME lerror' = "none"
            PROVE  /\ lerror = "none"
                   /\ \A i \in DOMAIN stream[at].places :
                        Load!Fault(stream[at].places[i]) = "none"
                   /\ at' = at + 1
        BY <1>2, <3>1, <3>4, FillFaultsFacts
      <3>5. ASSUME lerror' = "none"
            PROVE  \A k \in filled' : \A i \in DOMAIN stream[k].places :
                     Load!Fault(stream[k].places[i]) = "none"
        BY <2>2, <3>1, <3>4, <3>5
      <3>6. ASSUME lerror' = "none", NEW k \in Ids,
                   Turn(k) < n \/ (Turn(k) = n /\ k < at')
            PROVE  k \in filled'
        <4>1. k < at' => k < at \/ k = at
          BY <1>2, <3>4, <3>6 DEF Ids
        <4> QED BY <2>2, <3>1, <3>4, <3>6, <4>1
      <3> QED BY <1>1, <1>10, <1>4, <2>3, <3>2, <3>3, <3>5, <3>6
              DEF FillInv
    <2>6. CASE ~mine
      <3>1. UNCHANGED <<filled, body, lerror>> /\ at' = at + 1
        BY <1>2, <2>6
      <3>2. ASSUME lerror = "none", NEW k \in Ids,
                   Turn(k) < n \/ (Turn(k) = n /\ k < at')
            PROVE  k \in filled
        <4>1. k < at' => k < at \/ k = at
          BY <1>2, <3>1, <3>2 DEF Ids
        <4> QED BY <2>2, <2>4, <2>6, <3>2, <4>1
      <3> QED BY <1>1, <1>10, <1>4, <2>1, <2>2, <2>3, <3>1, <3>2
              DEF FillInv
    <2> QED BY <2>5, <2>6
  <1> QED BY <1>5, <1>6, <1>7, <1>8 DEF LoadInv

\* The end of a pass, and of the last one.
LEMMA EndFillSteps ==
  ASSUME Loading, UNCHANGED vars, Load!EndFill \/ Load!CheckAndRepairCaches
  PROVE  LoadInv'
  <1>0. /\ StateInv /\ MadeInv /\ FillInv /\ FinalInv
        /\ Len(stream) \in Nat
        /\ \A k \in Ids : Turn(k) \in 1..9
    <2>1. /\ Len(stream) \in Nat /\ \A k \in Ids : stream[k].kind \in Kinds
      BY SnapshotFacts DEF Loading
    <2> QED BY <2>1, EveryTurn DEF Loading, LoadInv
  <1>1. /\ UNCHANGED <<stream, footer, heap, ordered>>
        /\ Ids' = Ids /\ Main' = Main /\ Load!Ids = Ids
        /\ \A k : Turn(k)' = Turn(k)
        /\ \A q : Load!Fault(q)' = Load!Fault(q)
    BY SameSnapshot
  <1>2. ASSUME NEW n \in 1..8, lpc = Load!FillPasses[n], at \notin Ids,
               lerror = "none", NEW k \in Ids, Turn(k) < n + 1
        PROVE  k \in filled
    <2>1. at > Len(stream)
      BY <1>0, <1>2 DEF MadeInv, Ids
    <2>2. k < at
      BY <1>0, <2>1 DEF Ids, MadeInv
    <2>3. Turn(k) < n \/ Turn(k) = n
      <3>1. Turn(k) \in Int
        BY <1>0
      <3> QED BY <1>2, <3>1
    <2> QED BY <1>0, <1>2, <2>2, <2>3 DEF FillInv
  <1>3. CASE Load!EndFill
    <2>1. PICK n \in 1..7 : /\ lpc = Load!FillPasses[n] /\ at \notin Ids
                            /\ lpc' = Load!FillPasses[n + 1] /\ at' = 1
      BY <1>1, <1>3 DEF Load!EndFill
    <2>2. UNCHANGED <<made, filled, body, obj_seq, L, L_seq, gcstopped, cached,
                      finobj, globals, lerror, shortage, freed>>
      BY <1>3 DEF Load!EndFill, Load!objects, Load!state, Load!memory
    <2>3. n \in 1..8 /\ n + 1 \in 1..8
      OBVIOUS
    <2>4. /\ lpc \in Fills /\ lpc' \in Fills
          /\ lpc \notin Early \cup Late \cup Given
          /\ lpc' \notin Early \cup Late \cup Given
      BY <2>1, <2>3, PassFacts, NotAFill
    <2>5. StateInv'
      BY <1>0, <1>1, <2>2, <2>4 DEF StateInv, Early, Late, Given
    <2>6. MadeInv'
      BY <1>0, <1>1, <2>1, <2>2, <2>4 DEF MadeInv, Early
    <2>7. FillInv'
      <3>1. \A p \in 1..8 : lpc' = Load!FillPasses[p] => p = n + 1
        BY <2>1, <2>3, PassFacts
      <3>2. ASSUME lerror = "none", NEW k \in Ids,
                   Turn(k) < n + 1 \/ (Turn(k) = n + 1 /\ k < 1)
            PROVE  k \in filled
        <4>1. Turn(k) < n + 1
          BY <3>2 DEF Ids
        <4> QED BY <1>2, <2>1, <2>3, <3>2, <4>1
      <3>3. \A q : Load!Loaded(q)' = Load!Loaded(q)
        BY <2>2, SameSnapshot
      <3> QED BY <1>0, <1>1, <2>1, <2>2, <2>4, <3>1, <3>2, <3>3 DEF FillInv
    <2>8. FinalInv'
      BY <1>0, <2>2, <2>4 DEF FinalInv, Late
    <2> QED BY <2>5, <2>6, <2>7, <2>8 DEF LoadInv
  <1>4. CASE Load!CheckAndRepairCaches
    <2>0. Load!FillPasses[8] = "2g" /\ 8 \in 1..8
      BY DEF Load!FillPasses
    <2>1. /\ lpc = "2g" /\ at \notin Ids
          /\ UNCHANGED <<made, filled, body, obj_seq, L, L_seq, gcstopped,
                         finobj, globals, lerror, shortage, freed>>
          /\ IF lerror # "none"
             THEN lpc' = "fail_L" /\ UNCHANGED <<at, cached>>
             ELSE lpc' = "2h" /\ at' = 1 /\ cached' = {}
      BY <1>1, <1>4 DEF Load!CheckAndRepairCaches, Load!objects, Load!memory
    <2>2. lpc' \notin Fills /\ \A p \in 1..8 : lpc' # Load!FillPasses[p]
      BY <2>1, NotAFill DEF Late, Given
    <2>3. \A q : Load!Loaded(q)' = Load!Loaded(q)
      BY <2>1, SameSnapshot
    <2>4. StateInv'
      BY <1>0, <1>1, <2>1 DEF StateInv, Early, Late, Given, Fills
    <2>5. MadeInv'
      <3>1. /\ made = Ids /\ obj_seq = [k \in Ids |-> heap.seq[ordered[k]]]
            /\ at \in Nat /\ at >= 1
        BY <1>0, <2>1 DEF MadeInv, Fills
      <3>2. at' \in Nat /\ at' >= 1
        BY <2>1, <3>1
      <3>3. lpc' \notin Early
        BY <2>1 DEF Early
      <3> QED BY <1>1, <2>1, <3>1, <3>2, <3>3 DEF MadeInv, Early
    <2>6. ASSUME lerror = "none", NEW k \in Ids, Turn(k) < 9
          PROVE  k \in filled
      BY <1>2, <2>0, <2>1, <2>6
    <2>7. FillInv'
      BY <1>0, <1>1, <2>1, <2>2, <2>3, <2>6 DEF FillInv, Early, Late, Fills
    <2>8. FinalInv'
      <3>1. finobj = << >>
        BY <1>0, <2>1 DEF FinalInv, Late
      <3>2. \A k \in Ids : ~(k < 1)
        BY DEF Ids
      <3> QED BY <1>1, <2>1, <3>1, <3>2 DEF FinalInv, Late
    <2> QED BY <2>4, <2>5, <2>7, <2>8 DEF LoadInv
  <1> QED BY <1>3, <1>4

\* Pass 2h: each object due is registered when the cursor is at it.
LEMMA RegisterStep ==
  ASSUME Loading, UNCHANGED vars, Load!RegisterFinalizer
  PROVE  LoadInv'
  <1>0. StateInv /\ MadeInv /\ FillInv /\ FinalInv
    BY DEF Loading, LoadInv
  <1>1. /\ UNCHANGED <<stream, footer, heap, ordered>>
        /\ Ids' = Ids /\ Main' = Main /\ Load!Ids = Ids
        /\ \A k : Turn(k)' = Turn(k)
        /\ \A q : Load!Fault(q)' = Load!Fault(q)
    BY SameSnapshot
  <1>2. /\ lpc = "2h" /\ lpc' = "2h" /\ at \in Ids /\ at' = at + 1
        /\ finobj' = IF Load!Finalizable(at) THEN Append(finobj, at) ELSE finobj
        /\ UNCHANGED <<made, filled, body, obj_seq, L, L_seq, gcstopped, cached,
                       globals, lerror, shortage, freed>>
    BY <1>1 DEF Load!RegisterFinalizer, Load!objects, Load!memory
  <1>3. "2h" \notin Early \cup Fills /\ "2h" \in Late /\ \A p \in 1..8 : lpc # Load!FillPasses[p]
    BY <1>2, NotAFill DEF Late, Early, Fills
  <1>4. /\ \A q : Load!Loaded(q)' = Load!Loaded(q)
        /\ \A k : Due(k)' = Due(k)
    BY <1>2, SameSnapshot
  <1>5. StateInv'
    BY <1>0, <1>1, <1>2 DEF StateInv
  <1>6. MadeInv'
    <2>1. at' \in Nat /\ at' >= 1
      BY <1>2 DEF Ids
    <2>2. made = Ids /\ obj_seq = [k \in Ids |-> heap.seq[ordered[k]]]
      BY <1>0, <1>2, <1>3 DEF MadeInv
    <2> QED BY <1>1, <1>2, <1>3, <2>1, <2>2 DEF MadeInv, Early
  <1>7. FillInv'
    BY <1>0, <1>1, <1>2, <1>3, <1>4 DEF FillInv
  <1>8. FinalInv'
    <2>1. /\ cached = {} /\ finobj \in Seq(Ids)
          /\ \A n \in DOMAIN finobj : finobj[n] < at /\ Due(finobj[n])
          /\ \A n, m \in DOMAIN finobj : finobj[n] = finobj[m] => n = m
          /\ \A k \in Ids : k < at /\ Due(k) =>
               \E n \in DOMAIN finobj : finobj[n] = k
      BY <1>0, <1>2, <1>3 DEF FinalInv
    <2>2. Load!Finalizable(at) <=> Due(at)
      BY <2>1 DEF Load!Finalizable, Due
    <2>3. /\ at \in Nat /\ \A n \in DOMAIN finobj : finobj[n] \in Nat
          /\ \A k \in Ids : k \in Nat
      BY <1>2, <2>1 DEF Ids
    <2>4. \A k \in Ids : k < at' => k < at \/ k = at
      BY <1>2, <2>3
    <2>7. /\ lpc' \in Late /\ lpc' \notin {"restart", "loaded"}
          /\ cached' = {}
      BY <1>2, <1>3, <2>1
    <2>8. \A k : Due(k)' = Due(k)
      BY <1>4
    <2>5. CASE Due(at)
      <3>1. finobj' = Append(finobj, at)
        BY <1>2, <2>2, <2>5
      <3>2. /\ finobj' \in Seq(Ids)
            /\ DOMAIN finobj' = DOMAIN finobj \cup {Len(finobj) + 1}
            /\ Len(finobj) + 1 \notin DOMAIN finobj
            /\ finobj'[Len(finobj) + 1] = at
            /\ \A n \in DOMAIN finobj : finobj'[n] = finobj[n]
        BY <1>2, <2>1, <3>1
      <3>3. \A n \in DOMAIN finobj' : finobj'[n] < at' /\ Due(finobj'[n])
        BY <1>2, <2>1, <2>3, <2>5, <3>2
      <3>4. \A n \in DOMAIN finobj : finobj'[n] # at
        BY <2>1, <2>3, <3>2
      <3>5. \A n, m \in DOMAIN finobj' : finobj'[n] = finobj'[m] => n = m
        BY <2>1, <3>2, <3>4
      <3>6. \A k \in Ids : k < at' /\ Due(k) =>
              \E n \in DOMAIN finobj' : finobj'[n] = k
        BY <2>1, <2>4, <3>2
      <3> QED BY <1>1, <2>7, <2>8, <3>2, <3>3, <3>5, <3>6 DEF FinalInv
    <2>6. CASE ~Due(at)
      <3>1. finobj' = finobj
        BY <1>2, <2>2, <2>6
      <3>2. \A n \in DOMAIN finobj : finobj[n] < at'
        BY <1>2, <2>1, <2>3
      <3>3. \A k \in Ids : k < at' /\ Due(k) =>
              \E n \in DOMAIN finobj : finobj[n] = k
        BY <2>1, <2>4, <2>6
      <3> QED BY <1>1, <2>1, <2>7, <2>8, <3>1, <3>2, <3>3 DEF FinalInv
    <2> QED BY <2>5, <2>6
  <1> QED BY <1>5, <1>6, <1>7, <1>8 DEF LoadInv

\* The roots go in, the collector starts, or the state is closed.
LEMMA LastSteps ==
  ASSUME Loading, UNCHANGED vars,
         Load!InstallRoots \/ Load!RestartCollector \/ Load!CloseState
  PROVE  LoadInv'
  <1>0. /\ StateInv /\ MadeInv /\ FillInv /\ FinalInv
        /\ \A r \in DOMAIN footer : r # 2 /\ footer[r] # 0 =>
             footer[r] \in Ids /\ Load!Code(footer[r]) = "table"
    <2>1. \A r \in DOMAIN footer : r # 2 /\ footer[r] # 0 =>
             footer[r] \in Ids /\ stream[footer[r]].kind = "table"
      BY SnapshotFacts DEF Loading
    <2>2. "table" \in Kinds /\ "table" # "upval"
      BY DEF Kinds
    <2>3. \A k : stream[k].kind = "table" => Load!Code(k) = "table"
      BY <2>2, CodeFacts
    <2> QED BY <2>1, <2>3 DEF Loading, LoadInv
  <1>1. /\ UNCHANGED <<stream, footer, heap, ordered>>
        /\ Ids' = Ids /\ Main' = Main /\ Load!Ids = Ids
        /\ \A k : Turn(k)' = Turn(k)
        /\ \A q : Load!Fault(q)' = Load!Fault(q)
    BY SameSnapshot
  <1>2. UNCHANGED <<at, made, filled, body, obj_seq, cached, finobj,
                    shortage, freed>>
    BY DEF Load!InstallRoots, Load!RestartCollector, Load!CloseState,
           Load!objects, Load!memory
  <1>3. /\ \A q : Load!Loaded(q)' = Load!Loaded(q)
        /\ \A k : Due(k)' = Due(k)
    BY <1>2, SameSnapshot
  <1>4. \/ /\ lpc = "2h" /\ lpc' = "restart" /\ at \notin Ids
           /\ globals' = footer /\ L_seq' = heap.next_seq
           /\ UNCHANGED <<L, gcstopped, lerror>>
        \/ /\ lpc = "restart" /\ lpc' = "loaded" /\ gcstopped' = FALSE
           /\ UNCHANGED <<L, L_seq, globals, lerror>>
        \/ /\ lpc = "fail_L" /\ lpc' = "failed" /\ L' = "closed"
           /\ UNCHANGED <<L_seq, gcstopped, globals, lerror>>
    <2>1. CASE Load!InstallRoots
      <3>1. ~\E r \in DOMAIN footer : Load!BadRoot(r)
        BY <1>0, <1>1 DEF Load!BadRoot
      <3> QED BY <1>1, <2>1, <3>1 DEF Load!InstallRoots
    <2> QED BY <2>1 DEF Load!RestartCollector, Load!CloseState
  <1>5. lpc' \notin Early \cup Fills /\ \A p \in 1..8 : lpc' # Load!FillPasses[p]
    BY <1>4, NotAFill DEF Late, Early, Given, Fills
  <1>6. lpc' \in Late => lpc \in Late
    BY <1>4 DEF Late
  <1>7. StateInv'
    BY <1>0, <1>1, <1>2, <1>4 DEF StateInv, Early, Late, Given, Fills, Ended
  <1>8. MadeInv'
    BY <1>0, <1>1, <1>2, <1>5, <1>6 DEF MadeInv, Early
  <1>9. FillInv'
    <2>1. lerror' = lerror
      BY <1>4
    <2> QED BY <1>0, <1>1, <1>2, <1>3, <1>5, <1>6, <2>1 DEF FillInv, Early
  <1>10. FinalInv'
    <2>1. lpc \notin Late => finobj = << >>
      BY <1>0 DEF FinalInv
    <2>2. lpc' \notin Late => lpc \notin Late
      BY <1>4 DEF Late
    <2>3. lpc' \in {"restart", "loaded"} => at > Len(stream)
      BY <1>0, <1>4, SnapshotFacts DEF FinalInv, Ids, MadeInv, Loading
    <2> QED BY <1>0, <1>1, <1>2, <1>3, <1>6, <2>1, <2>2, <2>3 DEF FinalInv
  <1> QED BY <1>7, <1>8, <1>9, <1>10 DEF LoadInv

\* Every step of lstasis_load keeps the invariant of the load.
LEMMA LoadStepKeeps == Loading /\ LoadStep => LoadInv'
  <1> SUFFICES ASSUME Loading, LoadStep PROVE LoadInv'
    OBVIOUS
  <1>1. UNCHANGED vars /\ freed = {} /\ Load!LStep
    BY DEF LoadStep, Load!LNext
  <1>2. ASSUME NEW l \in Fills, Load!FillOf(l)
        PROVE  LoadInv'
    <2>1. PICK n \in 1..8 : l = Load!FillPasses[n]
      BY PassFacts
    <2> QED BY <1>1, <1>2, <2>1, FillStep
  <1>3. CASE \/ Load!FillProtos \/ Load!FillUpvals \/ Load!FillLClosures
             \/ Load!FillCClosures \/ Load!FillTables \/ Load!FillThreads
             \/ Load!FillUserdata
    BY <1>2, <1>3 DEF Load!FillProtos, Load!FillUpvals, Load!FillLClosures,
         Load!FillCClosures, Load!FillTables, Load!FillThreads,
         Load!FillUserdata, Fills
  <1> QED BY <1>1, <1>3, EarlySteps, ObjidsStep, EndFillSteps, RegisterStep,
             LastSteps DEF Load!LStep

\* The footer is written once, and kept when the buffer is handed out.
LEMMA NextKeepsFooted == SaveInv /\ Footed /\ [Next]_vars => Footed'
  <1> SUFFICES ASSUME SaveInv, Footed, [Next]_vars PROVE Footed'
    OBVIOUS
  <1>1. CASE WriteRoots
    BY <1>1 DEF WriteRoots, Footed, ser_get_id, discovery
  <1>2. CASE Return
    BY <1>2 DEF Return, Footed, ser_get_id, discovery, output
  <1>3. CASE UNCHANGED vars
    BY <1>3 DEF vars, Footed, ser_get_id
  <1>4. CASE \/ DiscoverRoot \/ EndRoots \/ PopObj \/ DiscoverPlace \/ EndObj
             \/ EndDiscovery \/ WriteObj
    <2>1. pc' \notin {"footer", "done"}
      BY <1>4 DEF DiscoverRoot, EndRoots, PopObj, DiscoverPlace, EndObj,
                  EndDiscovery, WriteObj
    <2> QED BY <2>1 DEF Footed
  <1> QED BY <1>1, <1>2, <1>3, <1>4 DEF Next

\* A save that is over takes no step.
LEMMA DoneIsFinal == Next => pc # "done"
  BY DEF Next, DiscoverRoot, EndRoots, PopObj, DiscoverPlace, EndObj,
         EndDiscovery, WriteObj, WriteRoots, Return

\* The invariant holds before the save.
LEMMA RTInitInv == RTInit => RTInv
  BY InitInv, IdleLoad DEF RTInit, RTInv, Init, Written, Footed

\* The invariant is inductive over the save and the load after it.
LEMMA RTNextKeepsInv == RTInv /\ [RTNext]_<<vars, loadvars>> => RTInv'
  <1> SUFFICES ASSUME RTInv, [RTNext]_<<vars, loadvars>> PROVE RTInv'
    OBVIOUS
  <1>1. [Next]_vars
    BY DEF RTNext, SaveStep, LoadStep
  <1>2. SaveInv' /\ Written' /\ Footed'
    BY <1>1, NextKeepsInv, NextKeepsWritten, NextKeepsFooted DEF RTInv
  <1>3. CASE SaveStep
    <2>1. pc # "done"
      BY <1>3, DoneIsFinal DEF SaveStep
    <2>2. Load!LInit'
      BY <1>3, <2>1 DEF SaveStep, loadvars, RTInv, Load!LInit
    <2>3. LoadInv'
      BY <2>2, IdleLoad, PTL
    <2> QED BY <1>2, <2>2, <2>3 DEF RTInv
  <1>4. CASE LoadStep
    BY <1>2, <1>4, LoadStepKeeps DEF RTInv, Loading, LoadStep, vars
  <1>5. CASE UNCHANGED <<vars, loadvars>>
    <2>1. /\ UNCHANGED <<vars, lpc, at, made, filled, body, obj_seq, L, L_seq,
                         gcstopped, cached, finobj, globals, lerror,
                         shortage, freed, pc>>
          /\ UNCHANGED <<stream, footer, heap, ordered>>
      BY <1>5 DEF loadvars, vars
    <2>2. /\ Ids' = Ids /\ Main' = Main
          /\ \A k : Turn(k)' = Turn(k)
          /\ \A q : Load!Fault(q)' = Load!Fault(q)
          /\ \A q : Load!Loaded(q)' = Load!Loaded(q)
          /\ \A k : Due(k)' = Due(k)
      BY <2>1, SameSnapshot
    <2>3. StateInv' /\ MadeInv'
      BY <2>1, <2>2 DEF RTInv, LoadInv, StateInv, MadeInv
    <2>4. FillInv'
      BY <2>1, <2>2 DEF RTInv, LoadInv, FillInv
    <2>5. FinalInv'
      BY <2>1, <2>2 DEF RTInv, LoadInv, FinalInv
    <2>6. pc' # "done" => Load!LInit'
      BY <2>1 DEF RTInv, Load!LInit
    <2> QED BY <1>2, <2>3, <2>4, <2>5, <2>6 DEF RTInv, LoadInv
  <1> QED BY <1>3, <1>4, <1>5 DEF RTNext

-----------------------------------------------------------------------------
\* Records and saved objects are the same things under their ids.
LEMMA IdOf ==
  ASSUME Loading, NEW o \in Known
  PROVE  /\ o \in Obj /\ id[o] \in Ids /\ ordered[id[o]] = o
         /\ stream[id[o]] = Record(o)
         /\ DOMAIN stream[id[o]].places = DOMAIN heap.places[o]
         /\ \A i \in DOMAIN heap.places[o] :
              stream[id[o]].places[i] = WirePlace(heap.places[o][i])
  <1>1. o \in Obj /\ id[o] \in DOMAIN ordered /\ ordered[id[o]] = o
    BY DEF Loading, SaveInv, IdsAreStreamPositions, Known
  <1>2. id[o] \in Ids /\ stream[id[o]] = Record(o)
    BY <1>1, SnapshotFacts DEF Loading
  <1>3. stream[id[o]].places =
          [i \in DOMAIN heap.places[o] |-> WirePlace(heap.places[o][i])]
    BY <1>2 DEF Record
  <1> QED BY <1>1, <1>2, <1>3

\* And every id is that of a saved object.
LEMMA ObjectOf ==
  ASSUME Loading, NEW k \in Ids
  PROVE  ordered[k] \in Known /\ id[ordered[k]] = k
  BY SnapshotFacts DEF Loading, Known, Ids

\* A saved place has a type and a form.
LEMMA SavedPlace ==
  ASSUME Loading, NEW o \in Known, NEW i \in DOMAIN heap.places[o]
  PROVE  LET p == heap.places[o][i] IN
           /\ p \in Places(heap, o)
           /\ p.role \in Roles /\ p.val \in Value \cup {Absent}
           /\ p.role \in Pointers => p.val \in Obj \cup {Absent}
           /\ p.role \in DOMAIN PointsTo /\ p.val # Absent =>
                p.val \in Obj /\ heap.kind[p.val] = PointsTo[p.role]
           /\ ~Unsaveable(heap, p)
  <1> DEFINE p == heap.places[o][i]
  <1>1. heap \in Heaps /\ o \in Obj /\ heap.places[o] \in Seq(Place)
    BY HeapFacts DEF Loading, SaveInv, TypeOK, Known
  <1>2. p \in Places(heap, o) /\ p.role \in Roles /\ p.val \in Value \cup {Absent}
    <2>1. p \in Place
      BY <1>1
    <2> QED BY <2>1 DEF Place, Places
  <1>3. p.role \in Pointers => p.val \in Obj \cup {Absent}
    BY <1>1, HeapAssumption, Zenon
  <1>4. p.role \in DOMAIN PointsTo /\ p.val # Absent =>
          heap.kind[p.val] = PointsTo[p.role]
    <2>1. \A x \in Obj : \A j \in DOMAIN heap.places[x] :
            heap.places[x][j].role \in DOMAIN PointsTo
            /\ heap.places[x][j].val # Absent =>
              heap.kind[heap.places[x][j].val] = PointsTo[heap.places[x][j].role]
      BY <1>1, HeapAssumption, Zenon
    <2> QED BY <1>1, <2>1, Zenon
  <1>5. p.role \in DOMAIN PointsTo /\ p.val # Absent => p.val \in Obj
    BY <1>3 DEF Pointers
  <1>6. ~Offends(heap, o)
    BY NothingOffends DEF Loading, SaveInv, Phases
  <1> QED BY <1>2, <1>3, <1>4, <1>5, <1>6 DEF Offends

\* The type codes the loader expects, role by role.
LEMMA ExpectedFacts ==
  /\ Load!Expected["meta"] = {"table"} /\ Load!Expected["inner"] = {"proto"}
  /\ Load!Expected["proto"] = {"proto"} /\ Load!Expected["frame"] = {"proto"}
  /\ Load!Expected["name"] = {"string"}
  /\ Load!Expected["upref"] = {"open upval", "closed upval"}
  /\ Load!Expected["openuv"] = {"open upval"}
  BY DEF Load!Expected

LEMMA PointerFacts ==
  ASSUME NEW role \in DOMAIN PointsTo, role \notin {"upref", "openuv"}
  PROVE  PointsTo[role] # "upval" /\ PointsTo[role] \in Load!Expected[role]
  <1>1. role \in {"meta", "inner", "name", "proto", "frame"}
    BY DEF PointsTo
  <1>2. /\ PointsTo["meta"] = "table" /\ PointsTo["inner"] = "proto"
        /\ PointsTo["name"] = "string" /\ PointsTo["proto"] = "proto"
        /\ PointsTo["frame"] = "proto"
    BY DEF PointsTo
  <1> QED BY <1>1, <1>2, ExpectedFacts

\* Every id a record holds is one the loader accepts in that place, and every
\* continuation is one it knows.
LEMMA OwnPlacesAreSound ==
  ASSUME Loading, NEW k \in Ids, NEW i \in DOMAIN stream[k].places
  PROVE  /\ Load!Fault(stream[k].places[i]) \in {"none", "C function"}
         /\ Load!Fault(stream[k].places[i]) = "C function" =>
              \E p \in Places(heap, ordered[k]) :
                /\ p.role \in Tagged \cup {"cfn"} /\ p.val \in CFunction
                /\ FnOf[NameOf[p.val]] = Absent
  <1> DEFINE o == ordered[k]
             p == heap.places[o][i]
             w == stream[k].places[i]
  <1>1. o \in Known /\ id[o] = k
    BY ObjectOf
  <1>2. i \in DOMAIN heap.places[o] /\ w = WirePlace(p)
    BY <1>1, IdOf
  <1>3. /\ p \in Places(heap, o)
        /\ p.role \in Roles /\ p.val \in Value \cup {Absent}
        /\ p.role \in Pointers => p.val \in Obj \cup {Absent}
        /\ p.role \in DOMAIN PointsTo /\ p.val # Absent =>
             p.val \in Obj /\ heap.kind[p.val] = PointsTo[p.role]
        /\ ~Unsaveable(heap, p)
    BY <1>1, <1>2, SavedPlace
  <1>4. /\ Absent \notin Obj /\ Absent \notin CFunction
        /\ Obj \cap CFunction = {} /\ id \in [Obj -> Nat]
    BY HeapFacts DEF Loading, SaveInv, TypeOK
  <1>5. Load!Ids = Ids
    BY DEF Load!Ids, Ids
  <1> HIDE DEF o, p, w
  <1>6. w.role = p.role
    BY <1>2 DEF WirePlace
  <1>7. CASE p.role = "open" \/ p.val = Absent
    <2>1. w.val = <<"id", 0>>
      BY <1>2, <1>7 DEF WirePlace, Wire, ser_get_id
    <2>2. Load!Fault(w) = "none"
      BY <2>1 DEF Load!Fault, Load!BadId
    <2> QED BY <2>2 DEF w
  <1>8. CASE p.role = "kont" /\ p.val # Absent
    <2>1. w.val = <<"kont", p.val>> /\ p.val \in BuiltinKonts
      BY <1>2, <1>3, <1>8 DEF WirePlace, Unsaveable
    <2>2. Load!Fault(w) = "none"
      BY <2>1 DEF Load!Fault, Load!BadId
    <2> QED BY <2>2 DEF w
  <1>9. CASE p.role \notin {"open", "kont"} /\ p.val \in Obj
    <2>1. w.val = <<"id", id[p.val]>>
      BY <1>2, <1>4, <1>9 DEF WirePlace, Wire, ser_get_id
    <2>2. ~Load!BadId(w)
      <3> SUFFICES ASSUME Load!BadId(w) PROVE FALSE
        OBVIOUS
      <3>1. id[p.val] # 0
        BY <2>1 DEF Load!BadId
      <3>2. p.val \in Known
        BY <1>9, <3>1 DEF Known
      <3>3. id[p.val] \in Ids /\ stream[id[p.val]].kind = heap.kind[p.val]
        <4>1. id[p.val] \in Ids /\ stream[id[p.val]] = Record(p.val)
          BY <3>2, IdOf
        <4> QED BY <4>1 DEF Record
      <3>6. w.tag # "none" => stream[id[p.val]].kind = w.tag
        BY <1>2, <3>3 DEF WirePlace, TagOf
      <3>4. /\ p.role \in DOMAIN Load!Expected
            /\ Load!Code(id[p.val]) \notin Load!Expected[p.role]
        BY <1>5, <1>6, <2>1, <3>3, <3>6 DEF Load!BadId
      <3>5. p.role \in DOMAIN PointsTo /\ stream[id[p.val]].kind = PointsTo[p.role]
        BY <1>3, <1>4, <1>9, <3>3, <3>4 DEF Load!Expected, PointsTo
      <3>7. stream[id[p.val]].kind \in Kinds
        BY <3>3, SnapshotFacts DEF Loading
      <3>8. CASE p.role \notin {"upref", "openuv"}
        <4>1. /\ PointsTo[p.role] # "upval"
              /\ PointsTo[p.role] \in Load!Expected[p.role]
          BY <3>5, <3>8, PointerFacts
        <4>2. Load!Code(id[p.val]) = PointsTo[p.role]
          BY <3>5, <3>7, <4>1, CodeFacts
        <4> QED BY <3>4, <4>1, <4>2
      <3>9. CASE p.role = "upref"
        <4>1. stream[id[p.val]].kind = "upval"
          BY <3>5, <3>9 DEF PointsTo
        <4>2. Load!Code(id[p.val]) \in {"open upval", "closed upval"}
          BY <3>7, <4>1, CodeFacts
        <4> QED BY <3>4, <3>9, <4>2, ExpectedFacts
      <3>10. CASE p.role = "openuv"
        <4>1. stream[id[p.val]].kind = "upval"
          BY <3>5, <3>10 DEF PointsTo
        <4>2. heap \in Heaps /\ o \in Obj
          BY <1>1 DEF Loading, SaveInv, TypeOK, Known
        <4>3. PICK j \in DOMAIN heap.places[p.val] :
                heap.places[p.val][j].role = "open"
          BY <1>3, <1>4, <1>9, <3>10, <4>2, HeapAssumption DEF Places
        <4>4. stream[id[p.val]].places[j].role = "open"
              /\ j \in DOMAIN stream[id[p.val]].places
          <5>1. j \in DOMAIN stream[id[p.val]].places
                /\ stream[id[p.val]].places[j] = WirePlace(heap.places[p.val][j])
            BY <3>2, <4>3, IdOf
          <5> QED BY <4>3, <5>1 DEF WirePlace
        <4>5. Load!Code(id[p.val]) = "open upval"
          BY <4>1, <4>4 DEF Load!Code
        <4> QED BY <3>4, <3>10, <4>5, ExpectedFacts
      <3> QED BY <3>8, <3>9, <3>10
    <2>3. Load!Fault(w) = "none"
      BY <2>1, <2>2 DEF Load!Fault
    <2> QED BY <2>3 DEF w
  <1>10. CASE p.role \notin {"open", "kont"} /\ p.val \in CFunction
    <2>1. w.val = <<"cfn", NameOf[p.val]>>
      BY <1>2, <1>4, <1>10 DEF WirePlace, Wire
    <2>2. p.role \in Tagged \cup {"cfn"}
      <3>1. p.role \notin Pointers
        BY <1>3, <1>4, <1>10
      <3>2. p.role # "uservalue"
        BY <1>3 DEF Unsaveable
      <3> QED BY <1>3, <1>10, <3>1, <3>2 DEF Roles, Tagged, Pointers, PointsTo
    <2>3. ~Load!BadId(w)
      BY <2>1 DEF Load!BadId
    <2>4. CASE FnOf[NameOf[p.val]] = Absent
      <3>1. Load!Fault(w) = "C function"
        BY <2>1, <2>3, <2>4 DEF Load!Fault
      <3> QED BY <1>3, <1>10, <2>2, <2>4, <3>1 DEF w, o
    <2>5. CASE FnOf[NameOf[p.val]] # Absent
      <3>1. Load!Fault(w) = "none"
        BY <2>1, <2>3, <2>5 DEF Load!Fault
      <3> QED BY <3>1 DEF w
    <2> QED BY <2>4, <2>5
  <1>11. CASE /\ p.role \notin {"open", "kont"} /\ p.val # Absent
              /\ p.val \notin Obj \cup CFunction
    <2>1. w.val = <<"scalar", p.val>>
      BY <1>2, <1>11 DEF WirePlace, Wire
    <2>2. Load!Fault(w) = "none"
      BY <2>1 DEF Load!Fault, Load!BadId
    <2> QED BY <2>2 DEF w
  <1> QED BY <1>7, <1>8, <1>9, <1>10, <1>11

\* A step of the load latches no error but the ones with a cause.
LEMMA LoadStepKeepsCause ==
  ASSUME Loading, LoadStep, RefusedForCause
  PROVE  RefusedForCause'
  <1> DEFINE Cause == \E o \in Known : \E p \in Places(heap, o) :
                        /\ p.role \in Tagged \cup {"cfn"} /\ p.val \in CFunction
                        /\ FnOf[NameOf[p.val]] = Absent
  <1>1. UNCHANGED <<id, heap, stream, footer>> /\ Load!LStep
    BY DEF LoadStep, Load!LNext, vars
  <1>2. Cause' <=> Cause
    BY <1>1 DEF Known, Places
  <1>3. SUFFICES \/ lerror' \in {lerror, "none", "memory"}
                 \/ lerror' = "C function" /\ Cause
    BY <1>2 DEF RefusedForCause
  <1>4. ASSUME NEW l, Load!FillOf(l)
        PROVE  lerror' = lerror \/ (lerror' = "C function" /\ Cause)
    <2>1. CASE lerror' = lerror
      BY <2>1
    <2>2. CASE lerror' # lerror
      <3>1. at \in Ids /\ lerror' \in Load!FillFaults(at)
        BY <1>4, <2>2 DEF Load!FillOf, Load!FillRecord, Load!Ids, Ids
      <3>2. PICK i \in DOMAIN stream[at].places :
              /\ Load!Fault(stream[at].places[i]) # "none"
              /\ lerror' = Load!Fails(Load!Fault(stream[at].places[i]))
        BY <2>2, <3>1 DEF Load!FillFaults
      <3>3. lerror' = Load!Fault(stream[at].places[i])
        BY <2>2, <3>2 DEF Load!Fails
      <3>4. lerror' = "C function"
        BY <3>1, <3>2, <3>3, OwnPlacesAreSound
      <3>5. \E p \in Places(heap, ordered[at]) :
                /\ p.role \in Tagged \cup {"cfn"} /\ p.val \in CFunction
                /\ FnOf[NameOf[p.val]] = Absent
        BY <3>1, <3>3, <3>4, OwnPlacesAreSound
      <3> QED BY <3>1, <3>4, <3>5, ObjectOf
    <2> QED BY <2>1, <2>2
  <1>5. CASE \/ Load!FillProtos \/ Load!FillUpvals \/ Load!FillLClosures
             \/ Load!FillCClosures \/ Load!FillTables \/ Load!FillThreads
             \/ Load!FillUserdata
    BY <1>4, <1>5 DEF Load!FillProtos, Load!FillUpvals, Load!FillLClosures,
         Load!FillCClosures, Load!FillTables, Load!FillThreads,
         Load!FillUserdata
  <1>6. CASE Load!ReadIndex \/ Load!NewState \/ Load!IdTable
    <2>1. stream[Main].kind = "thread" /\ Main \in Ids /\ "thread" \in Kinds
      BY SnapshotFacts DEF Loading, Kinds
    <2>2. Load!Code(Main) = "thread"
      BY <2>1, CodeFacts
    <2>3. Load!main_thread_id = Main /\ Load!Ids = Ids
      BY DEF Load!main_thread_id, Main, Load!Ids, Ids
    <2> QED BY <1>6, <2>1, <2>2, <2>3
            DEF Load!ReadIndex, Load!NewState, Load!IdTable, Load!Fails
  <1>7. CASE \/ Load!Create \/ Load!RestoreObjids \/ Load!EndFill
             \/ Load!CheckAndRepairCaches \/ Load!RegisterFinalizer
             \/ Load!RestartCollector \/ Load!CloseState
    BY <1>7 DEF Load!Create, Load!RestoreObjids, Load!EndFill,
         Load!CheckAndRepairCaches, Load!RegisterFinalizer,
         Load!RestartCollector, Load!CloseState
  <1>8. CASE Load!InstallRoots
    <2>2. \A r \in DOMAIN footer : r # 2 /\ footer[r] # 0 =>
            footer[r] \in Ids /\ stream[footer[r]].kind = "table"
      BY SnapshotFacts DEF Loading
    <2>3. \A r \in DOMAIN footer : r # 2 /\ footer[r] # 0 =>
            footer[r] \in Ids /\ Load!Code(footer[r]) = "table"
      <3>1. "table" \in Kinds /\ "table" # "upval"
        BY DEF Kinds
      <3>2. \A k : stream[k].kind = "table" => Load!Code(k) = "table"
        BY <3>1, CodeFacts
      <3> QED BY <2>2, <3>2
    <2>1. ~\E r \in DOMAIN footer : Load!BadRoot(r)
      BY <2>3 DEF Load!BadRoot, Load!Ids, Ids
    <2> QED BY <1>8, <2>1 DEF Load!InstallRoots
  <1> QED BY <1>1, <1>5, <1>6, <1>7, <1>8 DEF Load!LStep

-----------------------------------------------------------------------------
\* From pass 2h on, the load is past every failure.
LEMMA LoadedFacts ==
  ASSUME RTInv, lpc \in Late
  PROVE  /\ Loading /\ StateInv /\ MadeInv /\ FillInv /\ FinalInv
         /\ lerror = "none" /\ made = Ids
  <1>1. pc = "done"
    BY DEF RTInv, Load!LInit, Late
  <1> QED BY <1>1 DEF RTInv, Loading, LoadInv, StateInv, MadeInv

\* The image of a value in the loading program, which knows a C function by name.
ImageByName(v) == IF v \in CFunction THEN <<"cfn", FnOf[NameOf[v]]>> ELSE Image(v)
NamedInBoth(v) == NameOf[v] # Absent /\ FnOf[NameOf[v]] # Absent

\* SameState, with the C function the loading program has under the name where
\* the saved state had the one the saving program has under it.
SameUpToNames ==
  lpc = "loaded" =>
    /\ \A o \in Known : \A i \in DOMAIN heap.places[o] :
         LET v == heap.places[o][i].val IN
           stream[id[o]].kind # "string"
           /\ heap.places[o][i].role \notin {"open", "kont"} =>
             /\ v \in CFunction => NamedInBoth(v)
             /\ body[id[o]][i] = IF v = Absent \/ (v \in Obj /\ v \notin Known)
                                THEN <<"nil">> ELSE ImageByName(v)
    /\ globals = [i \in DOMAIN heap.roots |-> ser_get_id(heap.roots[i])]

\* What a filled place holds is the image of what was saved.
LEMMA LoadedPlace ==
  ASSUME RTInv, lpc = "loaded", NEW o \in Known, NEW i \in DOMAIN heap.places[o],
         stream[id[o]].kind # "string",
         heap.places[o][i].role \notin {"open", "kont"}
  PROVE  LET v == heap.places[o][i].val IN
           /\ v \in CFunction => NamedInBoth(v)
           /\ body[id[o]][i] = IF v = Absent \/ (v \in Obj /\ v \notin Known)
                              THEN <<"nil">> ELSE ImageByName(v)
  <1> DEFINE p == heap.places[o][i]
             w == stream[id[o]].places[i]
  <1>1. /\ Loading /\ FillInv /\ lerror = "none" /\ made = Ids
    BY LoadedFacts DEF Late
  <1>2. /\ o \in Obj /\ id[o] \in Ids /\ w = WirePlace(p)
        /\ i \in DOMAIN stream[id[o]].places
    BY <1>1, IdOf
  <1>3. id[o] \in filled
    <2>1. stream[id[o]].kind \in Kinds
      BY <1>1, <1>2, SnapshotFacts DEF Loading
    <2>2. Load!Code(id[o]) # "open upval"
      <3> SUFFICES ASSUME Load!Code(id[o]) = "open upval" PROVE FALSE
        OBVIOUS
      <3>1. \E j \in DOMAIN stream[id[o]].places :
              stream[id[o]].places[j].role = "open"
        BY <2>1 DEF Load!Code, Kinds
      <3>2. PICK j \in DOMAIN stream[id[o]].places :
              stream[id[o]].places[j].role = "open"
        BY <3>1
      <3>3. heap \in Heaps
        BY <1>1 DEF Loading, SaveInv, TypeOK
      <3>4. /\ j \in DOMAIN heap.places[o]
            /\ stream[id[o]].places[j] = WirePlace(heap.places[o][j])
        BY <1>1, <3>2, IdOf
      <3>5. heap.places[o][j].role = "open"
        <4>1. \A q : WirePlace(q).role = q.role
          BY DEF WirePlace
        <4> QED BY <3>2, <3>4, <4>1, Zenon
      <3>6. DOMAIN heap.places[o] = {j}
        <4>1. \A h \in Heaps : \A q \in Obj : \A l \in DOMAIN h.places[q] :
                h.places[q][l].role = "open" => DOMAIN h.places[q] = {l}
          BY HeapAssumption
        <4> QED BY <1>2, <3>3, <3>4, <3>5, <4>1, Zenon
      <3> QED BY <3>5, <3>6
    <2>3. Load!Code(id[o]) # "string"
      BY DEF Load!Code
    <2>4. Turn(id[o]) < 9
      BY <2>1, <2>2, <2>3, EveryTurn
    <2>5. \A k \in Ids : Turn(k) < 9 => k \in filled
      BY <1>1 DEF FillInv, Late
    <2> QED BY <1>2, <2>4, <2>5
  <1>4. body[id[o]][i] = Load!Loaded(w) /\ Load!Fault(w) = "none"
    BY <1>1, <1>2, <1>3 DEF FillInv, Late
  <1>5. /\ p \in Places(heap, o) /\ p.role \in Roles
        /\ p.role \in Pointers => p.val \in Obj \cup {Absent}
        /\ ~Unsaveable(heap, p)
    BY <1>1, SavedPlace
  <1>6. /\ Absent \notin Obj /\ Absent \notin CFunction
        /\ Obj \cap CFunction = {} /\ id \in [Obj -> Nat]
    BY <1>1, HeapFacts DEF Loading, SaveInv, TypeOK
  <1>7. 0 \notin made
    BY <1>1 DEF Ids
  <1> HIDE DEF w
  <1>8. w.val = Wire(p.val)
    BY <1>2 DEF WirePlace
  <1>9. CASE p.val = Absent
    <2>1. w.val = <<"id", 0>>
      BY <1>8, <1>9 DEF Wire, ser_get_id
    <2>2. Load!Loaded(w) = <<"nil">>
      BY <1>4, <1>7, <2>1 DEF Load!Loaded
    <2> QED BY <1>4, <1>6, <1>9, <2>2
  <1>10. CASE p.val \in Known
    <2>1. w.val = <<"id", id[p.val]>> /\ p.val \in Obj
      BY <1>6, <1>8, <1>10 DEF Wire, ser_get_id, Known
    <2>2. id[p.val] \in made
      BY <1>1, <1>10, IdOf
    <2>3. Load!Loaded(w) = <<"obj", id[p.val]>>
      BY <1>4, <2>1, <2>2 DEF Load!Loaded
    <2> QED BY <1>4, <1>6, <1>10, <2>1, <2>3 DEF Image, ImageByName
  <1>11. CASE p.val \in Obj /\ p.val \notin Known
    <2>1. w.val = <<"id", 0>>
      BY <1>6, <1>8, <1>11 DEF Wire, ser_get_id, Known
    <2>2. Load!Loaded(w) = <<"nil">>
      BY <1>4, <1>7, <2>1 DEF Load!Loaded
    <2> QED BY <1>4, <1>6, <1>11, <2>2
  <1>12. CASE p.val \in CFunction
    <2>1. w.val = <<"cfn", NameOf[p.val]>>
      BY <1>6, <1>8, <1>12 DEF Wire
    <2>2. FnOf[NameOf[p.val]] # Absent
      <3>1. ~Load!BadId(w)
        BY <2>1 DEF Load!BadId
      <3> QED BY <1>4, <2>1, <3>1 DEF Load!Fault
    <2>3. NameOf[p.val] # Absent
      <3>1. p.role \in Tagged \cup {"cfn"}
        <4>1. p.role \notin Pointers
          BY <1>5, <1>6, <1>12
        <4>2. p.role # "uservalue"
          BY <1>5 DEF Unsaveable
        <4> QED BY <1>5, <4>1, <4>2 DEF Roles, Tagged, Pointers, PointsTo
      <3> QED BY <1>5, <1>12, <3>1 DEF Unsaveable
    <2>4. Load!Loaded(w) = <<"cfn", FnOf[NameOf[p.val]]>>
      BY <1>4, <2>1 DEF Load!Loaded
    <2> QED BY <1>4, <1>6, <1>12, <2>2, <2>3, <2>4 DEF ImageByName, NamedInBoth
  <1>13. CASE p.val # Absent /\ p.val \notin Obj \cup CFunction
    <2>1. w.val = <<"scalar", p.val>>
      BY <1>8, <1>13 DEF Wire
    <2>2. Load!Loaded(w) = <<"scalar", p.val>>
      BY <1>4, <2>1 DEF Load!Loaded
    <2> QED BY <1>4, <1>13, <2>2 DEF Image, ImageByName
  <1> QED BY <1>9, <1>10, <1>11, <1>12, <1>13 DEF Known

\* All places and the roots.
LEMMA LoadedIsSame == RTInv => SameUpToNames
  <1> SUFFICES ASSUME RTInv, lpc = "loaded" PROVE SameUpToNames
    BY DEF SameUpToNames
  <1>1. globals = footer
    BY LoadedFacts DEF Late, StateInv
  <1>2. footer = [i \in DOMAIN heap.roots |-> ser_get_id(heap.roots[i])]
    BY LoadedFacts DEF Late, Loading, Footed
  <1> QED BY <1>1, <1>2, LoadedPlace DEF SameUpToNames

\* A load gives up with nothing registered or ends complete.
LEMMA LoadedIsComplete == RTInv => Load!AllOrNothing
  <1> SUFFICES ASSUME RTInv PROVE Load!AllOrNothing
    OBVIOUS
  <1>0. StateInv /\ MadeInv /\ FillInv /\ FinalInv
    BY DEF RTInv, LoadInv
  <1>1. /\ lpc \in {"fail_L", "failed"} => finobj = << >> /\ lerror # "none"
        /\ lpc = "failed" => L # "open"
    BY <1>0 DEF StateInv, FinalInv, Given, Late
  <1>2. ASSUME lpc = "loaded"
        PROVE  /\ L = "open" /\ ~gcstopped /\ lerror = "none"
               /\ \A k \in Ids : \/ Load!Code(k) \in {"string", "open upval"}
                                  \/ k \in filled
               /\ \A k \in Ids :
                    Cardinality({ n \in DOMAIN finobj : finobj[n] = k }) =
                      IF Due(k) THEN 1 ELSE 0
    <2>1. Loading /\ lerror = "none"
      BY <1>2, LoadedFacts DEF Late
    <2>2. \A k \in Ids : stream[k].kind \in Kinds
      BY <2>1, SnapshotFacts DEF Loading
    <2>3. \A k \in Ids : Load!Code(k) \notin {"string", "open upval"} => Turn(k) < 9
      BY <2>2, EveryTurn
    <2>4. \A k \in Ids : \/ Load!Code(k) \in {"string", "open upval"}
                         \/ k \in filled
      BY <1>0, <1>2, <2>3 DEF FillInv, Late
    <2>5. /\ \A n \in DOMAIN finobj : Due(finobj[n])
          /\ \A n, m \in DOMAIN finobj : finobj[n] = finobj[m] => n = m
          /\ \A k \in Ids : k < at /\ Due(k) =>
               \E n \in DOMAIN finobj : finobj[n] = k
          /\ at > Len(stream) /\ at \in Nat
      BY <1>0, <1>2 DEF FinalInv, Late, MadeInv
    <2>6. Len(stream) \in Nat
      BY <2>1, SnapshotFacts DEF Loading
    <2>7. ASSUME NEW k \in Ids
          PROVE  Cardinality({ n \in DOMAIN finobj : finobj[n] = k }) =
                   IF Due(k) THEN 1 ELSE 0
      <3> DEFINE N == { n \in DOMAIN finobj : finobj[n] = k }
      <3>1. CASE Due(k)
        <4>1. k < at
          BY <2>5, <2>6 DEF Ids
        <4>2. PICK m \in DOMAIN finobj : finobj[m] = k
          BY <2>5, <3>1, <4>1
        <4>3. N = {m}
          BY <2>5, <4>2
        <4> QED BY <3>1, <4>3, FS_Singleton
      <3>2. CASE ~Due(k)
        <4>1. N = {}
          BY <2>5, <3>2
        <4> QED BY <3>2, <4>1, FS_EmptySet
      <3> QED BY <3>1, <3>2
    <2>8. L = "open" /\ ~gcstopped
      BY <1>0, <1>2 DEF StateInv, Late
    <2> QED BY <2>1, <2>4, <2>7, <2>8
  <1>3. Load!Ids = Ids
    BY DEF Load!Ids, Ids
  <1>4. ASSUME lpc = "loaded", NEW k \in Ids
        PROVE  Cardinality({ n \in DOMAIN finobj : finobj[n] = k }) =
                 IF /\ stream[k].kind \in {"table", "userdata"}
                    /\ \E m \in Load!Metatables(k) : stream[m].gc
                 THEN 1 ELSE 0
    BY <1>2, <1>4 DEF Due
  <1>5. ASSUME lpc = "loaded"
        PROVE  /\ L = "open" /\ ~gcstopped /\ lerror = "none"
               /\ \A k \in Ids : \/ Load!Code(k) \in {"string", "open upval"}
                                  \/ k \in filled
    BY <1>2, <1>5
  <1>6. \A S : Load!Cardinality(S) = Cardinality(S)
    BY DEF Load!Cardinality, Cardinality
  <1> QED BY <1>1, <1>3, <1>4, <1>5, <1>6, Zenon DEF Load!AllOrNothing

\* Numbers stay apart, and below the counter.
LEMMA LoadedNumbers == RTInv => Load!ObjidsResume
  <1> SUFFICES ASSUME RTInv, lpc = "loaded"
               PROVE  /\ \A k \in Ids : obj_seq[k] < L_seq
                      /\ \A j, k \in Ids : obj_seq[j] = obj_seq[k] => j = k
    BY DEF Load!ObjidsResume, Load!Ids, Ids
  <1>1. /\ Loading /\ L_seq = heap.next_seq
        /\ obj_seq = [k \in Ids |-> heap.seq[ordered[k]]]
    BY LoadedFacts DEF Late, StateInv, MadeInv
  <1>2. \A k \in Ids : ordered[k] \in Obj /\ id[ordered[k]] = k
    BY <1>1, SnapshotFacts DEF Loading
  <1>3. \A o, q \in Obj : /\ heap.seq[o] < heap.next_seq
                          /\ heap.seq[o] = heap.seq[q] => o = q
    BY <1>1, HeapAssumption DEF Loading, SaveInv, TypeOK
  <1> QED BY <1>1, <1>2, <1>3

\* The thread of an open upvalue is met, saved and loaded with its list.
LEMMA LoadedOwners ==
  ASSUME OwnersAreMet
  PROVE  RTInv => OpenUpvaluesOwned
  <1> SUFFICES ASSUME RTInv, lpc = "loaded", NEW o \in Known,
                      NEW p \in Places(heap, o), p.role = "open"
               PROVE  \E t \in Known : \E i \in DOMAIN heap.places[t] :
                        /\ heap.places[t][i].role = "openuv"
                        /\ body[id[t]][i] = <<"obj", id[o]>>
    BY DEF OpenUpvaluesOwned
  <1>1. Loading
    BY LoadedFacts DEF Late
  <1>2. heap \in Heaps /\ o \in Obj
    BY <1>1 DEF Loading, SaveInv, TypeOK, Known
  <1>3. PICK t \in Obj :
          /\ heap.kind[t] = "thread"
          /\ [role |-> "openuv", val |-> o] \in Places(heap, t)
          /\ \A S \in SUBSET Obj : Closed(heap, S) /\ o \in S => t \in S
    BY <1>2 DEF OwnersAreMet
  <1>4. Closed(heap, Known) /\ Known \in SUBSET Obj
    <2>1. /\ Roots(heap) \subseteq Known
          /\ \A q \in Known : Refs(heap, q) \subseteq Known
      BY <1>1, NothingOffends DEF Loading, SaveInv, Phases
    <2> QED BY <2>1 DEF Closed, Known
  <1>5. t \in Known
    BY <1>3, <1>4
  <1>6. PICK i \in DOMAIN heap.places[t] :
          heap.places[t][i] = [role |-> "openuv", val |-> o]
    BY <1>3 DEF Places
  <1>7. heap.places[t][i].role = "openuv" /\ heap.places[t][i].val = o
    BY <1>6
  <1>8. stream[id[t]].kind = "thread"
    <2>1. stream[id[t]] = Record(t)
      BY <1>1, <1>5, IdOf
    <2> QED BY <1>3, <2>1 DEF Record
  <1>9. body[id[t]][i] = Image(o)
    <2>1. Absent \notin Obj /\ Obj \cap CFunction = {}
      BY <1>2, HeapFacts
    <2>2. body[id[t]][i] = ImageByName(o)
      BY <1>2, <1>5, <1>7, <1>8, <2>1, LoadedPlace
    <2> QED BY <1>2, <2>1, <2>2 DEF ImageByName
  <1> QED BY <1>2, <1>5, <1>7, <1>9 DEF Image

-----------------------------------------------------------------------------
(***************************************************************************)
(* The invariant of a save and a load: the discipline of the save, and of   *)
(* each pass of lstasis_load what it has done behind its cursor.            *)
(***************************************************************************)
THEOREM RoundTripInvariant == RTSpec => []RTInv
  <1> QED BY RTInitInv, RTNextKeepsInv, PTL DEF RTSpec

(***************************************************************************)
(* What is proved of the save alone holds while a load follows it: the      *)
(* discipline of ids and queue, records that strand no reference, and an    *)
(* outcome that is the heap's.                                              *)
(***************************************************************************)
THEOREM SaveIsUndisturbed ==
  RTSpec => [](SaveInv /\ NoStrandedReference /\ OutcomeMatchesHeap)
  <1>1. RTInv => SaveInv /\ NoStrandedReference /\ OutcomeMatchesHeap
    BY WrittenMeansNothingStranded, InvMatchesHeap DEF RTInv
  <1> QED BY <1>1, RoundTripInvariant, PTL

(***************************************************************************)
(* Every object of the id table of lstasis_load exists, whatever steps the  *)
(* collector would take in lua_newthread, until a request for memory fails  *)
(* at first: only the emergency collection that follows (tryagain, lmem.c)  *)
(* does not mind that the collector is stopped.                             *)
(***************************************************************************)
THEOREM OnlyShortageFrees == RTSpec => []FreedOnlyInShortage
  <1>1. RTInv => FreedOnlyInShortage
    BY DEF RTInv, LoadInv, StateInv, FreedOnlyInShortage,
           Load!FreedOnlyInShortage
  <1> QED BY <1>1, RoundTripInvariant, PTL

(***************************************************************************)
(* lstasis_load returns NULL with nothing left behind and no finalizer to   *)
(* run on half-built objects, or a complete state: every object filled,     *)
(* every object with a finalizer registered once.                           *)
(***************************************************************************)
THEOREM LoadIsAllOrNothing == RTSpec => []AllOrNothing
  <1>1. RTInv => AllOrNothing
    BY LoadedIsComplete DEF AllOrNothing
  <1> QED BY <1>1, RoundTripInvariant, PTL

(***************************************************************************)
(* Allocation numbers go on where the saved state left off (pass 1.5 and    *)
(* the counter of the footer): none is given twice.                         *)
(***************************************************************************)
THEOREM ObjidsAreResumed == RTSpec => []ObjidsResume
  <1>1. RTInv => ObjidsResume
    BY LoadedNumbers DEF ObjidsResume
  <1> QED BY <1>1, RoundTripInvariant, PTL

(***************************************************************************)
(* A loaded state is the saved one, place by place and root by root, with   *)
(* the C functions the loading program has under their names.               *)
(***************************************************************************)
THEOREM LoadedIsSavedByName == RTSpec => []SameUpToNames
  <1>1. RTInv => SameUpToNames
    BY LoadedIsSame
  <1> QED BY <1>1, RoundTripInvariant, PTL

(***************************************************************************)
(* With the same functions under the same names it is the saved one.        *)
(***************************************************************************)
THEOREM LoadedIsSaved ==
  ASSUME LibrariesAgree
  PROVE  RTSpec => []SameState
  <1>1. RTInv => SameState
    <2> SUFFICES ASSUME RTInv, lpc = "loaded" PROVE SameState
      BY DEF SameState
    <2>1. SameUpToNames
      BY LoadedIsSame
    <2>2. \A v \in CFunction : NamedInBoth(v) => ImageByName(v) = <<"cfn", v>>
      BY LibrariesAgree DEF LibrariesAgree, NamedInBoth, ImageByName
    <2>3. Absent \notin Obj /\ Obj \cap CFunction = {}
      BY HeapFacts DEF RTInv, SaveInv, TypeOK
    <2>4. \A v \in CFunction : Image(v) = <<"cfn", v>>
      BY <2>3 DEF Image
    <2>5. ASSUME NEW o \in Known, NEW i \in DOMAIN heap.places[o],
                 stream[id[o]].kind # "string",
                 heap.places[o][i].role \notin {"open", "kont"}
          PROVE  LET p == heap.places[o][i] IN
                   body[id[o]][i] =
                     IF p.val \in Obj => p.val \in Known
                     THEN IF p.val = Absent THEN <<"nil">> ELSE Image(p.val)
                     ELSE <<"nil">>
      <3> DEFINE v == heap.places[o][i].val
      <3>1. /\ v \in CFunction => NamedInBoth(v)
            /\ body[id[o]][i] = IF v = Absent \/ (v \in Obj /\ v \notin Known)
                               THEN <<"nil">> ELSE ImageByName(v)
        BY <2>1, <2>5 DEF SameUpToNames
      <3>2. ImageByName(v) = Image(v)
        BY <2>2, <2>4, <3>1 DEF ImageByName
      <3> QED BY <2>3, <3>1, <3>2
    <2>6. globals = [i \in DOMAIN heap.roots |-> ser_get_id(heap.roots[i])]
      BY <2>1 DEF SameUpToNames
    <2> QED BY <2>5, <2>6 DEF SameState
  <1> QED BY <1>1, RoundTripInvariant, PTL

(***************************************************************************)
(* The checks of resolve_obj_id, ds_read_tv and fill_thread refuse nothing  *)
(* lstasis_save writes, but a C function the loading program does not name. *)
(***************************************************************************)
THEOREM LoaderAcceptsSaver == RTSpec => []RefusedForCause
  <1>1. RTInit => RefusedForCause
    BY DEF RTInit, Load!LInit, RefusedForCause
  <1>2. RTInv /\ RefusedForCause /\ [RTNext]_<<vars, loadvars>>
          => RefusedForCause'
    <2> SUFFICES ASSUME RTInv, RefusedForCause, [RTNext]_<<vars, loadvars>>
                 PROVE  RefusedForCause'
      OBVIOUS
    <2>1. CASE LoadStep
      BY <2>1, LoadStepKeepsCause DEF RTInv, Loading, LoadStep
    <2>2. CASE SaveStep
      <3>1. pc # "done"
        BY <2>2, DoneIsFinal DEF SaveStep
      <3>2. lerror' = "none"
        BY <2>2, <3>1 DEF SaveStep, loadvars, RTInv, Load!LInit
      <3> QED BY <3>2 DEF RefusedForCause
    <2>3. CASE UNCHANGED <<vars, loadvars>>
      <3>1. UNCHANGED <<lerror, heap, id>>
        BY <2>3 DEF vars, loadvars
      <3> QED BY <3>1 DEF RefusedForCause, Known, Places
    <2> QED BY <2>1, <2>2, <2>3 DEF RTNext
  <1> QED BY <1>1, <1>2, RoundTripInvariant, PTL DEF RTSpec

(***************************************************************************)
(* When every open upvalue is met together with its thread, its thread is   *)
(* in the loaded state too and lists it.                                    *)
(***************************************************************************)
THEOREM OwnersAreLoaded ==
  ASSUME OwnersAreMet
  PROVE  RTSpec => []OpenUpvaluesOwned
  <1>1. RTInv => OpenUpvaluesOwned
    BY LoadedOwners
  <1> QED BY <1>1, RoundTripInvariant, PTL

(***************************************************************************)
(* And the snapshot that is loaded holds all the collector would keep.      *)
(***************************************************************************)
THEOREM LiveIsLoaded ==
  ASSUME OwnersAreMet
  PROVE  RTSpec => []SnapshotHoldsAllLive
  <1>1. RTInv => SnapshotHoldsAllLive
    BY DoneHoldsAllLive DEF RTInv
  <1> QED BY <1>1, RoundTripInvariant, PTL
=============================================================================
