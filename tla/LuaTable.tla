------------------------------- MODULE LuaTable -------------------------------
(***************************************************************************)
(* One table (ltable.c): an array part, and a hash part whose nodes are     *)
(* chained from the main position of their keys (Brent's variation), with   *)
(* its insertions and rehashes, under the operations of a program and the   *)
(* collections that happen between and inside of them.                      *)
(*                                                                          *)
(* A value is its presence: 'has' of a node, an element of arr.  Links are  *)
(* positions in place of distances.  Integer keys are bounded by MAXINT,    *)
(* the largest integer; the other keys are collectable, with given hashes.  *)
(***************************************************************************)
EXTENDS Integers, Sequences, FiniteSets, FiniteSetsExt

CONSTANTS
  IntKeys, MAXINT,  \* integer keys in use and LUA_MAXINTEGER
  Others, Hash,     \* the other keys and their hashes
  Events,           \* keys in Others that are names of metamethods
  NIL,
  LIMFORLAST,       \* log2 of the size from which a node vector has 'lastfree'
  MaxVicinity,      \* 'maxvicinity' of luaH_getn
  Sizes,            \* sizes a constructor asks for: <<array, hash>>
  Weak,             \* are the values weak?
  Seeds             \* values of 'rnd' in hash_search

Keys == IntKeys \cup Others

ASSUME TableAssumption ==
  /\ IntKeys \subseteq 1..MAXINT /\ MAXINT \in Nat /\ NIL \notin Keys \cup Nat
  /\ IntKeys \cap Others = {} /\ Events \subseteq Others
  /\ Hash \in [Others -> Nat] /\ Sizes \subseteq Nat \X Nat
  /\ LIMFORLAST \in Nat /\ MaxVicinity \in Nat /\ Weak \in BOOLEAN
  /\ Seeds \subseteq Nat

VARIABLES
  t,        \* the table
  absent,   \* flags: metamethods cached as absent
  trav,     \* a traversal with 'next' and what it has seen
  freed     \* keys whose (weak) value was collected

vars == <<t, absent, trav, freed>>

Free == [key |-> NIL, dead |-> FALSE, has |-> FALSE, next |-> NIL]
\* twoto and luaO_ceillog2.
TwoTo(n) ==
  LET power[i \in 0..n] == IF i = 0 THEN 1 ELSE 2 * power[i - 1] IN power[n]
CeilLog2(n) == CHOOSE l \in 0..n : n <= TwoTo(l) /\ (l > 0 => TwoTo(l - 1) < n)
SizeNode(s) == Cardinality(DOMAIN s.node)
Positions(s) == DOMAIN s.node

(*-------------------------------- lookup -------------------------------*)

\* hashint and hashmod against hashpow2.
MainPosition(s, k) ==
  LET size == SizeNode(s)
  IN  IF k \in IntKeys THEN k % (IF size = 1 THEN 1 ELSE size - 1)
      ELSE Hash[k] % size

\* equalkey: a dead key is met by 'next' only.
EqualKey(k, n, deadok) == n.key = k /\ (n.dead => deadok)

\* getgeneric: the node with key k in the chain of its main position.
Node(s, k, deadok) ==
  LET from[i \in Positions(s)] ==
        IF EqualKey(k, s.node[i], deadok) THEN i
        ELSE IF s.node[i].next = NIL THEN NIL ELSE from[s.node[i].next]
  IN  from[MainPosition(s, k)]

InArray(s, k) == k \in IntKeys /\ k <= Len(s.arr)

\* luaH_get: is there a value for key k?
Has(s, k) ==
  IF InArray(s, k) THEN s.arr[k]
  ELSE LET n == Node(s, k, FALSE) IN n # NIL /\ s.node[n].has

(*------------------------------- insertion ------------------------------*)

\* getfreepos: the last node without a key, below 'lastfree' where there is one.
FreeNodes(s) == { i \in Positions(s) : /\ s.node[i].key = NIL /\ ~s.dummy
                                       /\ s.last # NIL => i < s.last }
FreePos(s) == IF FreeNodes(s) = {} THEN NIL ELSE Max(FreeNodes(s))
TakeFree(s) ==
  [s EXCEPT !.last = IF @ = NIL THEN NIL
                     ELSE IF FreePos(s) = NIL THEN 0 ELSE FreePos(s)]

SetNode(s, i, k, next) ==
  [s EXCEPT !.node[i] = [key |-> k, dead |-> FALSE, has |-> TRUE, next |-> next]]

\* The node before i in its chain.
Before(s, i) == CHOOSE j \in Positions(s) : s.node[j].next = i

\* insertkey: a node out of its main position gives way to a key whose main
\* position it takes.
CanInsert(s, k) ==
  LET mp == s.node[MainPosition(s, k)]
  IN  ~(mp.has \/ s.dummy) \/ FreePos(s) # NIL

\* Mutant: a colliding node keeps its place in the chain of another key.
InsertKeyInChain(s, k) ==
  LET mp == MainPosition(s, k)
      f == FreePos(s)
      n == s.node[mp]
  IN  IF ~n.has THEN SetNode(s, mp, k, n.next)
      ELSE SetNode([TakeFree(s) EXCEPT !.node[f] = n], mp, k, NIL)

InsertKey(s, k) ==
  LET mp == MainPosition(s, k)
      f == FreePos(s)
      taken == TakeFree(s)
      n == s.node[mp]
  IN  IF ~n.has THEN SetNode(s, mp, k, n.next)
      ELSE IF MainPosition(s, n.key) # mp
      THEN SetNode([taken EXCEPT !.node[f] = n, !.node[Before(s, mp)].next = f],
                   mp, k, NIL)
      ELSE SetNode([taken EXCEPT !.node[mp].next = f], f, k, n.next)

NewCheckedKey(s, k) ==
  IF InArray(s, k) THEN [s EXCEPT !.arr[k] = TRUE] ELSE InsertKey(s, k)

(*-------------------------------- rehash -------------------------------*)

\* setnodevector: size 0 is the shared dummy node.
NodeVector(s, size) ==
  LET lsize == IF size = 0 THEN 0 ELSE CeilLog2(size)
  IN  [s EXCEPT !.dummy = size = 0,
                !.node = [i \in 0..(TwoTo(lsize) - 1) |-> Free],
                !.last = IF size # 0 /\ lsize >= LIMFORLAST THEN TwoTo(lsize)
                         ELSE NIL]

PresentInts(s) == { k \in IntKeys : Has(s, k) }
HashKeys(s) == { s.node[i].key : i \in { j \in Positions(s) : s.node[j].has } }

\* computesizes: the largest power of two that more than a third of its slots
\* would use, and where the last doubling is of use.
ComputeSize(ints) ==
  LET upto(n) == Cardinality({ k \in ints : k <= n })
      lg(k) == CeilLog2(k)
      good == { l \in 0..CeilLog2(MAXINT) :
                  /\ TwoTo(l) <= 3 * Cardinality(ints)
                  /\ \E k \in ints : lg(k) = l
                  /\ TwoTo(l) <= 3 * upto(TwoTo(l)) }
  IN  IF good = {} THEN 0 ELSE TwoTo(Max(good))

\* The values of K leave the table a collection finds.
Forget(s, K) ==
  [s EXCEPT !.arr = [i \in DOMAIN @ |-> @[i] /\ i \notin K],
            !.node = [i \in DOMAIN @ |->
                        IF @[i].key \in K THEN [@[i] EXCEPT !.has = FALSE]
                                          ELSE @[i]]]

\* luaH_resize: the new hash part takes the vanishing slice, then the array is
\* allocated, where a collection may find the values of K dead, then the old
\* hash part is inserted again.
Resize(s, asize, hsize, K) ==
  LET vector == NodeVector(s, hsize)
      slice[n \in 0..Len(s.arr)] ==
        IF n <= asize THEN vector
        ELSE IF s.arr[n] THEN InsertKey(slice[n - 1], n) ELSE slice[n - 1]
      new == slice[Len(s.arr)]
      old == Forget(s, K)
      sized == [new EXCEPT
                  !.arr = [i \in 1..asize |->
                             IF i <= Len(old.arr) THEN old.arr[i] ELSE FALSE],
                  !.hint = IF asize > 0 THEN asize \div 2 ELSE @]
      again[j \in 0..SizeNode(old)] ==
        IF j = 0 THEN sized
        ELSE LET n == old.node[j - 1]
             IN  IF n.has THEN NewCheckedKey(again[j - 1], n.key) ELSE again[j - 1]
  IN  again[SizeNode(old)]

\* rehash: the sizes for the keys present and one more, k.
NewSizes(s, k) ==
  LET ints == PresentInts(s) \cup ({k} \cap IntKeys)
      inhash == (HashKeys(s) \cup {k}) \cap IntKeys
      total == Cardinality(HashKeys(s)) + 1
      all == total + Cardinality(ints \cap 1..Len(s.arr))
      asize == IF inhash = {} THEN Len(s.arr) ELSE ComputeSize(ints)
      hash == IF inhash = {} THEN total
              ELSE all - Cardinality({ i \in ints : i <= asize })
      deleted == \E i \in Positions(s) : ~s.node[i].has /\ ~s.dummy
  IN  <<asize, IF deleted THEN hash + hash \div 4 ELSE hash>>

\* luaH_newkey, where a rehash may meet a collection of the values of K.
NewKey(s, k, K) ==
  IF CanInsert(s, k) THEN InsertKey(s, k)
  ELSE LET z == NewSizes(s, k)
       IN  NewCheckedKey(Resize(s, z[1], z[2], K), k)

(*------------------------------- traversal ------------------------------*)

\* Mutant: a key that lost its value is not found, and the traversal starts again.
FindIndexAlive(s, k) ==
  IF k = NIL \/ (~InArray(s, k) /\ Node(s, k, FALSE) = NIL) THEN 0
  ELSE IF InArray(s, k) THEN k ELSE Node(s, k, FALSE) + 1 + Len(s.arr)

\* The place of a key in the order of a traversal, 0 for the start.
FindIndex(s, k) ==
  IF k = NIL THEN 0
  ELSE IF InArray(s, k) THEN k
  ELSE Node(s, k, TRUE) + 1 + Len(s.arr)

\* luaH_next: the key after k, or NIL at the end.
NextKey(s, k) ==
  LET asize == Len(s.arr)
      from == FindIndex(s, k)
      key(i) == IF i <= asize THEN i ELSE s.node[i - asize - 1].key
      has(i) == IF i <= asize THEN s.arr[i] ELSE s.node[i - asize - 1].has
      after == { i \in (from + 1)..(asize + SizeNode(s)) : has(i) }
  IN  IF after = {} THEN NIL ELSE key(Min(after))

(*--------------------------------- length -------------------------------*)

HasInt(s, i) == i \in IntKeys /\ Has(s, i)

\* Mutant: one halving of the interval.
BinSearchOnce(s, low, high) ==
  LET m == (low + high) \div 2
  IN  IF high - low <= 1 \/ ~HasInt(s, m) THEN low ELSE m

\* binsearch and the last loop of hash_search, between a present and an absent.
BinSearch(s, low, high) ==
  LET run[n \in 0..(high - low)] ==
        IF n = 0 THEN <<low, high>>
        ELSE LET r == run[n - 1]
                 m == (r[1] + r[2]) \div 2
             IN  IF r[2] - r[1] <= 1 THEN r
                 ELSE IF HasInt(s, m) THEN <<m, r[2]>> ELSE <<r[1], m>>
  IN  run[high - low][1]

\* hash_search, with the random doubling of 'rnd' and its end at MAXINT.
HashSearch(s, asize, rnd) ==
  LET i0 == asize + 1
      n == IF asize > 0 THEN CeilLog2(asize) ELSE 0
      incr == (rnd % TwoTo(n)) + 1
      j0 == IF incr <= MAXINT - i0 THEN i0 + incr ELSE i0 + 1
      probe[m \in 0..MAXINT] ==
        IF m = 0 THEN [i |-> i0, j |-> j0, rnd |-> rnd \div TwoTo(n), border |-> NIL]
        ELSE LET at == probe[m - 1]
             IN  IF at.border # NIL \/ ~HasInt(s, at.j) THEN at
                 ELSE IF at.j <= (MAXINT \div 2) - 1
                 THEN [at EXCEPT !.i = at.j, !.j = 2 * at.j + (at.rnd % 2),
                                 !.rnd = @ \div 2]
                 ELSE IF HasInt(s, MAXINT) THEN [at EXCEPT !.border = MAXINT]
                 ELSE [at EXCEPT !.i = at.j, !.j = MAXINT]
      end == probe[MAXINT]
  IN  IF end.border # NIL THEN end.border ELSE BinSearch(s, end.i, end.j)

\* luaH_getn: a border of the array near its hint, or one of the hash part.
GetN(s, rnd) ==
  LET asize == Len(s.arr)
      limit == IF s.hint = 0 THEN 1 ELSE s.hint
      below == { i \in 1..(limit - 1) : limit - i <= MaxVicinity /\ s.arr[i] }
      above == { i \in (limit + 1)..asize : i - limit <= MaxVicinity /\ ~s.arr[i] }
      inarray ==
        IF ~s.arr[limit]
        THEN IF below # {} THEN Max(below) ELSE BinSearch(s, 0, limit)
        ELSE IF above # {} THEN Min(above) - 1
        ELSE IF ~s.arr[asize] THEN BinSearch(s, limit, asize) ELSE NIL
      inhash == IF s.dummy \/ ~HasInt(s, asize + 1) THEN asize
                ELSE HashSearch(s, asize, rnd)
  IN  IF asize = 0 THEN [border |-> inhash, hint |-> s.hint]
      ELSE IF inarray # NIL THEN [border |-> inarray, hint |-> inarray]
      ELSE [border |-> inhash, hint |-> asize]

(*-------------------------------- actions ------------------------------*)

NoTraversal == [on |-> FALSE, at |-> NIL, seen |-> {}, owed |-> {}, wrong |-> {}]
Quiet == UNCHANGED <<trav, freed>>

\* A slot for k exists, in the array or in a node that may have lost its value.
HasSlot(s, k) == InArray(s, k) \/ Node(s, k, FALSE) # NIL
Store(s, k, present) ==
  IF InArray(s, k) THEN [s EXCEPT !.arr[k] = present]
  ELSE [s EXCEPT !.node[Node(s, k, FALSE)].has = present]

\* Weak values that a collection may find dead.
Collectable == IF Weak THEN SUBSET { k \in Keys : Has(t, k) } ELSE {{}}

\* Mutant: the assignment does not invalidate the cache.
KeepTMCache(cached) == cached
\* invalidateTMcache.
InvalidateTMCache(cached) == {}

\* An assignment that allocates memory for another array, and may start a
\* collection there.
AllocatesArray(s, k) ==
  ~HasSlot(s, k) /\ ~CanInsert(s, k) /\ NewSizes(s, k)[1] \notin {0, Len(s.arr)}

\* t[k] = v, by luaH_set and luaH_finishset; a key with a value leaves the cache.
SetField(k) ==
  /\ k \notin freed
  /\ \E K \in Collectable :
       /\ K # {} => AllocatesArray(t, k)
       /\ t' = IF HasSlot(t, k) THEN Store(t, k, TRUE) ELSE NewKey(t, k, K)
       /\ freed' = freed \cup K
  /\ absent' = IF Has(t, k) THEN absent ELSE InvalidateTMCache(absent)
  /\ trav' = IF Has(t, k) THEN trav ELSE NoTraversal

\* t[k] = nil, which a traversal allows.
ClearField(k) ==
  /\ Has(t, k) /\ t' = Store(t, k, FALSE)
  /\ trav' = [trav EXCEPT !.owed = @ \ {k}]
  /\ UNCHANGED <<absent, freed>>

\* A collection clears weak values, and the collectable keys of empty entries.
Collect ==
  /\ \E K \in Collectable :
       LET s == Forget(t, K)
       IN  /\ t' = [s EXCEPT !.node = [i \in DOMAIN @ |->
                      IF @[i].key \in Others /\ ~@[i].has
                      THEN [@[i] EXCEPT !.dead = TRUE] ELSE @[i]]]
           /\ freed' = freed \cup K
           /\ trav' = [trav EXCEPT !.owed = @ \ K]
  /\ UNCHANGED absent

\* luaH_resizearray, for the items of a constructor.
ResizeArray(n) ==
  /\ n > Len(t.arr)
  /\ t' = Resize(t, n, IF t.dummy THEN 0 ELSE SizeNode(t), {})
  /\ UNCHANGED <<absent, freed>> /\ trav' = NoTraversal

Length == /\ \E rnd \in Seeds : t' = [t EXCEPT !.hint = GetN(t, rnd).hint]
          /\ UNCHANGED absent /\ Quiet

\* luaT_gettm finds no metamethod and caches it.
CacheAbsent(e) ==
  /\ ~Has(t, e) /\ absent' = absent \cup {e} /\ UNCHANGED t /\ Quiet

\* pairs: a call of next starts the traversal, each other goes on.
StartTraversal ==
  /\ ~trav.on
  /\ trav' = [NoTraversal EXCEPT !.on = TRUE, !.owed = { k \in Keys : Has(t, k) }]
  /\ UNCHANGED <<t, absent, freed>>
NextStep ==
  /\ trav.on
  /\ LET k == NextKey(t, trav.at)
     IN  trav' = IF k = NIL THEN [NoTraversal EXCEPT !.wrong = trav.owed]
                 ELSE [trav EXCEPT !.at = k, !.seen = @ \cup {k},
                                   !.owed = @ \ {k},
                                   !.wrong = @ \cup ({k} \cap trav.seen)]
  /\ UNCHANGED <<t, absent, freed>>

\* luaH_new and the resize of OP_NEWTABLE.
Init ==
  /\ \E z \in Sizes :
       t = Resize([arr |-> << >>, node |-> [i \in {0} |-> Free], dummy |-> TRUE,
                   last |-> NIL, hint |-> 0], z[1], z[2], {})
  /\ absent = {} /\ trav = NoTraversal /\ freed = {}

Next ==
  \/ \E k \in Keys : SetField(k) \/ ClearField(k)
  \/ \E e \in Events : CacheAbsent(e)
  \/ \E z \in Sizes : ResizeArray(z[1])
  \/ Collect \/ Length \/ StartTraversal \/ NextStep

Spec == Init /\ [][Next]_vars

-----------------------------------------------------------------------------
\* Every key that was inserted is met on the chain of its main position, at
\* most once alive, and a free node is in no chain.
ChainsReachKeys ==
  /\ \A i \in Positions(t) :
       LET n == t.node[i]
       IN  /\ n.next # NIL => n.next \in Positions(t) /\ t.node[n.next].key # NIL
           /\ n.key = NIL => ~n.has /\ n.next = NIL
           /\ n.has => Node(t, n.key, FALSE) = i /\ ~InArray(t, n.key)
  /\ t.hint <= Len(t.arr) \/ Len(t.arr) = 0

\* The dictionary the table implements.
entries == { k \in Keys : Has(t, k) }
Promise == INSTANCE TablePromise WITH entries <- entries
ImplementsDictionary == Promise!Spec

\* A traversal that ends has met every key that kept its value all along, and no
\* key twice, though keys lost their values and were cleared behind its back.
TraversalMeetsAll == trav.wrong = {}

\* #t is a border, whatever the hint of earlier calls and the random probes.
LengthIsBorder ==
  \A rnd \in Seeds :
    LET b == GetN(t, rnd).border
    IN  (b = 0 \/ HasInt(t, b)) /\ (b = MAXINT \/ ~HasInt(t, b + 1))

\* A metamethod cached as absent is absent.
CacheIsTrue == \A e \in absent : ~Has(t, e)

\* A value that was collected is in no entry of a weak table.
NoDeadValue == \A k \in freed : ~Has(t, k)
=============================================================================
