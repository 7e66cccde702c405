---------------------------- MODULE LuaTableProofs ----------------------------
(***************************************************************************)
(* Theorems about LuaTable, for any keys, hashes and sizes: chains reach    *)
(* their keys, so that a table is a dictionary, a traversal meets all that  *)
(* stays, a cached absence is true and #t is a border.                      *)
(***************************************************************************)
EXTENDS LuaTable, ListLemmas, FiniteSetTheorems

(*------------------------------- numbers -------------------------------*)

\* A power of two is larger than its exponent.
LEMMA TwoToFacts ==
  ASSUME NEW n \in Nat
  PROVE  TwoTo(n) \in Nat /\ n < TwoTo(n)
<1> DEFINE G == [p \in (1..n) \X Nat |-> 2 * p[2]]
           Rec(f) == [i \in 0..n |-> IF i = 0 THEN 1 ELSE 2 * f[i - 1]]
<1>1. G \in [(1..n) \X Nat -> Nat]
  OBVIOUS
<1>2. \E f \in [0..n -> Nat] : Recursive(f, n, 1, G)
  <2> HIDE DEF G
  <2> QED BY <1>1, RecursiveFunction
<1>3. PICK f \in [0..n -> Nat] : Recursive(f, n, 1, G)
  BY <1>2
<1>4. f = Rec(f)
  <2>1. ASSUME NEW i \in 0..n PROVE f[i] = Rec(f)[i]
    <3>1. CASE i = 0
      BY <3>1, <1>3 DEF Recursive
    <3>2. CASE i \in 1..n
      <4>1. f[i - 1] \in Nat /\ <<i, f[i - 1]>> \in (1..n) \X Nat
        BY <3>2
      <4>2. f[i] = G[<<i, f[i - 1]>>]
        BY <3>2, <1>3 DEF Recursive
      <4> QED BY <4>1, <4>2, <3>2
    <3> QED BY <3>1, <3>2
  <2> QED BY <2>1
<1> DEFINE g == CHOOSE h : h = Rec(h)
<1>5. g = Rec(g)
  <2> HIDE DEF Rec
  <2> QED BY <1>4, Zenon
<1>6. TwoTo(n) = g[n]
  BY Zenon DEF TwoTo
<1> HIDE DEF g
<1> DEFINE S == {i \in 0..n : g[i] \in Nat /\ i < g[i]}
<1>7. 0 \in S
  BY <1>5
<1>8. \A i \in 0..(n - 1) : i \in S => i + 1 \in S
  <2> TAKE i \in 0..(n - 1)
  <2> HAVE i \in S
  <2>1. g[i + 1] = 2 * g[i]
    BY <1>5
  <2> QED BY <2>1
<1>9. 0..n \subseteq S
  <2> HIDE DEF S
  <2> QED BY <1>7, <1>8, BoundedInduction
<1> QED BY <1>6, <1>9

\* Min is the least member.
LEMMA MinIsLeast ==
  ASSUME NEW S \in SUBSET Nat, S # {}
  PROVE  Min(S) \in S /\ \A y \in S : Min(S) <= y
BY LeastNumber DEF Min

\* Max is the greatest member.
LEMMA MaxIsGreatest ==
  ASSUME NEW N \in Nat, NEW S \in SUBSET (0..N), S # {}
  PROVE  Max(S) \in S /\ \A y \in S : Max(S) >= y
BY GreatestNumber DEF Max

\* The ceiling of a logarithm exists, and its power is large enough.
LEMMA CeilLog2Facts ==
  ASSUME NEW n \in Nat
  PROVE  CeilLog2(n) \in 0..n /\ n <= TwoTo(CeilLog2(n))
<1> DEFINE S == {l \in 0..n : n <= TwoTo(l)}
<1>1. n \in S
  BY TwoToFacts
<1>2. S \in SUBSET Nat
  OBVIOUS
<1>3. PICK l \in S : \A m \in S : l <= m
  BY <1>1, <1>2, LeastNumber
<1>4. l \in 0..n /\ n <= TwoTo(l)
  OBVIOUS
<1>5. l > 0 => TwoTo(l - 1) < n
  <2> HAVE l > 0
  <2>1. l - 1 \in Nat /\ l - 1 \in 0..n /\ l - 1 \notin S
    BY <1>3, <1>4
  <2>2. TwoTo(l - 1) \in Nat
    BY <2>1, TwoToFacts
  <2> QED BY <2>1, <2>2
<1> QED BY <1>4, <1>5 DEF CeilLog2

(*-------------------------------- chains -------------------------------*)

\* The nodes of S link to nodes of S only.
Linked(nx, S) == \A z \in S : nx[z] # NIL => nx[z] \in S

\* j is on the way from i: it is in every set of nodes that contains i and
\* all that its nodes link to.
Reaches(nx, i, j) ==
  \A S \in SUBSET DOMAIN nx : i \in S /\ Linked(nx, S) => j \in S

\* Links among places: they never join and have no cycle, since every set of
\* nodes has one that does not link into it.
Chained(nx) ==
  /\ NIL \notin DOMAIN nx
  /\ \A i \in DOMAIN nx : nx[i] = NIL \/ nx[i] \in DOMAIN nx
  /\ \A i, j \in DOMAIN nx : nx[i] = nx[j] /\ nx[i] # NIL => i = j
  /\ \A S \in SUBSET DOMAIN nx : S # {} => \E i \in S : nx[i] \notin S

\* Reaches is reflexive and transitive, and stays among the nodes.
LEMMA ReachesItself ==
  ASSUME NEW nx, NEW i \in DOMAIN nx
  PROVE  Reaches(nx, i, i)
BY DEF Reaches

\* What is reached from a node that is reached is reached.
LEMMA ReachesOn ==
  ASSUME NEW nx, NEW i, NEW j, NEW k, Reaches(nx, i, j), Reaches(nx, j, k)
  PROVE  Reaches(nx, i, k)
BY DEF Reaches

\* What a node reaches is a node.
LEMMA ReachedIsNode ==
  ASSUME NEW nx, Chained(nx), NEW i \in DOMAIN nx, NEW j, Reaches(nx, i, j)
  PROVE  j \in DOMAIN nx
<1>1. Linked(nx, DOMAIN nx)
  BY DEF Linked, Chained
<1> QED BY <1>1 DEF Reaches

\* A link reaches, and what a node reaches but itself its link reaches.
LEMMA ReachesLink ==
  ASSUME NEW nx, NEW i \in DOMAIN nx, nx[i] # NIL
  PROVE  Reaches(nx, i, nx[i])
BY DEF Reaches, Linked

\* What a node reaches but itself, its link reaches.
LEMMA ReachesByLink ==
  ASSUME NEW nx, Chained(nx), NEW i \in DOMAIN nx, NEW j,
         Reaches(nx, i, j), i # j
  PROVE  nx[i] # NIL /\ Reaches(nx, nx[i], j)
<1>1. nx[i] # NIL
  <2> SUFFICES ASSUME nx[i] = NIL PROVE FALSE
    OBVIOUS
  <2>1. {i} \in SUBSET DOMAIN nx /\ Linked(nx, {i})
    BY DEF Linked
  <2>2. j \in {i}
    BY <2>1 DEF Reaches
  <2> QED BY <2>2
<1>2. ASSUME NEW S \in SUBSET DOMAIN nx, nx[i] \in S, Linked(nx, S)
      PROVE  j \in S
  <2>1. S \cup {i} \in SUBSET DOMAIN nx /\ Linked(nx, S \cup {i})
    BY <1>2 DEF Linked
  <2>2. j \in S \cup {i}
    BY <2>1 DEF Reaches
  <2> QED BY <2>2
<1> QED BY <1>1, <1>2 DEF Reaches

\* A node that another reaches is linked to.
LEMMA ReachedIsLinked ==
  ASSUME NEW nx, Chained(nx), NEW i \in DOMAIN nx, NEW j,
         Reaches(nx, i, j), i # j
  PROVE  \E z \in DOMAIN nx : nx[z] = j
<1> SUFFICES ASSUME \A z \in DOMAIN nx : nx[z] # j PROVE FALSE
  OBVIOUS
<1> DEFINE S == (DOMAIN nx) \ {j}
<1>1. S \in SUBSET DOMAIN nx /\ i \in S /\ Linked(nx, S)
  BY DEF Linked, Chained
<1>2. j \in S
  <2> HIDE DEF S
  <2> QED BY <1>1 DEF Reaches
<1> QED BY <1>2

\* There is no cycle.
LEMMA ReachesOneWay ==
  ASSUME NEW nx, Chained(nx), NEW i \in DOMAIN nx, NEW j \in DOMAIN nx,
         Reaches(nx, i, j), Reaches(nx, j, i)
  PROVE  i = j
<1> SUFFICES ASSUME i # j PROVE FALSE
  OBVIOUS
<1> DEFINE S == {x \in DOMAIN nx : Reaches(nx, i, x) /\ Reaches(nx, x, i)}
<1>1. i \in S
  BY ReachesItself
<1>2. PICK x \in S : nx[x] \notin S
  <2>1. S \in SUBSET DOMAIN nx /\ S # {}
    BY <1>1
  <2> HIDE DEF S
  <2> QED BY <2>1 DEF Chained
<1>3. x \in DOMAIN nx /\ Reaches(nx, i, x) /\ Reaches(nx, x, i)
  OBVIOUS
<1>4. nx[x] # NIL /\ Reaches(nx, nx[x], i)
  <2>1. CASE x # i
    BY <2>1, <1>3, ReachesByLink
  <2>2. CASE x = i
    <3>1. nx[x] # NIL /\ Reaches(nx, nx[x], j)
      BY <2>2, ReachesByLink
    <3> QED BY <3>1, ReachesOn
  <2> QED BY <2>1, <2>2
<1>5. Reaches(nx, i, nx[x])
  BY <1>3, <1>4, ReachesLink, ReachesOn
<1>6. nx[x] \in DOMAIN nx
  BY <1>3, <1>4 DEF Chained
<1> QED BY <1>2, <1>4, <1>5, <1>6

(* The first node of M on the way from each node, or NIL: what a search     *)
(* along the chains is to find.                                             *)
Search(nx, M, f) ==
  [i \in DOMAIN nx |-> IF i \in M THEN i
                       ELSE IF nx[i] = NIL THEN NIL ELSE f[nx[i]]]

First(nx, M, i, j) ==
  j \in M /\ Reaches(nx, i, j) /\ \A h \in M : Reaches(nx, i, h) => Reaches(nx, j, h)

\* A search along chains that have no cycle has a result for every node.
LEMMA SearchExists ==
  ASSUME NEW nx, Chained(nx), NEW M \in SUBSET DOMAIN nx
  PROVE  \E f : f = Search(nx, M, f)
<1> DEFINE f == [i \in DOMAIN nx |->
                  IF \E j \in DOMAIN nx : First(nx, M, i, j)
                  THEN CHOOSE j \in DOMAIN nx : First(nx, M, i, j) ELSE NIL]
<1>1. ASSUME NEW i \in DOMAIN nx, i \in M
      PROVE  f[i] = i
  <2>1. First(nx, M, i, i)
    BY <1>1, ReachesItself DEF First
  <2>2. PICK j \in DOMAIN nx : j = f[i] /\ First(nx, M, i, j)
    BY <2>1, Zenon
  <2>3. Reaches(nx, i, j) /\ Reaches(nx, j, i)
    BY <2>2, <1>1, ReachesItself DEF First
  <2>4. i = j
    BY <2>3, ReachesOneWay
  <2> HIDE DEF f
  <2> QED BY <2>2, <2>4
<1>2. ASSUME NEW i \in DOMAIN nx, i \notin M, nx[i] = NIL
      PROVE  f[i] = NIL
  <2>1. ASSUME NEW j \in DOMAIN nx, First(nx, M, i, j) PROVE FALSE
    BY <2>1, <1>2, ReachesByLink DEF First
  <2> QED BY <2>1
<1>3. ASSUME NEW i \in DOMAIN nx, i \notin M, nx[i] # NIL
      PROVE  f[i] = f[nx[i]]
  <2>1. nx[i] \in DOMAIN nx
    BY <1>3 DEF Chained
  <2>2. \A h \in M : Reaches(nx, i, h) <=> Reaches(nx, nx[i], h)
    BY <1>3, ReachesByLink, ReachesLink, ReachesOn
  <2>3. \A j \in DOMAIN nx : First(nx, M, i, j) <=> First(nx, M, nx[i], j)
    BY <2>2 DEF First
  <2>4. (CHOOSE j \in DOMAIN nx : First(nx, M, i, j))
          = (CHOOSE j \in DOMAIN nx : First(nx, M, nx[i], j))
    BY <2>3, Zenon
  <2> QED BY <2>1, <2>3, <2>4, Zenon
<1>4. f = Search(nx, M, f)
  <2>1. ASSUME NEW i \in DOMAIN nx PROVE f[i] = Search(nx, M, f)[i]
    <3> HIDE DEF f
    <3> QED BY <1>1, <1>2, <1>3 DEF Search
  <2>2. f = [i \in DOMAIN nx |-> f[i]]
    OBVIOUS
  <2>3. Search(nx, M, f) = [i \in DOMAIN nx |-> Search(nx, M, f)[i]]
    BY DEF Search
  <2> HIDE DEF f
  <2> QED BY <2>1, <2>2, <2>3, Zenon
<1> QED BY <1>4

\* Whatever solves the equation of a search finds the first.
LEMMA SearchFinds ==
  ASSUME NEW nx, Chained(nx), NEW M \in SUBSET DOMAIN nx,
         NEW f, f = Search(nx, M, f), NEW i \in DOMAIN nx
  PROVE  /\ f[i] = NIL => \A h \in M : ~Reaches(nx, i, h)
         /\ f[i] # NIL => First(nx, M, i, f[i])
<1> DEFINE Right(x) == /\ f[x] = NIL => \A h \in M : ~Reaches(nx, x, h)
                       /\ f[x] # NIL => First(nx, M, x, f[x])
           S == {x \in DOMAIN nx : ~Right(x)}
<1>0. \A x \in DOMAIN nx : f[x] = IF x \in M THEN x
                                  ELSE IF nx[x] = NIL THEN NIL ELSE f[nx[x]]
  BY DEF Search
<1> SUFFICES ASSUME S # {} PROVE FALSE
  OBVIOUS
<1>1. PICK x \in S : nx[x] \notin S
  <2> HIDE DEF S
  <2>1. S \in SUBSET DOMAIN nx
    BY DEF S
  <2> QED BY <2>1 DEF Chained
<1>2. x \in DOMAIN nx /\ ~Right(x)
  OBVIOUS
<1>3. CASE x \in M
  <2>1. f[x] = x /\ x # NIL
    BY <1>3, <1>2, <1>0 DEF Chained
  <2>2. First(nx, M, x, x)
    BY <1>3, ReachesItself DEF First
  <2> QED BY <1>2, <2>1, <2>2
<1>4. CASE x \notin M /\ nx[x] = NIL
  <2>1. f[x] = NIL
    BY <1>4, <1>2, <1>0
  <2>2. ASSUME NEW h \in M, Reaches(nx, x, h) PROVE FALSE
    BY <2>2, <1>2, <1>4, ReachesByLink
  <2> QED BY <1>2, <2>1, <2>2
<1>5. CASE x \notin M /\ nx[x] # NIL
  <2>1. nx[x] \in DOMAIN nx /\ f[x] = f[nx[x]]
    BY <1>5, <1>2, <1>0 DEF Chained
  <2>2. \A h \in M : Reaches(nx, x, h) <=> Reaches(nx, nx[x], h)
    BY <1>2, <1>5, ReachesByLink, ReachesLink, ReachesOn
  <2>3. Right(nx[x])
    BY <1>1, <2>1
  <2>4. Right(x)
    BY <2>1, <2>2, <2>3 DEF First
  <2> QED BY <1>2, <2>4
<1> QED BY <1>3, <1>4, <1>5

(*------------------------------- the table -----------------------------*)

NodeType == [key : Keys \cup {NIL}, dead : BOOLEAN, has : BOOLEAN,
             next : Nat \cup {NIL}]
Vectors == UNION {[0..(N - 1) -> NodeType] : N \in Nat \ {0}}
TableType == [arr : Seq(BOOLEAN), node : Vectors, dummy : BOOLEAN,
              last : Nat \cup {NIL}, hint : Nat]

Links(s) == [i \in Positions(s) |-> s.node[i].next]
KeyOf(s, i) == s.node[i].key
Home(s, i) == MainPosition(s, KeyOf(s, i))

\* A free node is in no chain, and below 'last'.
FreeAreFree(s) ==
  \A i \in Positions(s) :
    KeyOf(s, i) = NIL =>
      /\ ~s.node[i].has /\ ~s.node[i].dead /\ s.node[i].next = NIL
      /\ \A j \in Positions(s) : s.node[j].next # i
      /\ s.last # NIL => i < s.last

\* A node is on the chain of the main position of its key, which has a node
\* of its own there.
AtHome(s) ==
  \A i \in Positions(s) :
    KeyOf(s, i) # NIL =>
      /\ Reaches(Links(s), Home(s, i), i)
      /\ KeyOf(s, Home(s, i)) # NIL /\ Home(s, Home(s, i)) = Home(s, i)
      /\ ~s.dummy

\* A key is in one node but for dead ones, which come after it.
OnceAlive(s) ==
  /\ \A i \in Positions(s) : s.node[i].dead => ~s.node[i].has
  /\ \A i, j \in Positions(s) :
       i # j /\ KeyOf(s, i) = KeyOf(s, j) /\ KeyOf(s, i) # NIL /\ ~s.node[i].dead
         => s.node[j].dead /\ Reaches(Links(s), i, j)

Chains(s) == Chained(Links(s)) /\ FreeAreFree(s) /\ AtHome(s) /\ OnceAlive(s)

\* A node vector has a positive number of places, from 0.
LEMMA VectorFacts ==
  ASSUME NEW s \in TableType
  PROVE  \E N \in Nat \ {0} : /\ Positions(s) = 0..(N - 1) /\ SizeNode(s) = N
                              /\ s.node \in [0..(N - 1) -> NodeType]
<1>1. s.node \in Vectors
  BY DEF TableType
<1>2. PICK N \in Nat \ {0} : s.node \in [0..(N - 1) -> NodeType]
  BY <1>1 DEF Vectors
<1>3. Positions(s) = 0..(N - 1)
  BY <1>2 DEF Positions
<1>4. Cardinality(0..(N - 1)) = N
  <2>1. Cardinality(0..(N - 1)) = IF 0 > N - 1 THEN 0 ELSE N - 1 - 0 + 1
    BY FS_Interval
  <2> QED BY <2>1
<1> QED BY <1>2, <1>3, <1>4 DEF SizeNode, Positions

\* The type of one node.
LEMMA NodeTyped ==
  ASSUME NEW s \in TableType, NEW i \in Positions(s)
  PROVE  /\ s.node[i] \in NodeType /\ i \in Nat /\ i # NIL
         /\ KeyOf(s, i) \in Keys \cup {NIL} /\ s.node[i].next \in Nat \cup {NIL}
         /\ s.node[i].dead \in BOOLEAN /\ s.node[i].has \in BOOLEAN
<1>1. PICK N \in Nat \ {0} : /\ Positions(s) = 0..(N - 1)
                             /\ s.node \in [0..(N - 1) -> NodeType]
  BY VectorFacts
<1>2. s.node[i] \in NodeType /\ i \in Nat
  BY <1>1
<1> QED BY <1>2, TableAssumption DEF NodeType, KeyOf

\* Integer keys are from 1 to the largest integer.
LEMMA IntKeysAre ==
  MAXINT \in Nat /\ \A k \in IntKeys : k \in Nat /\ 1 <= k /\ k <= MAXINT
BY TableAssumption

\* A main position is a position, which depends on nothing but the size.
LEMMA MainIsPosition ==
  ASSUME NEW s \in TableType, NEW k \in Keys
  PROVE  MainPosition(s, k) \in Positions(s)
<1>1. PICK N \in Nat \ {0} : Positions(s) = 0..(N - 1) /\ SizeNode(s) = N
  BY VectorFacts
<1>2. \A a \in Nat, b \in Nat \ {0} : a % b \in 0..(b - 1)
  OBVIOUS
<1>3. CASE k \in IntKeys
  <2> DEFINE m == IF N = 1 THEN 1 ELSE N - 1
  <2>1. k \in Nat /\ m \in Nat \ {0} /\ m - 1 <= N - 1
    BY <1>3, TableAssumption
  <2>2. MainPosition(s, k) = k % m
    BY <1>1, <1>3 DEF MainPosition
  <2>3. k % m \in 0..(m - 1)
    BY <2>1, <1>2
  <2> QED BY <1>1, <2>1, <2>2, <2>3
<1>4. CASE k \notin IntKeys
  <2>1. Hash[k] \in Nat
    BY <1>4, TableAssumption DEF Keys
  <2>2. MainPosition(s, k) = Hash[k] % N
    BY <1>1, <1>4 DEF MainPosition
  <2>3. Hash[k] % N \in 0..(N - 1)
    BY <2>1, <1>2
  <2> QED BY <1>1, <2>2, <2>3
<1> QED BY <1>3, <1>4

\* A main position depends on the size of the hash part only.
LEMMA MainDepends ==
  ASSUME NEW s, NEW r, Positions(s) = Positions(r), NEW k
  PROVE  MainPosition(s, k) = MainPosition(r, k)
BY DEF MainPosition, SizeNode, Positions

\* The main position of the key of a node is a position.
LEMMA HomeIsPosition ==
  ASSUME NEW s \in TableType, NEW i \in Positions(s), KeyOf(s, i) # NIL
  PROVE  Home(s, i) \in Positions(s) /\ KeyOf(s, i) \in Keys
BY NodeTyped, MainIsPosition DEF Home

(*-------------------------------- lookup -------------------------------*)

Matches(s, k, deadok) == {i \in Positions(s) : EqualKey(k, s.node[i], deadok)}

\* getgeneric finds the first match on the chain of the main position.
LEMMA NodeIsFirst ==
  ASSUME NEW s \in TableType, Chained(Links(s)), NEW k \in Keys, NEW deadok
  PROVE  LET M == Matches(s, k, deadok)
             mp == MainPosition(s, k)
             j == Node(s, k, deadok)
         IN  /\ j = NIL => \A h \in M : ~Reaches(Links(s), mp, h)
             /\ j # NIL => First(Links(s), M, mp, j)
<1> DEFINE M == Matches(s, k, deadok)
           mp == MainPosition(s, k)
           nx == Links(s)
           Rec(f) == [i \in Positions(s) |->
                       IF EqualKey(k, s.node[i], deadok) THEN i
                       ELSE IF s.node[i].next = NIL THEN NIL
                       ELSE f[s.node[i].next]]
           g == CHOOSE f : f = Rec(f)
<1>1. DOMAIN nx = Positions(s) /\ M \in SUBSET Positions(s)
  BY DEF Links, Matches
<1>2. ASSUME NEW f PROVE Rec(f) = Search(nx, M, f)
  <2>1. \A i \in Positions(s) : nx[i] = s.node[i].next
                                /\ (i \in M <=> EqualKey(k, s.node[i], deadok))
    BY DEF Links, Matches
  <2> HIDE DEF nx, M
  <2> QED BY <2>1, <1>1 DEF Search
<1>3. \E f : f = Search(nx, M, f)
  <2> HIDE DEF M, nx
  <2> QED BY <1>1, SearchExists DEF nx
<1>4. g = Rec(g)
  <2>1. \E f : f = Rec(f)
    <3> HIDE DEF Rec, M, nx
    <3> QED BY <1>2, <1>3
  <2> HIDE DEF Rec
  <2> QED BY <2>1, Zenon
<1>5. Node(s, k, deadok) = g[mp]
  BY Zenon DEF Node
<1>6. g = Search(nx, M, g)
  <2> HIDE DEF g, Rec, M, nx
  <2> QED BY <1>2, <1>4
<1>7. mp \in DOMAIN nx
  BY <1>1, MainIsPosition
<1> HIDE DEF g, M, nx, mp
<1>8. /\ g[mp] = NIL => \A h \in M : ~Reaches(nx, mp, h)
      /\ g[mp] # NIL => First(nx, M, mp, g[mp])
  BY <1>1, <1>6, <1>7, SearchFinds DEF nx
<1> QED BY <1>5, <1>8 DEF nx, M, mp

\* The search for a key finds its live node, or any match if there is none.
LEMMA NodeFacts ==
  ASSUME NEW s \in TableType, Chains(s), NEW k \in Keys, NEW deadok
  PROVE  LET j == Node(s, k, deadok)
         IN  /\ j # NIL => /\ j \in Positions(s) /\ KeyOf(s, j) = k
                           /\ s.node[j].dead => deadok
             /\ \A i \in Positions(s) :
                  KeyOf(s, i) = k /\ (s.node[i].dead => deadok) => j # NIL
             /\ \A i \in Positions(s) :
                  KeyOf(s, i) = k /\ ~s.node[i].dead => j = i
<1> DEFINE M == Matches(s, k, deadok)
           mp == MainPosition(s, k)
           j == Node(s, k, deadok)
<1>0. Chained(Links(s)) /\ DOMAIN Links(s) = Positions(s) /\ k # NIL
  BY TableAssumption DEF Chains, Links
<1>1. /\ j = NIL => \A h \in M : ~Reaches(Links(s), mp, h)
      /\ j # NIL => First(Links(s), M, mp, j)
  BY <1>0, NodeIsFirst
<1>2. \A i \in M : i \in Positions(s) /\ KeyOf(s, i) = k /\ (s.node[i].dead => deadok)
  BY DEF Matches, EqualKey, KeyOf
<1>3. \A i \in Positions(s) : KeyOf(s, i) = k /\ (s.node[i].dead => deadok) => i \in M
  BY DEF Matches, EqualKey, KeyOf
<1>4. \A i \in Positions(s) : KeyOf(s, i) = k => Reaches(Links(s), mp, i)
  BY <1>0 DEF Chains, AtHome, Home
<1> HIDE DEF j, M, mp
<1>5. j # NIL => j \in M
  BY <1>1 DEF First
<1>6. \A i \in M : j # NIL
  BY <1>1, <1>2, <1>4
<1>7. ASSUME NEW i \in Positions(s), KeyOf(s, i) = k, ~s.node[i].dead
      PROVE  j = i
  <2>1. i \in M /\ j \in M /\ j \in Positions(s) /\ KeyOf(s, j) = k
    BY <1>2, <1>3, <1>5, <1>6, <1>7
  <2>2. Reaches(Links(s), j, i)
    BY <1>1, <1>4, <1>6, <1>7, <2>1 DEF First
  <2> SUFFICES ASSUME j # i PROVE FALSE
    OBVIOUS
  <2>3. Reaches(Links(s), i, j)
    BY <1>0, <1>7, <2>1 DEF Chains, OnceAlive
  <2> QED BY <1>0, <1>7, <2>1, <2>2, <2>3, ReachesOneWay
<1> QED BY <1>2, <1>3, <1>5, <1>6, <1>7 DEF j

ArrayFits(s) ==
  /\ \A i \in DOMAIN s.arr : s.arr[i] => i \in IntKeys
  /\ s.hint <= Len(s.arr) \/ Len(s.arr) = 0

\* No key has a place in the array and a node.
Apart(s) == \A i \in Positions(s) : ~InArray(s, KeyOf(s, i))

TableFits(s) == s \in TableType /\ Chains(s) /\ ArrayFits(s) /\ Apart(s)

ArrayKeys(s) == {k \in IntKeys : k <= Len(s.arr) /\ s.arr[k]}
Entries(s) == {k \in Keys : Has(s, k)}

\* The entries are those of the array and those of the nodes.
LEMMA HasFacts ==
  ASSUME NEW s \in TableType, Chains(s), NEW k \in Keys
  PROVE  Has(s, k) <=> IF InArray(s, k) THEN k \in ArrayKeys(s)
                                        ELSE k \in HashKeys(s)
<1>1. CASE InArray(s, k)
  BY <1>1 DEF Has, InArray, ArrayKeys
<1>2. CASE ~InArray(s, k)
  <2> DEFINE j == Node(s, k, FALSE)
  <2>1. Has(s, k) <=> j # NIL /\ s.node[j].has
    BY <1>2 DEF Has
  <2>2. j # NIL => j \in Positions(s) /\ KeyOf(s, j) = k
    BY NodeFacts
  <2>3. \A i \in Positions(s) : KeyOf(s, i) = k /\ ~s.node[i].dead => j = i /\ j # NIL
    BY NodeFacts
  <2>4. \A i \in Positions(s) : s.node[i].has => ~s.node[i].dead
    BY NodeTyped DEF Chains, OnceAlive
  <2> HIDE DEF j
  <2>5. k \in HashKeys(s) <=> \E i \in Positions(s) : s.node[i].has /\ KeyOf(s, i) = k
    BY DEF HashKeys, KeyOf
  <2> QED BY <1>2, <2>1, <2>2, <2>3, <2>4, <2>5
<1> QED BY <1>1, <1>2

\* The entries are those of the array and those of the nodes.
LEMMA EntriesAre ==
  ASSUME NEW s, TableFits(s)
  PROVE  Entries(s) = ArrayKeys(s) \cup HashKeys(s)
<1>1. s \in TableType /\ Chains(s)
  BY DEF TableFits
<1>2. \A k \in Keys : Has(s, k) <=> IF InArray(s, k) THEN k \in ArrayKeys(s)
                                                   ELSE k \in HashKeys(s)
  BY <1>1, HasFacts
<1>3. \A k \in ArrayKeys(s) : k \in Keys /\ InArray(s, k)
  BY DEF ArrayKeys, InArray, Keys
<1>4. ASSUME NEW k \in HashKeys(s) PROVE k \in Keys /\ ~InArray(s, k)
  <2>1. PICK i \in Positions(s) : s.node[i].has /\ k = KeyOf(s, i)
    BY DEF HashKeys, KeyOf
  <2>2. KeyOf(s, i) # NIL
    BY <1>1, <2>1 DEF Chains, FreeAreFree
  <2> QED BY <1>1, <2>1, <2>2, HomeIsPosition DEF TableFits, Apart
<1>5. \A k \in ArrayKeys(s) \cup HashKeys(s) : k \in Keys
  BY <1>3, <1>4
<1> QED BY <1>2, <1>3, <1>4, <1>5 DEF Entries

(*--------------------------- the invariant -----------------------------*)

TravType == [on : BOOLEAN, at : Keys \cup {NIL}, seen : SUBSET Keys,
             owed : SUBSET Keys, wrong : SUBSET Keys]

\* The key a traversal is at has a place, maybe a dead node.  What it owes is
\* there and comes after that place; what it has seen does not.
HasPlace(s, k) == k # NIL => InArray(s, k) \/ Node(s, k, TRUE) # NIL
TravFits(s, v) ==
  /\ v \in TravType /\ v.wrong = {}
  /\ v.on =>
       /\ HasPlace(s, v.at)
       /\ \A k \in v.owed : k \in Entries(s) /\ FindIndex(s, v.at) < FindIndex(s, k)
       /\ \A k \in v.seen : k \in Entries(s) => FindIndex(s, k) <= FindIndex(s, v.at)

TableInv ==
  TableFits(t) /\ TravFits(t, trav) /\ CacheIsTrue /\ absent \subseteq Events

(*------------------------------- insertion ------------------------------*)

\* A node f joins the chain of mp, right after it.
Spliced(nx, ny, mp, f) ==
  /\ mp \in DOMAIN nx /\ f \in DOMAIN nx /\ f # mp
  /\ nx[f] = NIL /\ \A j \in DOMAIN nx : nx[j] # f
  /\ DOMAIN ny = DOMAIN nx /\ ny[mp] = f /\ ny[f] = nx[mp]
  /\ \A j \in DOMAIN nx : j # mp /\ j # f => ny[j] = nx[j]

\* A node f takes the place of mp, after b, and mp is left alone.
Displaced(nx, ny, mp, f, b) ==
  /\ mp \in DOMAIN nx /\ f \in DOMAIN nx /\ b \in DOMAIN nx /\ f # mp
  /\ nx[f] = NIL /\ \A j \in DOMAIN nx : nx[j] # f
  /\ nx[b] = mp
  /\ DOMAIN ny = DOMAIN nx /\ ny[mp] = NIL /\ ny[f] = nx[mp] /\ ny[b] = f
  /\ \A j \in DOMAIN nx : j # mp /\ j # f /\ j # b => ny[j] = nx[j]

\* No node links to itself.
LEMMA NoSelfLink ==
  ASSUME NEW nx, Chained(nx), NEW i \in DOMAIN nx
  PROVE  nx[i] # i
<1>1. {i} \in SUBSET DOMAIN nx /\ {i} # {}
  OBVIOUS
<1>2. \E j \in {i} : nx[j] \notin {i}
  BY <1>1 DEF Chained
<1> QED BY <1>2

\* A free node that joins a chain leaves chains.
LEMMA SplicedIsChained ==
  ASSUME NEW nx, NEW ny, NEW mp, NEW f, Chained(nx), Spliced(nx, ny, mp, f)
  PROVE  Chained(ny)
<1> USE DEF Spliced
<1>1. NIL \notin DOMAIN ny /\ \A i \in DOMAIN ny : ny[i] = NIL \/ ny[i] \in DOMAIN ny
  BY DEF Chained
<1>2. ASSUME NEW i \in DOMAIN ny, NEW j \in DOMAIN ny, ny[i] = ny[j], ny[i] # NIL
      PROVE  i = j
  BY <1>2, <1>1 DEF Chained
<1>3. ASSUME NEW S \in SUBSET DOMAIN ny, S # {}
      PROVE  \E i \in S : ny[i] \notin S
  <2>1. CASE S = {f}
    <3>1. ny[f] # f
      OBVIOUS
    <3> QED BY <2>1, <3>1
  <2>2. CASE S # {f}
    <3>1. S \ {f} \in SUBSET DOMAIN nx /\ S \ {f} # {}
      BY <1>3, <2>2
    <3>2. PICK i \in S \ {f} : nx[i] \notin S \ {f}
      BY <3>1 DEF Chained
    <3>3. nx[i] # f /\ nx[i] \notin S
      BY <3>2
    <3>4. CASE i # mp
      BY <3>2, <3>3, <3>4
    <3>5. CASE i = mp /\ f \notin S
      BY <3>2, <3>5
    <3>6. CASE i = mp /\ f \in S
      BY <3>3, <3>6
    <3> QED BY <3>4, <3>5, <3>6
  <2> QED BY <2>1, <2>2
<1> QED BY <1>1, <1>2, <1>3 DEF Chained

\* A free node that joins a chain cuts off no node.
LEMMA SplicedReaches ==
  ASSUME NEW nx, NEW ny, NEW mp, NEW f, Chained(nx), Spliced(nx, ny, mp, f),
         NEW x \in DOMAIN nx, NEW y \in DOMAIN nx, x # f, y # f, Reaches(nx, x, y)
  PROVE  Reaches(ny, x, y)
<1> USE DEF Spliced
<1>1. ASSUME NEW S \in SUBSET DOMAIN ny, x \in S, Linked(ny, S)
      PROVE  y \in S
  <2> DEFINE T == S \ {f}
  <2>1. T \in SUBSET DOMAIN nx /\ x \in T
    BY <1>1
  <2>2. Linked(nx, T)
    <3>1. ASSUME NEW z \in T, nx[z] # NIL PROVE nx[z] \in S
      <4>1. CASE z = mp
        BY <1>1, <3>1, <4>1 DEF Linked, Chained
      <4>2. CASE z # mp
        BY <1>1, <3>1, <4>2 DEF Linked
      <4> QED BY <4>1, <4>2
    <3>2. \A z \in T : nx[z] # f
      BY <2>1
    <3> QED BY <3>1, <3>2 DEF Linked
  <2> HIDE DEF T
  <2>3. y \in T
    BY <2>1, <2>2 DEF Reaches
  <2> QED BY <2>3 DEF T
<1> QED BY <1>1 DEF Reaches

\* A node that moves to a free place leaves chains.
LEMMA DisplacedIsChained ==
  ASSUME NEW nx, NEW ny, NEW mp, NEW f, NEW b, Chained(nx),
         Displaced(nx, ny, mp, f, b)
  PROVE  Chained(ny)
<1> USE DEF Displaced
<1>0. b # mp /\ b # f /\ mp # NIL
  BY NoSelfLink DEF Chained
<1>1. NIL \notin DOMAIN ny /\ \A i \in DOMAIN ny : ny[i] = NIL \/ ny[i] \in DOMAIN ny
  BY <1>0 DEF Chained
<1>2. ASSUME NEW i \in DOMAIN ny, NEW j \in DOMAIN ny, ny[i] = ny[j], ny[i] # NIL
      PROVE  i = j
  BY <1>2, <1>1, <1>0 DEF Chained
<1>3. ASSUME NEW S \in SUBSET DOMAIN ny, S # {}
      PROVE  \E i \in S : ny[i] \notin S
  <2>1. CASE mp \in S
    <3>1. NIL \notin S
      BY <1>1
    <3> QED BY <2>1, <3>1
  <2>2. CASE mp \notin S
    <3> DEFINE T == IF f \in S THEN (S \ {f}) \cup {mp} ELSE S
    <3>1. T \in SUBSET DOMAIN nx /\ T # {}
      BY <1>3
    <3>2. PICK i \in T : nx[i] \notin T
      <4> HIDE DEF T
      <4> QED BY <3>1 DEF Chained
    <3>3. nx[i] # f /\ i \in DOMAIN nx
      BY <3>1
    <3>4. CASE i = mp
      <4>1. f \in S /\ nx[mp] \notin S
        BY <2>2, <3>2, <3>3, <3>4
      <4> QED BY <4>1
    <3>5. CASE i # mp
      <4>1. i \in S /\ i # f
        BY <3>5, <2>2
      <4>2. CASE i = b
        <5>1. f \notin S
          BY <3>2, <4>2
        <5> QED BY <4>1, <4>2, <5>1
      <4>3. CASE i # b
        <5>1. ny[i] = nx[i] /\ nx[i] \notin S
          BY <3>2, <3>3, <3>5, <4>1, <4>3
        <5> QED BY <4>1, <5>1
      <4> QED BY <4>2, <4>3
    <3> QED BY <3>4, <3>5
  <2> QED BY <2>1, <2>2
<1> QED BY <1>1, <1>2, <1>3 DEF Chained

Stand(z, mp, f) == IF z = mp THEN f ELSE z

\* A node that moves to a free place cuts off no node.
LEMMA DisplacedReaches ==
  ASSUME NEW nx, NEW ny, NEW mp, NEW f, NEW b, Chained(nx),
         Displaced(nx, ny, mp, f, b),
         NEW x \in DOMAIN nx, NEW y \in DOMAIN nx, x # f, y # f, Reaches(nx, x, y)
  PROVE  Reaches(ny, Stand(x, mp, f), Stand(y, mp, f))
<1> USE DEF Displaced
<1>0. b # mp /\ b # f /\ mp # NIL /\ nx[mp] # mp
  BY NoSelfLink DEF Chained
<1>1. ASSUME NEW S \in SUBSET DOMAIN ny, Stand(x, mp, f) \in S, Linked(ny, S)
      PROVE  Stand(y, mp, f) \in S
  <2> DEFINE T == {z \in DOMAIN nx : z # f /\ Stand(z, mp, f) \in S}
  <2>1. T \in SUBSET DOMAIN nx /\ x \in T
    BY <1>1
  <2>2. ASSUME NEW z \in T, nx[z] # NIL PROVE nx[z] \in T
    <3>1. nx[z] \in DOMAIN nx /\ nx[z] # f
      BY <2>2 DEF Chained
    <3>2. CASE z = mp
      <4>1. f \in S /\ ny[f] = nx[z] /\ nx[z] # mp
        BY <1>0, <3>2 DEF Stand
      <4>2. nx[z] \in S
        BY <1>1, <2>2, <4>1 DEF Linked
      <4> QED BY <3>1, <4>1, <4>2 DEF Stand
    <3>3. CASE z = b
      <4>1. b \in S /\ ny[b] = f /\ f # NIL
        BY <1>0, <3>3 DEF Stand, Chained
      <4>2. f \in S
        BY <1>1, <4>1 DEF Linked
      <4> QED BY <3>1, <3>3, <4>2 DEF Stand
    <3>4. CASE z # mp /\ z # b
      <4>1. z \in S /\ z # f /\ ny[z] = nx[z]
        BY <3>4 DEF Stand
      <4>2. nx[z] \in S
        BY <1>1, <2>2, <4>1 DEF Linked
      <4>3. nx[z] # mp
        BY <3>4, <1>0 DEF Chained
      <4> QED BY <3>1, <4>2, <4>3 DEF Stand
    <3> QED BY <3>2, <3>3, <3>4
  <2>3. Linked(nx, T)
    <3> HIDE DEF T
    <3> QED BY <2>2 DEF Linked
  <2> HIDE DEF T
  <2>4. y \in T
    BY <2>1, <2>3 DEF Reaches
  <2> QED BY <2>4 DEF T
<1>2. DOMAIN ny = DOMAIN nx
  OBVIOUS
<1> QED BY <1>1, <1>2 DEF Reaches

\* r is s but for its nodes and 'last'.
SameButNodes(s, r) ==
  /\ Positions(r) = Positions(s)
  /\ r.arr = s.arr /\ r.hint = s.hint /\ r.dummy = s.dummy

\* getfreepos finds the last free node.
LEMMA FreePosFacts ==
  ASSUME NEW s \in TableType, FreePos(s) # NIL
  PROVE  /\ FreePos(s) \in Positions(s) /\ KeyOf(s, FreePos(s)) = NIL
         /\ FreePos(s) \in Nat /\ ~s.dummy
         /\ \A i \in FreeNodes(s) : i <= FreePos(s)
<1>1. PICK N \in Nat \ {0} : Positions(s) = 0..(N - 1)
  BY VectorFacts
<1>2. FreeNodes(s) # {} /\ FreePos(s) = Max(FreeNodes(s))
  BY DEF FreePos
<1>3. FreeNodes(s) \in SUBSET (0..(N - 1)) /\ N - 1 \in Nat
  BY <1>1 DEF FreeNodes
<1>4. /\ Max(FreeNodes(s)) \in FreeNodes(s)
      /\ \A i \in FreeNodes(s) : Max(FreeNodes(s)) >= i
  BY <1>2, <1>3, MaxIsGreatest
<1>5. \A i \in FreeNodes(s) : i \in Nat /\ i \in Positions(s) /\ KeyOf(s, i) = NIL /\ ~s.dummy
  BY <1>1 DEF FreeNodes, KeyOf
<1> QED BY <1>2, <1>4, <1>5

\* The result of getfreepos is a number or none.
LEMMA FreePosType ==
  ASSUME NEW s \in TableType
  PROVE  FreePos(s) \in Nat \cup {NIL}
BY FreePosFacts

\* SetNode changes one node.
LEMMA SetNodeFacts ==
  ASSUME NEW s \in TableType, NEW i, NEW k \in Keys, NEW next \in Nat \cup {NIL}
  PROVE  LET r == SetNode(s, i, k, next)
         IN  /\ r \in TableType /\ SameButNodes(s, r) /\ r.last = s.last
             /\ \A j \in Positions(s) : j # i => r.node[j] = s.node[j]
             /\ i \in Positions(s) =>
                  r.node[i] = [key |-> k, dead |-> FALSE, has |-> TRUE, next |-> next]
<1> DEFINE n == [key |-> k, dead |-> FALSE, has |-> TRUE, next |-> next]
           r == SetNode(s, i, k, next)
<1>1. PICK N \in Nat \ {0} : s.node \in [0..(N - 1) -> NodeType]
  BY VectorFacts
<1>2. n \in NodeType
  BY DEF NodeType
<1>3. r.node = [s.node EXCEPT ![i] = n] /\ r.arr = s.arr /\ r.hint = s.hint
      /\ r.dummy = s.dummy /\ r.last = s.last
  BY DEF SetNode, TableType
<1>4. r.node \in [0..(N - 1) -> NodeType]
  <2> HIDE DEF n, r
  <2> QED BY <1>1, <1>2, <1>3
<1>5. r.node \in Vectors
  BY <1>4 DEF Vectors
<1>6. r \in TableType
  <2> HIDE DEF n
  <2> QED BY <1>5, <1>3 DEF TableType, SetNode
<1> HIDE DEF n, r
<1>7. Positions(r) = Positions(s)
  BY <1>1, <1>4 DEF Positions
<1> QED BY <1>1, <1>3, <1>6, <1>7 DEF SameButNodes, Positions, r, n

\* getfreepos changes 'last' only.
LEMMA TakeFreeFacts ==
  ASSUME NEW s \in TableType
  PROVE  LET r == TakeFree(s)
         IN  /\ r \in TableType /\ SameButNodes(s, r) /\ r.node = s.node
             /\ r.last = IF s.last = NIL THEN NIL
                         ELSE IF FreePos(s) = NIL THEN 0 ELSE FreePos(s)
<1> DEFINE l == IF s.last = NIL THEN NIL
                ELSE IF FreePos(s) = NIL THEN 0 ELSE FreePos(s)
<1>1. l \in Nat \cup {NIL}
  BY FreePosType
<1>2. TakeFree(s) = [s EXCEPT !.last = l]
  BY DEF TakeFree, TableType
<1> HIDE DEF l
<1>3. TakeFree(s) \in TableType
  BY <1>1, <1>2 DEF TableType
<1>4. SameButNodes(s, TakeFree(s)) /\ TakeFree(s).node = s.node /\ TakeFree(s).last = l
  BY <1>2 DEF SameButNodes, Positions, TableType
<1> QED BY <1>3, <1>4 DEF l

\* Copying a node, and linking another to it.
Copied(s, f, n) == [s EXCEPT !.node[f] = n]
Linking(s, b, f) == [s EXCEPT !.node[b].next = f]

\* A copy of a node changes one place.
LEMMA CopiedFacts ==
  ASSUME NEW s \in TableType, NEW f, NEW n \in NodeType
  PROVE  LET r == Copied(s, f, n)
         IN  /\ r \in TableType /\ SameButNodes(s, r) /\ r.last = s.last
             /\ \A j \in Positions(s) : j # f => r.node[j] = s.node[j]
             /\ f \in Positions(s) => r.node[f] = n
<1> DEFINE r == Copied(s, f, n)
<1>1. PICK N \in Nat \ {0} : s.node \in [0..(N - 1) -> NodeType]
  BY VectorFacts
<1>3. r.node = [s.node EXCEPT ![f] = n] /\ r.arr = s.arr /\ r.hint = s.hint
      /\ r.dummy = s.dummy /\ r.last = s.last
  BY DEF Copied, TableType
<1>4. r.node \in [0..(N - 1) -> NodeType]
  <2> HIDE DEF r
  <2> QED BY <1>1, <1>3
<1>5. r.node \in Vectors
  BY <1>4 DEF Vectors
<1>6. r \in TableType
  BY <1>5, <1>3 DEF TableType, Copied
<1> HIDE DEF r
<1>7. Positions(r) = Positions(s)
  BY <1>1, <1>4 DEF Positions
<1> QED BY <1>1, <1>3, <1>6, <1>7 DEF SameButNodes, Positions, r

\* A new link changes one node.
LEMMA LinkingFacts ==
  ASSUME NEW s \in TableType, NEW b, NEW f \in Nat \cup {NIL}
  PROVE  LET r == Linking(s, b, f)
         IN  /\ r \in TableType /\ SameButNodes(s, r) /\ r.last = s.last
             /\ \A j \in Positions(s) : j # b => r.node[j] = s.node[j]
             /\ b \in Positions(s) =>
                  /\ r.node[b].next = f /\ r.node[b].key = s.node[b].key
                  /\ r.node[b].dead = s.node[b].dead /\ r.node[b].has = s.node[b].has
<1> DEFINE r == Linking(s, b, f)
           n == [s.node[b] EXCEPT !.next = f]
<1>1. PICK N \in Nat \ {0} : s.node \in [0..(N - 1) -> NodeType]
  BY VectorFacts
<1>2. b \in Positions(s) => n \in NodeType
  BY NodeTyped DEF NodeType
<1>3. r.node = [s.node EXCEPT ![b] = n] /\ r.arr = s.arr /\ r.hint = s.hint
      /\ r.dummy = s.dummy /\ r.last = s.last
  BY DEF Linking, TableType
<1>4. r.node \in [0..(N - 1) -> NodeType]
  <2> HIDE DEF r, n
  <2> QED BY <1>1, <1>2, <1>3 DEF Positions
<1>5. r.node \in Vectors
  BY <1>4 DEF Vectors
<1>6. r \in TableType
  BY <1>5, <1>3 DEF TableType, Linking
<1>7. b \in Positions(s) => /\ n.next = f /\ n.key = s.node[b].key
                            /\ n.dead = s.node[b].dead /\ n.has = s.node[b].has
  BY NodeTyped DEF NodeType
<1> HIDE DEF r, n
<1>8. Positions(r) = Positions(s)
  BY <1>1, <1>4 DEF Positions
<1> QED BY <1>1, <1>3, <1>6, <1>7, <1>8 DEF SameButNodes, Positions, r

\* The three cases of insertkey.
LEMMA InsertKeyCases ==
  ASSUME NEW s \in TableType, NEW k \in Keys
  PROVE  LET mp == MainPosition(s, k)
             f == FreePos(s)
             n == s.node[mp]
             u == TakeFree(s)
             r == InsertKey(s, k)
         IN  /\ ~n.has => r = SetNode(s, mp, k, n.next)
             /\ n.has /\ MainPosition(s, n.key) # mp =>
                  r = SetNode(Linking(Copied(u, f, n), Before(s, mp), f), mp, k, NIL)
             /\ n.has /\ MainPosition(s, n.key) = mp =>
                  r = SetNode(Linking(u, mp, f), f, k, n.next)
<1> DEFINE u == TakeFree(s)
<1>1. u \in TableType
  BY TakeFreeFacts
<1>2. \A f, n, b : [u EXCEPT !.node[f] = n, !.node[b].next = f]
                    = Linking(Copied(u, f, n), b, f)
  BY DEF Linking, Copied
<1>3. \A b, f : [u EXCEPT !.node[b].next = f] = Linking(u, b, f)
  BY DEF Linking
<1> HIDE DEF u
<1> QED BY <1>2, <1>3 DEF InsertKey, u

\* insertkey gives a table with the same array and size.
LEMMA InsertKeyType ==
  ASSUME NEW s \in TableType, NEW k \in Keys
  PROVE  InsertKey(s, k) \in TableType /\ SameButNodes(s, InsertKey(s, k))
<1> DEFINE mp == MainPosition(s, k)
           f == FreePos(s)
           n == s.node[mp]
           u == TakeFree(s)
           b == Before(s, mp)
<1>1. mp \in Positions(s)
  BY MainIsPosition
<1>2. n \in NodeType /\ n.next \in Nat \cup {NIL} /\ NIL \in Nat \cup {NIL}
  BY <1>1, NodeTyped
<1>3. f \in Nat \cup {NIL}
  BY FreePosType
<1>4. u \in TableType /\ SameButNodes(s, u)
  BY TakeFreeFacts
<1> HIDE DEF mp, f, n, u, b
<1>5. CASE ~n.has
  <2>1. InsertKey(s, k) = SetNode(s, mp, k, n.next)
    BY <1>5, InsertKeyCases DEF mp, n
  <2>2. /\ SetNode(s, mp, k, n.next) \in TableType
        /\ SameButNodes(s, SetNode(s, mp, k, n.next))
    BY <1>2, SetNodeFacts
  <2> QED BY <2>1, <2>2
<1>6. CASE n.has /\ MainPosition(s, n.key) # mp
  <2> DEFINE c == Copied(u, f, n)
             l == Linking(c, b, f)
  <2>1. c \in TableType /\ SameButNodes(u, c)
    BY <1>2, <1>4, CopiedFacts
  <2> HIDE DEF c
  <2>2. l \in TableType /\ SameButNodes(c, l)
    BY <1>3, <2>1, LinkingFacts
  <2> HIDE DEF l
  <2>3. SetNode(l, mp, k, NIL) \in TableType /\ SameButNodes(l, SetNode(l, mp, k, NIL))
    BY <1>2, <2>2, SetNodeFacts
  <2>4. InsertKey(s, k) = SetNode(l, mp, k, NIL)
    BY <1>6, InsertKeyCases DEF mp, n, f, u, b, c, l
  <2> QED BY <1>4, <2>1, <2>2, <2>3, <2>4 DEF SameButNodes
<1>7. CASE n.has /\ MainPosition(s, n.key) = mp
  <2> DEFINE l == Linking(u, mp, f)
  <2>2. l \in TableType /\ SameButNodes(u, l)
    BY <1>3, <1>4, LinkingFacts
  <2> HIDE DEF l
  <2>3. SetNode(l, f, k, n.next) \in TableType /\ SameButNodes(l, SetNode(l, f, k, n.next))
    BY <1>2, <2>2, SetNodeFacts
  <2>4. InsertKey(s, k) = SetNode(l, f, k, n.next)
    BY <1>7, InsertKeyCases DEF mp, n, f, u, l
  <2> QED BY <1>4, <2>2, <2>3, <2>4 DEF SameButNodes
<1> QED BY <1>5, <1>6, <1>7, NodeTyped, <1>1 DEF n

\* What insertkey does to the nodes: the key takes its main position, ...
TookMain(s, r, k) ==
  LET mp == MainPosition(s, k)
  IN  /\ ~s.node[mp].has /\ r.last = s.last
      /\ \A j \in Positions(s) : j # mp => r.node[j] = s.node[j]
      /\ r.node[mp] = [key |-> k, dead |-> FALSE, has |-> TRUE,
                       next |-> s.node[mp].next]

\* ... drives another key from there to a free node, ...
Drove(s, r, k, f, b) ==
  LET mp == MainPosition(s, k)
  IN  /\ s.node[mp].has /\ Home(s, mp) # mp /\ s.node[b].next = mp
      /\ \A j \in Positions(s) : j \notin {mp, f, b} => r.node[j] = s.node[j]
      /\ r.node[f] = s.node[mp]
      /\ r.node[b].next = f /\ r.node[b].key = s.node[b].key
      /\ r.node[b].dead = s.node[b].dead /\ r.node[b].has = s.node[b].has
      /\ r.node[mp] = [key |-> k, dead |-> FALSE, has |-> TRUE, next |-> NIL]

\* ... or joins the chain that starts there.
Joined(s, r, k, f) ==
  LET mp == MainPosition(s, k)
      n == s.node[mp]
  IN  /\ n.has /\ Home(s, mp) = mp
      /\ \A j \in Positions(s) : j \notin {mp, f} => r.node[j] = s.node[j]
      /\ r.node[mp].next = f /\ r.node[mp].key = n.key
      /\ r.node[mp].dead = n.dead /\ r.node[mp].has = n.has
      /\ r.node[f] = [key |-> k, dead |-> FALSE, has |-> TRUE, next |-> n.next]

\* f is the free node taken.
TookFree(s, r, f) ==
  /\ f \in Positions(s) /\ KeyOf(s, f) = NIL
  /\ r.last = IF s.last = NIL THEN NIL ELSE f
  /\ \A i \in FreeNodes(s) : i <= f

\* First case: the key takes its free main position.
LEMMA TakesMain ==
  ASSUME NEW s \in TableType, NEW k \in Keys, ~s.node[MainPosition(s, k)].has
  PROVE  TookMain(s, InsertKey(s, k), k)
<1> DEFINE mp == MainPosition(s, k)
<1>1. mp \in Positions(s)
  BY MainIsPosition
<1>2. s.node[mp].next \in Nat \cup {NIL}
  BY <1>1, NodeTyped
<1>3. InsertKey(s, k) = SetNode(s, mp, k, s.node[mp].next)
  BY InsertKeyCases
<1> QED BY <1>1, <1>2, <1>3, SetNodeFacts DEF TookMain

\* Second case: the key joins the chain of its main position.
LEMMA JoinsChain ==
  ASSUME NEW s \in TableType, Chains(s), NEW k \in Keys, FreePos(s) # NIL,
         s.node[MainPosition(s, k)].has,
         Home(s, MainPosition(s, k)) = MainPosition(s, k)
  PROVE  /\ Joined(s, InsertKey(s, k), k, FreePos(s))
         /\ TookFree(s, InsertKey(s, k), FreePos(s))
<1> DEFINE mp == MainPosition(s, k)
           f == FreePos(s)
           n == s.node[mp]
           u == TakeFree(s)
           l == Linking(u, mp, f)
           r == InsertKey(s, k)
<1>1. mp \in Positions(s) /\ f \in Positions(s) /\ KeyOf(s, f) = NIL /\ f \in Nat
      /\ \A i \in FreeNodes(s) : i <= f
  BY MainIsPosition, FreePosFacts
<1>2. n.next \in Nat \cup {NIL}
  BY <1>1, NodeTyped
<1>3. f # mp
  BY <1>1 DEF Chains, FreeAreFree
<1>4. /\ u \in TableType /\ Positions(u) = Positions(s) /\ u.node = s.node
      /\ u.last = IF s.last = NIL THEN NIL ELSE f
  BY TakeFreeFacts DEF SameButNodes
<1>5. n.has /\ MainPosition(s, n.key) = mp
  BY DEF Home, KeyOf
<1>6. r = SetNode(l, f, k, n.next)
  BY <1>5, InsertKeyCases
<1> HIDE DEF mp, f, n, u, l, r
<1>7. /\ l \in TableType /\ Positions(l) = Positions(s) /\ l.last = u.last
      /\ \A j \in Positions(s) : j # mp => l.node[j] = s.node[j]
      /\ l.node[mp].next = f /\ l.node[mp].key = s.node[mp].key
      /\ l.node[mp].dead = s.node[mp].dead /\ l.node[mp].has = s.node[mp].has
  BY <1>1, <1>4, LinkingFacts DEF l, SameButNodes
<1>8. /\ r.last = l.last
      /\ \A j \in Positions(s) : j # f => r.node[j] = l.node[j]
      /\ r.node[f] = [key |-> k, dead |-> FALSE, has |-> TRUE, next |-> n.next]
  BY <1>1, <1>2, <1>6, <1>7, SetNodeFacts
<1>9. TookFree(s, r, f)
  BY <1>1, <1>4, <1>7, <1>8 DEF TookFree
<1>10. Joined(s, r, k, f)
  BY <1>1, <1>3, <1>5, <1>7, <1>8 DEF Joined, mp, n, Home, KeyOf
<1> QED BY <1>9, <1>10 DEF r, f

\* Third case: the key drives a node of another chain away.
LEMMA DrivesOther ==
  ASSUME NEW s \in TableType, Chains(s), NEW k \in Keys, FreePos(s) # NIL,
         s.node[MainPosition(s, k)].has,
         Home(s, MainPosition(s, k)) # MainPosition(s, k)
  PROVE  /\ Before(s, MainPosition(s, k)) \in Positions(s)
         /\ Drove(s, InsertKey(s, k), k, FreePos(s), Before(s, MainPosition(s, k)))
         /\ TookFree(s, InsertKey(s, k), FreePos(s))
<1> DEFINE mp == MainPosition(s, k)
           f == FreePos(s)
           b == Before(s, mp)
           n == s.node[mp]
           u == TakeFree(s)
           c == Copied(u, f, n)
           l == Linking(c, b, f)
           r == InsertKey(s, k)
<1>1. mp \in Positions(s) /\ f \in Positions(s) /\ KeyOf(s, f) = NIL /\ f \in Nat
      /\ \A i \in FreeNodes(s) : i <= f
  BY MainIsPosition, FreePosFacts
<1>2. n \in NodeType /\ KeyOf(s, mp) # NIL /\ f # mp /\ mp # NIL
  BY <1>1, NodeTyped DEF Chains, FreeAreFree
<1>3. DOMAIN Links(s) = Positions(s) /\ \A z \in Positions(s) : Links(s)[z] = s.node[z].next
  BY DEF Links
<1>4. b \in Positions(s) /\ s.node[b].next = mp
  <2>1. Reaches(Links(s), Home(s, mp), mp) /\ Home(s, mp) \in Positions(s)
    BY <1>1, <1>2, HomeIsPosition DEF Chains, AtHome
  <2>2. \E z \in Positions(s) : s.node[z].next = mp
    BY <1>1, <1>3, <2>1, ReachedIsLinked DEF Chains
  <2> QED BY <2>2 DEF Before
<1>5. b # f /\ b # mp
  BY <1>1, <1>2, <1>3, <1>4, NoSelfLink DEF Chains, FreeAreFree
<1>6. /\ u \in TableType /\ Positions(u) = Positions(s) /\ u.node = s.node
      /\ u.last = IF s.last = NIL THEN NIL ELSE f
  BY TakeFreeFacts DEF SameButNodes
<1>7. n.has /\ MainPosition(s, n.key) # mp
  BY DEF Home, KeyOf
<1>8. r = SetNode(l, mp, k, NIL)
  BY <1>7, InsertKeyCases
<1> HIDE DEF mp, f, b, n, u, c, l, r
<1>9. /\ c \in TableType /\ Positions(c) = Positions(s) /\ c.last = u.last
      /\ \A j \in Positions(s) : j # f => c.node[j] = s.node[j]
      /\ c.node[f] = n
  BY <1>1, <1>2, <1>6, CopiedFacts DEF c, SameButNodes
<1>10. /\ l \in TableType /\ Positions(l) = Positions(s) /\ l.last = c.last
       /\ \A j \in Positions(s) : j # b => l.node[j] = c.node[j]
       /\ l.node[b].next = f /\ l.node[b].key = c.node[b].key
       /\ l.node[b].dead = c.node[b].dead /\ l.node[b].has = c.node[b].has
  BY <1>1, <1>4, <1>9, LinkingFacts DEF l, SameButNodes
<1>11. /\ r.last = l.last
       /\ \A j \in Positions(s) : j # mp => r.node[j] = l.node[j]
       /\ r.node[mp] = [key |-> k, dead |-> FALSE, has |-> TRUE, next |-> NIL]
  BY <1>1, <1>8, <1>10, SetNodeFacts
<1>12. TookFree(s, r, f)
  BY <1>1, <1>6, <1>9, <1>10, <1>11 DEF TookFree
<1>13. \A j \in Positions(s) : j \notin {mp, f, b} => r.node[j] = s.node[j]
  BY <1>9, <1>10, <1>11
<1>14. r.node[f] = n
  BY <1>1, <1>2, <1>5, <1>9, <1>10, <1>11
<1>15. /\ r.node[b].next = f /\ r.node[b].key = s.node[b].key
       /\ r.node[b].dead = s.node[b].dead /\ r.node[b].has = s.node[b].has
  BY <1>4, <1>5, <1>9, <1>10, <1>11
<1>16. Home(s, mp) # mp
  BY <1>7 DEF n, Home, KeyOf
<1>17. Drove(s, r, k, f, b)
  BY <1>4, <1>7, <1>11, <1>13, <1>14, <1>15, <1>16 DEF Drove, mp, n
<1> QED BY <1>4, <1>12, <1>17 DEF r, f, b, mp

\* No live node has key k.
NotLive(s, k) == \A i \in Positions(s) : KeyOf(s, i) = k => s.node[i].dead

\* What Links is made of.
LEMMA LinksFacts ==
  ASSUME NEW s
  PROVE  DOMAIN Links(s) = Positions(s)
         /\ \A z \in Positions(s) : Links(s)[z] = s.node[z].next
BY DEF Links

\* The first case keeps the chains.
LEMMA TookMainChains ==
  ASSUME NEW s \in TableType, NEW r \in TableType, Chains(s), ~s.dummy,
         SameButNodes(s, r), NEW k \in Keys, NotLive(s, k), TookMain(s, r, k)
  PROVE  Chains(r)
<1> DEFINE mp == MainPosition(s, k)
<1>1. Positions(r) = Positions(s) /\ ~r.dummy /\ k # NIL /\ mp \in Positions(s)
  BY MainIsPosition, TableAssumption DEF SameButNodes
<1>2. /\ \A j \in Positions(s) : j # mp => r.node[j] = s.node[j]
      /\ KeyOf(r, mp) = k /\ ~r.node[mp].dead /\ r.node[mp].has
      /\ r.node[mp].next = s.node[mp].next /\ r.last = s.last
  BY DEF TookMain, KeyOf
<1>3. \A j \in Positions(s) : r.node[j].next = s.node[j].next
  BY <1>2
<1>4. Links(r) = Links(s)
  BY <1>1, <1>3 DEF Links
<1>5. MainPosition(r, k) = mp /\ \A i : MainPosition(r, KeyOf(s, i)) = Home(s, i)
  BY <1>1, MainDepends DEF Home
<1> HIDE DEF mp
<1>6. FreeAreFree(r)
  BY <1>1, <1>2, <1>3 DEF Chains, FreeAreFree, KeyOf
<1>7. Home(r, mp) = mp
  BY <1>2, <1>5 DEF Home
<1>8. \A j \in Positions(s) : j # mp => KeyOf(r, j) = KeyOf(s, j) /\ Home(r, j) = Home(s, j)
  BY <1>2, <1>5 DEF Home, KeyOf
<1>9. AtHome(r)
  <2> SUFFICES ASSUME NEW i \in Positions(s), KeyOf(r, i) # NIL
               PROVE  /\ Reaches(Links(s), Home(r, i), i)
                      /\ KeyOf(r, Home(r, i)) # NIL
                      /\ Home(r, Home(r, i)) = Home(r, i) /\ ~r.dummy
    BY <1>1, <1>4 DEF AtHome
  <2>1. CASE i = mp
    BY <1>1, <1>2, <1>7, <2>1, ReachesItself, LinksFacts
  <2>2. CASE i # mp
    <3>1. /\ Home(r, i) = Home(s, i) /\ Reaches(Links(s), Home(s, i), i)
          /\ KeyOf(s, Home(s, i)) # NIL /\ Home(s, Home(s, i)) = Home(s, i)
      BY <1>8, <2>2 DEF Chains, AtHome
    <3>2. Home(s, i) \in Positions(s)
      BY <1>8, <2>2, HomeIsPosition
    <3> QED BY <1>1, <1>2, <1>7, <1>8, <3>1, <3>2
  <2> QED BY <2>1, <2>2
<1>10. OnceAlive(r)
  <2>1. \A i \in Positions(s) : r.node[i].dead => ~r.node[i].has
    BY <1>2 DEF Chains, OnceAlive
  <2>2. ASSUME NEW i \in Positions(s), NEW j \in Positions(s), i # j,
               KeyOf(r, i) = KeyOf(r, j), KeyOf(r, i) # NIL, ~r.node[i].dead
        PROVE  r.node[j].dead /\ Reaches(Links(s), i, j)
    <3>1. CASE i = mp
      <4>1. KeyOf(s, j) = k /\ s.node[j].dead /\ r.node[j] = s.node[j]
        BY <1>2, <1>8, <2>2, <3>1 DEF NotLive
      <4>2. Reaches(Links(s), mp, j)
        BY <1>1, <4>1 DEF Chains, AtHome, Home, mp
      <4> QED BY <3>1, <4>1, <4>2
    <3>2. CASE i # mp
      <4>1. r.node[i] = s.node[i] /\ KeyOf(s, i) # k
        BY <1>2, <1>8, <2>2, <3>2 DEF NotLive
      <4>2. j # mp
        BY <1>2, <1>8, <2>2, <3>2, <4>1
      <4> QED BY <1>2, <1>8, <2>2, <3>2, <4>1, <4>2 DEF Chains, OnceAlive
    <3> QED BY <3>1, <3>2
  <2> QED BY <1>1, <1>4, <2>1, <2>2 DEF OnceAlive
<1> QED BY <1>4, <1>6, <1>9, <1>10 DEF Chains

\* The second case keeps the chains.
LEMMA JoinedChains ==
  ASSUME NEW s \in TableType, NEW r \in TableType, Chains(s), ~s.dummy,
         SameButNodes(s, r), NEW k \in Keys, NotLive(s, k),
         NEW f, Joined(s, r, k, f), TookFree(s, r, f)
  PROVE  Chains(r)
<1> DEFINE mp == MainPosition(s, k)
<1>1. /\ Positions(r) = Positions(s) /\ ~r.dummy /\ k # NIL /\ mp \in Positions(s)
      /\ f \in Positions(s) /\ KeyOf(s, f) = NIL /\ f # NIL /\ f \in Nat
  BY MainIsPosition, NodeTyped, TableAssumption DEF SameButNodes, TookFree
<1>2. /\ s.node[mp].has /\ Home(s, mp) = mp
      /\ \A j \in Positions(s) : j # mp /\ j # f => r.node[j] = s.node[j]
      /\ r.node[mp].next = f /\ KeyOf(r, mp) = KeyOf(s, mp)
      /\ r.node[mp].dead = s.node[mp].dead /\ r.node[mp].has = s.node[mp].has
      /\ KeyOf(r, f) = k /\ ~r.node[f].dead /\ r.node[f].has
      /\ r.node[f].next = s.node[mp].next
  BY DEF Joined, KeyOf
<1>3. KeyOf(s, mp) # NIL /\ f # mp /\ ~s.node[mp].dead
  BY <1>1, <1>2, NodeTyped DEF Chains, FreeAreFree, OnceAlive
<1>4. MainPosition(r, k) = mp /\ \A i : MainPosition(r, KeyOf(s, i)) = Home(s, i)
  BY <1>1, MainDepends DEF Home
<1> HIDE DEF mp
<1>5. Spliced(Links(s), Links(r), mp, f)
  <2>1. /\ DOMAIN Links(s) = Positions(s) /\ DOMAIN Links(r) = Positions(s)
        /\ \A z \in Positions(s) : /\ Links(s)[z] = s.node[z].next
                                   /\ Links(r)[z] = r.node[z].next
    BY <1>1, LinksFacts
  <2>2. s.node[f].next = NIL /\ \A j \in Positions(s) : s.node[j].next # f
    BY <1>1 DEF Chains, FreeAreFree
  <2>3. Links(s)[f] = NIL /\ \A j \in Positions(s) : Links(s)[j] # f
    BY <1>1, <2>1, <2>2
  <2>4. Links(r)[mp] = f /\ Links(r)[f] = Links(s)[mp]
    BY <1>1, <1>2, <2>1
  <2>5. \A j \in Positions(s) : j # mp /\ j # f => Links(r)[j] = Links(s)[j]
    BY <1>2, <2>1
  <2> QED BY <1>1, <1>3, <2>1, <2>3, <2>4, <2>5 DEF Spliced
<1>6. Chained(Links(s)) /\ Chained(Links(r))
  BY <1>5, SplicedIsChained DEF Chains
<1>7. \A x, y \in Positions(s) : x # f /\ y # f /\ Reaches(Links(s), x, y)
                                   => Reaches(Links(r), x, y)
  BY <1>5, <1>6, SplicedReaches, LinksFacts
<1>8. Home(r, f) = mp /\ Home(r, mp) = mp
  BY <1>2, <1>4 DEF Home
<1>9. \A j \in Positions(s) : j # f => KeyOf(r, j) = KeyOf(s, j) /\ Home(r, j) = Home(s, j)
  BY <1>2, <1>4 DEF Home, KeyOf
<1>10. \A j \in Positions(s) : j # f => r.node[j].dead = s.node[j].dead
                                        /\ r.node[j].has = s.node[j].has
  BY <1>2
<1>11. FreeAreFree(r)
  <2> SUFFICES ASSUME NEW i \in Positions(s), KeyOf(r, i) = NIL
               PROVE  /\ ~r.node[i].has /\ ~r.node[i].dead /\ r.node[i].next = NIL
                      /\ \A j \in Positions(s) : r.node[j].next # i
                      /\ r.last # NIL => i < r.last
    BY <1>1 DEF FreeAreFree
  <2>1. i # f /\ i # mp /\ r.node[i] = s.node[i] /\ KeyOf(s, i) = NIL
    BY <1>1, <1>2, <1>3, <1>9
  <2>2. /\ ~s.node[i].has /\ ~s.node[i].dead /\ s.node[i].next = NIL
        /\ \A j \in Positions(s) : s.node[j].next # i
        /\ s.last # NIL => i < s.last
    BY <2>1 DEF Chains, FreeAreFree
  <2>3. \A j \in Positions(s) : r.node[j].next # i
    BY <1>1, <1>2, <2>1, <2>2
  <2>4. r.last # NIL => i < r.last
    <3>1. i \in FreeNodes(s)
      BY <2>1, <2>2 DEF FreeNodes, KeyOf
    <3>2. i <= f /\ i \in Nat
      BY <3>1, NodeTyped DEF TookFree
    <3>3. r.last # NIL => r.last = f
      BY DEF TookFree
    <3> QED BY <1>1, <2>1, <3>2, <3>3
  <2> QED BY <2>1, <2>2, <2>3, <2>4
<1>12. Reaches(Links(r), mp, f)
  <2>1. mp \in DOMAIN Links(r) /\ Links(r)[mp] = f
    BY <1>1, <1>2, LinksFacts
  <2> QED BY <1>1, <2>1, ReachesLink
<1>13. AtHome(r)
  <2> SUFFICES ASSUME NEW i \in Positions(s), KeyOf(r, i) # NIL
               PROVE  /\ Reaches(Links(r), Home(r, i), i)
                      /\ KeyOf(r, Home(r, i)) # NIL
                      /\ Home(r, Home(r, i)) = Home(r, i) /\ ~r.dummy
    BY <1>1 DEF AtHome
  <2>1. CASE i = f
    BY <1>1, <1>2, <1>3, <1>8, <1>12, <2>1
  <2>2. CASE i # f
    <3>1. /\ Home(r, i) = Home(s, i) /\ Reaches(Links(s), Home(s, i), i)
          /\ KeyOf(s, Home(s, i)) # NIL /\ Home(s, Home(s, i)) = Home(s, i)
      BY <1>9, <2>2 DEF Chains, AtHome
    <3>2. Home(s, i) \in Positions(s) /\ Home(s, i) # f
      BY <1>1, <1>9, <2>2, <3>1, HomeIsPosition
    <3>3. Reaches(Links(r), Home(s, i), i)
      BY <1>7, <2>2, <3>1, <3>2
    <3> QED BY <1>1, <1>9, <3>1, <3>2, <3>3
  <2> QED BY <2>1, <2>2
<1>14. OnceAlive(r)
  <2>1. \A i \in Positions(s) : r.node[i].dead => ~r.node[i].has
    BY <1>2, <1>10 DEF Chains, OnceAlive
  <2>2. ASSUME NEW i \in Positions(s), NEW j \in Positions(s), i # j,
               KeyOf(r, i) = KeyOf(r, j), KeyOf(r, i) # NIL, ~r.node[i].dead
        PROVE  r.node[j].dead /\ Reaches(Links(r), i, j)
    <3>1. CASE i = f
      <4>1. KeyOf(s, j) = k /\ s.node[j].dead /\ r.node[j].dead /\ j # f
        BY <1>2, <1>9, <1>10, <2>2, <3>1 DEF NotLive
      <4>2. Reaches(Links(s), mp, j) /\ mp # j
        BY <1>1, <1>3, <4>1 DEF Chains, AtHome, Home, mp
      <4>3. Reaches(Links(r), mp, j)
        BY <1>1, <1>3, <1>7, <4>1, <4>2
      <4>4. Reaches(Links(r), Links(r)[mp], j)
        BY <1>1, <1>6, <4>2, <4>3, ReachesByLink, LinksFacts
      <4>5. Links(r)[mp] = f
        BY <1>1, <1>2, LinksFacts
      <4> QED BY <3>1, <4>1, <4>4, <4>5
    <3>2. CASE i # f
      <4>1. ~s.node[i].dead /\ KeyOf(s, i) # k
        BY <1>9, <1>10, <2>2, <3>2 DEF NotLive
      <4>2. j # f
        BY <1>2, <1>9, <2>2, <3>2, <4>1
      <4>3. s.node[j].dead /\ Reaches(Links(s), i, j)
        BY <1>9, <2>2, <3>2, <4>1, <4>2 DEF Chains, OnceAlive
      <4> QED BY <1>7, <1>10, <3>2, <4>2, <4>3
    <3> QED BY <3>1, <3>2
  <2> QED BY <1>1, <2>1, <2>2 DEF OnceAlive
<1> QED BY <1>6, <1>11, <1>13, <1>14 DEF Chains

\* The third case keeps the chains.
LEMMA DroveChains ==
  ASSUME NEW s \in TableType, NEW r \in TableType, Chains(s), ~s.dummy,
         SameButNodes(s, r), NEW k \in Keys, NotLive(s, k),
         NEW f, NEW b \in Positions(s), Drove(s, r, k, f, b), TookFree(s, r, f)
  PROVE  Chains(r)
<1> DEFINE mp == MainPosition(s, k)
<1>1. /\ Positions(r) = Positions(s) /\ ~r.dummy /\ k # NIL /\ mp \in Positions(s)
      /\ f \in Positions(s) /\ KeyOf(s, f) = NIL /\ f # NIL /\ f \in Nat
  BY MainIsPosition, NodeTyped, TableAssumption DEF SameButNodes, TookFree
<1>2. /\ s.node[mp].has /\ Home(s, mp) # mp /\ s.node[b].next = mp
      /\ \A j \in Positions(s) : j # mp /\ j # f /\ j # b => r.node[j] = s.node[j]
      /\ r.node[f].next = s.node[mp].next /\ KeyOf(r, f) = KeyOf(s, mp)
      /\ r.node[f].dead = s.node[mp].dead /\ r.node[f].has = s.node[mp].has
      /\ r.node[b].next = f /\ KeyOf(r, b) = KeyOf(s, b)
      /\ r.node[b].dead = s.node[b].dead /\ r.node[b].has = s.node[b].has
      /\ KeyOf(r, mp) = k /\ ~r.node[mp].dead /\ r.node[mp].has
      /\ r.node[mp].next = NIL
  <2>1. /\ s.node[mp].has /\ Home(s, mp) # mp /\ s.node[b].next = mp
        /\ \A j \in Positions(s) : j # mp /\ j # f /\ j # b => r.node[j] = s.node[j]
        /\ r.node[f] = s.node[mp]
    BY DEF Drove
  <2>2. /\ r.node[b].next = f /\ KeyOf(r, b) = KeyOf(s, b)
        /\ r.node[b].dead = s.node[b].dead /\ r.node[b].has = s.node[b].has
    BY DEF Drove, KeyOf
  <2>3. r.node[mp] = [key |-> k, dead |-> FALSE, has |-> TRUE, next |-> NIL]
    BY DEF Drove
  <2> HIDE DEF mp
  <2>4. /\ KeyOf(r, mp) = k /\ ~r.node[mp].dead /\ r.node[mp].has
        /\ r.node[mp].next = NIL
    BY <2>3 DEF KeyOf
  <2> QED BY <2>1, <2>2, <2>4 DEF KeyOf
<1>3. /\ KeyOf(s, mp) # NIL /\ f # mp /\ ~s.node[mp].dead
      /\ s.node[f].next = NIL /\ \A j \in Positions(s) : s.node[j].next # f
  BY <1>1, <1>2, NodeTyped DEF Chains, FreeAreFree, OnceAlive
<1>4. MainPosition(r, k) = mp /\ \A i : MainPosition(r, KeyOf(s, i)) = Home(s, i)
  BY <1>1, MainDepends DEF Home
<1>5. DOMAIN Links(s) = Positions(s) /\ DOMAIN Links(r) = Positions(s)
  BY <1>1, LinksFacts
<1> HIDE DEF mp
<1>6. Displaced(Links(s), Links(r), mp, f, b)
  <2>1. \A z \in Positions(s) : /\ Links(s)[z] = s.node[z].next
                                /\ Links(r)[z] = r.node[z].next
    BY <1>1, LinksFacts
  <2>2. Links(s)[f] = NIL /\ \A j \in Positions(s) : Links(s)[j] # f
    BY <1>1, <1>3, <2>1
  <2>3. /\ Links(r)[mp] = NIL /\ Links(r)[f] = Links(s)[mp] /\ Links(r)[b] = f
        /\ Links(s)[b] = mp
    BY <1>1, <1>2, <2>1
  <2>4. \A j \in Positions(s) : j # mp /\ j # f /\ j # b => Links(r)[j] = Links(s)[j]
    BY <1>2, <2>1
  <2> QED BY <1>1, <1>3, <1>5, <2>2, <2>3, <2>4 DEF Displaced
<1>7. Chained(Links(s)) /\ Chained(Links(r))
  BY <1>6, DisplacedIsChained DEF Chains
<1>8. \A x, y \in Positions(s) :
        x # f /\ y # f /\ Reaches(Links(s), x, y)
          => Reaches(Links(r), Stand(x, mp, f), Stand(y, mp, f))
  BY <1>5, <1>6, <1>7, DisplacedReaches
<1>9. b # mp /\ b # f
  <2>1. Links(s)[b] = mp
    BY <1>2, LinksFacts
  <2> QED BY <1>1, <1>3, <1>2, <1>5, <1>7, <2>1, NoSelfLink
<1>10. \A j \in Positions(s) : j # f /\ j # mp =>
         /\ KeyOf(r, j) = KeyOf(s, j) /\ Home(r, j) = Home(s, j)
         /\ r.node[j].dead = s.node[j].dead /\ r.node[j].has = s.node[j].has
  BY <1>2, <1>4 DEF Home, KeyOf
<1>11. Home(r, mp) = mp /\ Home(r, f) = Home(s, mp)
  BY <1>2, <1>4 DEF Home
<1>12. \A j \in Positions(s) : KeyOf(s, j) # NIL =>
         /\ Home(s, j) \in Positions(s) /\ Home(s, j) # mp /\ Home(s, j) # f
         /\ Reaches(Links(s), Home(s, j), j)
         /\ KeyOf(s, Home(s, j)) # NIL /\ Home(s, Home(s, j)) = Home(s, j)
  BY <1>1, <1>2, HomeIsPosition DEF Chains, AtHome
<1>13. \A j \in Positions(s) : KeyOf(s, j) # k
  <2> SUFFICES ASSUME NEW j \in Positions(s), KeyOf(s, j) = k PROVE FALSE
    OBVIOUS
  <2>1. Home(s, j) = mp
    BY DEF Home, mp
  <2> QED BY <1>1, <1>12, <2>1
<1>14. FreeAreFree(r)
  <2> SUFFICES ASSUME NEW i \in Positions(s), KeyOf(r, i) = NIL
               PROVE  /\ ~r.node[i].has /\ ~r.node[i].dead /\ r.node[i].next = NIL
                      /\ \A j \in Positions(s) : r.node[j].next # i
                      /\ r.last # NIL => i < r.last
    BY <1>1 DEF FreeAreFree
  <2>1. i # f /\ i # mp /\ KeyOf(s, i) = NIL
    BY <1>1, <1>2, <1>3, <1>10
  <2>2. /\ ~s.node[i].has /\ ~s.node[i].dead /\ s.node[i].next = NIL
        /\ \A j \in Positions(s) : s.node[j].next # i
        /\ s.last # NIL => i < s.last
    BY <2>1 DEF Chains, FreeAreFree
  <2>3. i # b /\ i # NIL
    BY <1>1, <1>2, <2>2, NodeTyped
  <2>4. \A j \in Positions(s) : r.node[j].next # i
    BY <1>1, <1>2, <2>1, <2>2, <2>3
  <2>5. r.last # NIL => i < r.last
    <3>1. i \in FreeNodes(s)
      BY <2>1, <2>2 DEF FreeNodes, KeyOf
    <3>2. i <= f /\ i \in Nat
      BY <3>1, NodeTyped DEF TookFree
    <3>3. r.last # NIL => r.last = f
      BY DEF TookFree
    <3> QED BY <1>1, <2>1, <3>2, <3>3
  <2> QED BY <1>2, <2>1, <2>2, <2>3, <2>4, <2>5
<1>15. AtHome(r)
  <2> SUFFICES ASSUME NEW i \in Positions(s), KeyOf(r, i) # NIL
               PROVE  /\ Reaches(Links(r), Home(r, i), i)
                      /\ KeyOf(r, Home(r, i)) # NIL
                      /\ Home(r, Home(r, i)) = Home(r, i) /\ ~r.dummy
    BY <1>1 DEF AtHome
  <2>1. CASE i = mp
    BY <1>1, <1>2, <1>5, <1>11, <2>1, ReachesItself
  <2>2. CASE i = f
    <3>1. Reaches(Links(r), Home(s, mp), f)
      BY <1>1, <1>3, <1>8, <1>12 DEF Stand
    <3>2. KeyOf(r, Home(s, mp)) # NIL /\ Home(r, Home(s, mp)) = Home(s, mp)
      BY <1>1, <1>3, <1>10, <1>12
    <3> QED BY <1>1, <1>11, <2>2, <3>1, <3>2
  <2>3. CASE i # f /\ i # mp
    <3>1. KeyOf(s, i) # NIL /\ Home(r, i) = Home(s, i)
      BY <1>10, <2>3
    <3>2. Reaches(Links(r), Home(s, i), i)
      BY <1>8, <1>12, <2>3, <3>1 DEF Stand
    <3>3. KeyOf(r, Home(s, i)) # NIL /\ Home(r, Home(s, i)) = Home(s, i)
      BY <1>10, <1>12, <3>1
    <3> QED BY <1>1, <3>1, <3>2, <3>3
  <2> QED BY <2>1, <2>2, <2>3
<1>16. OnceAlive(r)
  <2>1. \A i \in Positions(s) : r.node[i].dead => ~r.node[i].has
    BY <1>2, <1>3, <1>10 DEF Chains, OnceAlive
  <2> DEFINE Old(i) == IF i = f THEN mp ELSE i
  <2>2. \A i \in Positions(s) : i # mp =>
          /\ Old(i) \in Positions(s) /\ Old(i) # f /\ Stand(Old(i), mp, f) = i
          /\ KeyOf(r, i) = KeyOf(s, Old(i)) /\ r.node[i].dead = s.node[Old(i)].dead
    BY <1>1, <1>2, <1>3, <1>10 DEF Stand
  <2>3. ASSUME NEW i \in Positions(s), NEW j \in Positions(s), i # j,
               KeyOf(r, i) = KeyOf(r, j), KeyOf(r, i) # NIL, ~r.node[i].dead
        PROVE  r.node[j].dead /\ Reaches(Links(r), i, j)
    <3>1. i # mp /\ j # mp
      BY <1>2, <1>13, <2>2, <2>3
    <3>2. s.node[Old(j)].dead /\ Reaches(Links(s), Old(i), Old(j))
      <4>1. Old(i) # Old(j)
        BY <2>2, <2>3, <3>1
      <4> HIDE DEF Old
      <4> QED BY <2>2, <2>3, <3>1, <4>1 DEF Chains, OnceAlive
    <3> HIDE DEF Old
    <3> QED BY <1>8, <2>2, <3>1, <3>2
  <2> QED BY <1>1, <2>1, <2>3 DEF OnceAlive
<1> QED BY <1>7, <1>14, <1>15, <1>16 DEF Chains

\* An insertion that finds room keeps the chains, adds its key and no other,
\* and leaves no node without a value behind that was not there.
Inserted(s, r, k) ==
  /\ r \in TableType /\ SameButNodes(s, r) /\ Chains(r)
  /\ HashKeys(r) = HashKeys(s) \cup {k}
  /\ \A i \in Positions(r) :
       \/ KeyOf(r, i) = k /\ r.node[i].has
       \/ \E j \in Positions(s) : /\ KeyOf(s, j) = KeyOf(r, i)
                                  /\ r.node[i].has = s.node[j].has

\* The keys of nodes with a value.
LEMMA HashKeysAre ==
  ASSUME NEW s
  PROVE  \A k : k \in HashKeys(s) <=>
                \E i \in Positions(s) : s.node[i].has /\ KeyOf(s, i) = k
BY DEF HashKeys, KeyOf

\* insertkey adds a key without a live node and keeps the chains.
LEMMA InsertKeyFacts ==
  ASSUME NEW s \in TableType, Chains(s), ~s.dummy, NEW k \in Keys, NotLive(s, k),
         ~s.node[MainPosition(s, k)].has \/ FreePos(s) # NIL
  PROVE  Inserted(s, InsertKey(s, k), k)
<1> DEFINE mp == MainPosition(s, k)
           r == InsertKey(s, k)
           f == FreePos(s)
           b == Before(s, mp)
<1>1. r \in TableType /\ SameButNodes(s, r) /\ Positions(r) = Positions(s)
  BY InsertKeyType DEF SameButNodes
<1>2. mp \in Positions(s)
  BY MainIsPosition
<1>3. \A i \in Positions(s) : s.node[i].has => KeyOf(s, i) # NIL
  BY DEF Chains, FreeAreFree
<1> HIDE DEF r, f, b
<1>4. CASE ~s.node[mp].has
  <2>1. TookMain(s, r, k)
    BY <1>4, TakesMain DEF r
  <2>2. Chains(r)
    BY <1>1, <2>1, TookMainChains
  <2>3. /\ \A j \in Positions(s) : j # mp => r.node[j] = s.node[j]
        /\ KeyOf(r, mp) = k /\ r.node[mp].has
    BY <2>1 DEF TookMain, KeyOf
  <2> HIDE DEF mp
  <2>4. \A x : x \in HashKeys(r) <=> x \in HashKeys(s) \cup {k}
    BY <1>1, <1>2, <1>4, <2>3, HashKeysAre DEF KeyOf
  <2>5. HashKeys(r) = HashKeys(s) \cup {k}
    BY <2>4
  <2>6. \A i \in Positions(s) : \/ KeyOf(r, i) = k /\ r.node[i].has
                                \/ KeyOf(s, i) = KeyOf(r, i) /\ r.node[i].has = s.node[i].has
    BY <1>2, <2>3 DEF KeyOf
  <2> QED BY <1>1, <2>2, <2>5, <2>6 DEF Inserted, r
<1>5. CASE s.node[mp].has /\ Home(s, mp) = mp
  <2>1. Joined(s, r, k, f) /\ TookFree(s, r, f)
    BY <1>5, JoinsChain DEF r, f
  <2>2. Chains(r)
    BY <1>1, <2>1, JoinedChains
  <2>3. /\ \A j \in Positions(s) : j # mp /\ j # f => r.node[j] = s.node[j]
        /\ KeyOf(r, mp) = KeyOf(s, mp) /\ r.node[mp].has = s.node[mp].has
        /\ KeyOf(r, f) = k /\ r.node[f].has
    BY <2>1 DEF Joined, KeyOf
  <2>4. f \in Positions(s) /\ KeyOf(s, f) = NIL /\ ~s.node[f].has /\ f # mp
    BY <1>3, <1>5, <2>1 DEF TookFree, Chains, FreeAreFree
  <2> HIDE DEF mp
  <2>5. \A i \in Positions(s) : i # f => KeyOf(s, i) = KeyOf(r, i)
                                         /\ r.node[i].has = s.node[i].has
    BY <1>2, <2>3 DEF KeyOf
  <2>6. \A x : x \in HashKeys(r) <=> x \in HashKeys(s) \cup {k}
    BY <1>1, <2>3, <2>4, <2>5, HashKeysAre
  <2>7. HashKeys(r) = HashKeys(s) \cup {k}
    BY <2>6
  <2> QED BY <1>1, <2>2, <2>3, <2>5, <2>7 DEF Inserted, r
<1>6. CASE s.node[mp].has /\ Home(s, mp) # mp
  <2>1. Drove(s, r, k, f, b) /\ TookFree(s, r, f) /\ b \in Positions(s)
    BY <1>6, DrivesOther DEF r, f, b
  <2>2. Chains(r)
    BY <1>1, <2>1, DroveChains
  <2>3. /\ \A j \in Positions(s) : j # mp /\ j # f /\ j # b => r.node[j] = s.node[j]
        /\ KeyOf(r, f) = KeyOf(s, mp) /\ r.node[f].has = s.node[mp].has
        /\ KeyOf(r, b) = KeyOf(s, b) /\ r.node[b].has = s.node[b].has
        /\ KeyOf(r, mp) = k /\ r.node[mp].has
    <3>1. /\ \A j \in Positions(s) : j # mp /\ j # f /\ j # b => r.node[j] = s.node[j]
          /\ r.node[f] = s.node[mp]
          /\ r.node[mp] = [key |-> k, dead |-> FALSE, has |-> TRUE, next |-> NIL]
      BY <2>1 DEF Drove
    <3>2. KeyOf(r, b) = KeyOf(s, b) /\ r.node[b].has = s.node[b].has
      BY <2>1 DEF Drove, KeyOf
    <3> HIDE DEF mp
    <3> QED BY <3>1, <3>2 DEF KeyOf
  <2>4. f \in Positions(s) /\ KeyOf(s, f) = NIL /\ ~s.node[f].has /\ f # mp
    BY <1>3, <1>6, <2>1 DEF TookFree, Chains, FreeAreFree
  <2> HIDE DEF mp
  <2>5. \A i \in Positions(s) : i # f /\ i # mp => KeyOf(s, i) = KeyOf(r, i)
                                                  /\ r.node[i].has = s.node[i].has
    BY <2>3 DEF KeyOf
  <2>6. \A x : x \in HashKeys(r) <=> x \in HashKeys(s) \cup {k}
    <3> TAKE x
    <3>1. ASSUME x \in HashKeys(r) PROVE x \in HashKeys(s) \cup {k}
      BY <3>1, <1>1, <1>2, <1>6, <2>3, <2>4, <2>5, HashKeysAre
    <3>2. ASSUME x \in HashKeys(s) \cup {k} PROVE x \in HashKeys(r)
      <4>1. CASE x = k
        BY <4>1, <1>1, <1>2, <2>3, HashKeysAre
      <4>2. CASE x \in HashKeys(s)
        <5>1. PICK i \in Positions(s) : s.node[i].has /\ KeyOf(s, i) = x
          BY <4>2, HashKeysAre
        <5>2. CASE i = mp
          BY <1>1, <2>3, <2>4, <5>1, <5>2, HashKeysAre
        <5>3. CASE i # mp
          <6>1. r.node[i].has /\ KeyOf(r, i) = x
            BY <2>4, <2>5, <5>1, <5>3
          <6> QED BY <1>1, <5>1, <6>1, HashKeysAre
        <5> QED BY <5>2, <5>3
      <4> QED BY <3>2, <4>1, <4>2
    <3> QED BY <3>1, <3>2
  <2>7. HashKeys(r) = HashKeys(s) \cup {k}
    BY <2>6
  <2>8. \A i \in Positions(s) :
          \/ KeyOf(r, i) = k /\ r.node[i].has
          \/ \E j \in Positions(s) : KeyOf(s, j) = KeyOf(r, i) /\ r.node[i].has = s.node[j].has
    BY <1>2, <2>3, <2>4, <2>5
  <2> QED BY <1>1, <2>2, <2>7, <2>8 DEF Inserted, r
<1> QED BY <1>4, <1>5, <1>6

(*-------------------------------- rehash -------------------------------*)

\* A hash part under construction: every node it uses has a value, and there
\* are places for the keys in T.
Fresh(s, T) ==
  /\ s \in TableType /\ Chains(s)
  /\ \A i \in Positions(s) : KeyOf(s, i) # NIL => s.node[i].has
  /\ HashKeys(s) \subseteq T /\ (T # {} => ~s.dummy)
  /\ Cardinality(T) <= SizeNode(s)

\* A hash part under construction has a free place for a key of T.
LEMMA FreshHasRoom ==
  ASSUME NEW T, IsFiniteSet(T), NEW s, Fresh(s, T), NEW k \in T, k \notin HashKeys(s)
  PROVE  FreePos(s) # NIL
<1> SUFFICES ASSUME FreePos(s) = NIL PROVE FALSE
  OBVIOUS
<1>0. s \in TableType /\ ~s.dummy
  BY DEF Fresh
<1>1. FreeNodes(s) = {}
  <2> SUFFICES ASSUME FreeNodes(s) # {} PROVE FALSE
    OBVIOUS
  <2>1. PICK N \in Nat \ {0} : Positions(s) = 0..(N - 1)
    BY <1>0, VectorFacts
  <2>2. FreeNodes(s) \in SUBSET (0..(N - 1)) /\ N - 1 \in Nat
    BY <2>1 DEF FreeNodes
  <2>3. Max(FreeNodes(s)) \in FreeNodes(s)
    BY <2>2, MaxIsGreatest
  <2>4. Max(FreeNodes(s)) # NIL
    BY <2>2, <2>3, TableAssumption
  <2> QED BY <2>4 DEF FreePos
<1>2. \A i \in Positions(s) : KeyOf(s, i) # NIL
  BY <1>0, <1>1 DEF Fresh, Chains, FreeAreFree, FreeNodes, KeyOf
<1>3. \A i \in Positions(s) : s.node[i].has /\ ~s.node[i].dead
  BY <1>2 DEF Fresh, Chains, OnceAlive
<1> DEFINE f == [i \in Positions(s) |-> KeyOf(s, i)]
           U == T \ {k}
<1>4. f \in [Positions(s) -> U]
  <2>1. ASSUME NEW i \in Positions(s) PROVE KeyOf(s, i) \in U
    <3>1. KeyOf(s, i) \in HashKeys(s)
      BY <1>3, HashKeysAre
    <3> QED BY <3>1 DEF Fresh
  <2> QED BY <2>1
<1>5. IsFiniteSet(U) /\ Cardinality(U) = Cardinality(T) - 1
  BY FS_RemoveElement
<1>6. /\ IsFiniteSet(Positions(s)) /\ Cardinality(Positions(s)) = SizeNode(s)
      /\ SizeNode(s) \in Nat
  <2>1. PICK N \in Nat \ {0} : Positions(s) = 0..(N - 1) /\ SizeNode(s) = N
    BY <1>0, VectorFacts
  <2> QED BY <2>1, FS_Interval DEF SizeNode, Positions
<1>7. Cardinality(U) < Cardinality(Positions(s))
  <2>1. Cardinality(T) \in Nat /\ Cardinality(T) <= SizeNode(s)
    BY FS_CardinalityType DEF Fresh
  <2> QED BY <1>5, <1>6, <2>1
<1>8. \E x, y \in Positions(s) : x # y /\ f[x] = f[y]
  <2> HIDE DEF f, U
  <2> QED BY <1>4, <1>5, <1>6, <1>7, FS_PigeonHole
<1> QED BY <1>2, <1>3, <1>8 DEF Fresh, Chains, OnceAlive

\* A hash part under construction takes a key of T.
LEMMA FreshTakesKey ==
  ASSUME NEW T \in SUBSET Keys, IsFiniteSet(T), NEW s, Fresh(s, T),
         NEW k \in T, k \notin HashKeys(s)
  PROVE  LET r == InsertKey(s, k)
         IN  /\ Fresh(r, T) /\ SameButNodes(s, r)
             /\ HashKeys(r) = HashKeys(s) \cup {k}
<1> DEFINE r == InsertKey(s, k)
<1>1. FreePos(s) # NIL
  BY FreshHasRoom
<1>2. NotLive(s, k)
  <2> SUFFICES ASSUME NEW i \in Positions(s), KeyOf(s, i) = k PROVE FALSE
    BY DEF NotLive
  <2>1. k # NIL
    BY TableAssumption
  <2>2. k \in HashKeys(s)
    BY <2>1, HashKeysAre DEF Fresh
  <2> QED BY <2>2
<1>3. Inserted(s, r, k)
  BY <1>1, <1>2, InsertKeyFacts DEF Fresh
<1> HIDE DEF r
<1>4. SizeNode(r) = SizeNode(s)
  BY <1>3 DEF Inserted, SameButNodes, SizeNode, Positions
<1>5. \A i \in Positions(r) : KeyOf(r, i) # NIL => r.node[i].has
  BY <1>3 DEF Inserted, Fresh
<1>6. Fresh(r, T)
  BY <1>3, <1>4, <1>5 DEF Fresh, Inserted, SameButNodes
<1> QED BY <1>3, <1>6 DEF Inserted, r

\* setnodevector makes room for as many keys as asked.
LEMMA NodeVectorFacts ==
  ASSUME NEW s \in TableType, NEW size \in Nat,
         NEW T, IsFiniteSet(T), Cardinality(T) <= size
  PROVE  LET r == NodeVector(s, size)
         IN  Fresh(r, T) /\ HashKeys(r) = {} /\ r.arr = s.arr /\ r.hint = s.hint
<1> DEFINE l == IF size = 0 THEN 0 ELSE CeilLog2(size)
           N == TwoTo(l)
           r == NodeVector(s, size)
           last == IF size # 0 /\ l >= LIMFORLAST THEN N ELSE NIL
<1>1. l \in Nat /\ N \in Nat \ {0} /\ size <= N
  <2>1. CASE size = 0
    BY <2>1, TwoToFacts
  <2>2. CASE size # 0
    <3>1. l \in Nat /\ size <= TwoTo(l)
      BY <2>2, CeilLog2Facts
    <3>2. TwoTo(l) \in Nat
      BY <3>1, TwoToFacts
    <3> QED BY <2>2, <3>1, <3>2
  <2> QED BY <2>1, <2>2
<1>2. r = [s EXCEPT !.dummy = (size = 0), !.node = [i \in 0..(N - 1) |-> Free],
                    !.last = last]
  BY DEF NodeVector
<1> HIDE DEF l, N
<1>3. last \in Nat \cup {NIL} /\ (last # NIL => last = N)
  BY <1>1
<1>4. Free \in NodeType
  BY DEF Free, NodeType
<1> DEFINE v == [i \in 0..(N - 1) |-> Free]
<1>5. v \in Vectors
  <2>1. v \in [0..(N - 1) -> NodeType]
    BY <1>4
  <2> HIDE DEF v
  <2> QED BY <1>1, <2>1 DEF Vectors
<1> HIDE DEF last
<1>6. r \in TableType
  <2> HIDE DEF v
  <2>1. r = [s EXCEPT !.dummy = (size = 0), !.node = v, !.last = last]
    BY <1>2 DEF v
  <2> HIDE DEF r
  <2>2. (size = 0) \in BOOLEAN
    OBVIOUS
  <2> QED BY <1>3, <1>5, <2>1, <2>2 DEF TableType
<1>7. /\ r.node = v /\ r.dummy = (size = 0) /\ r.last = last /\ r.arr = s.arr
      /\ r.hint = s.hint
  <2> HIDE DEF v
  <2>1. r = [s EXCEPT !.dummy = (size = 0), !.node = v, !.last = last]
    BY <1>2 DEF v
  <2> HIDE DEF r
  <2> QED BY <2>1 DEF TableType
<1> HIDE DEF r
<1>8. Positions(r) = 0..(N - 1) /\ SizeNode(r) = N
  <2>1. Positions(r) = 0..(N - 1)
    BY <1>7 DEF Positions
  <2>2. PICK M \in Nat \ {0} : Positions(r) = 0..(M - 1) /\ SizeNode(r) = M
    BY <1>6, VectorFacts
  <2>3. N - 1 \in 0..(N - 1) /\ M - 1 \in 0..(M - 1)
    BY <1>1
  <2>4. N = M
    BY <1>1, <2>1, <2>2, <2>3
  <2> QED BY <2>1, <2>2, <2>4
<1>9. \A i \in Positions(r) : /\ KeyOf(r, i) = NIL /\ ~r.node[i].has
                              /\ ~r.node[i].dead /\ r.node[i].next = NIL
  BY <1>7, <1>8 DEF Free, KeyOf
<1>10. HashKeys(r) = {}
  BY <1>9 DEF HashKeys
<1>11. Chained(Links(r))
  <2>1. DOMAIN Links(r) = Positions(r) /\ \A i \in Positions(r) : Links(r)[i] = NIL
    BY <1>9, LinksFacts
  <2>2. NIL \notin Positions(r)
    BY <1>6, NodeTyped
  <2> QED BY <2>1, <2>2 DEF Chained
<1>12. FreeAreFree(r)
  <2>1. \A i \in Positions(r) : r.last # NIL => i < r.last
    BY <1>1, <1>3, <1>7, <1>8
  <2>2. \A i \in Positions(r) : i # NIL
    BY <1>6, NodeTyped
  <2> QED BY <1>9, <2>1, <2>2 DEF FreeAreFree
<1>13. Chains(r)
  BY <1>9, <1>11, <1>12 DEF Chains, AtHome, OnceAlive
<1>14. T # {} => ~r.dummy
  <2> HAVE T # {}
  <2>1. Cardinality(T) # 0 /\ Cardinality(T) \in Nat
    BY FS_EmptySet, FS_CardinalityType
  <2>2. size # 0
    BY <2>1
  <2>3. r.dummy = (size = 0)
    BY <1>7
  <2> QED BY <2>2, <2>3
<1>15. Cardinality(T) <= SizeNode(r)
  BY <1>1, <1>8, FS_CardinalityType
<1> QED BY <1>6, <1>7, <1>9, <1>10, <1>13, <1>14, <1>15 DEF Fresh, r

\* A function of flags from 1 is a sequence.
LEMMA FlagsAreSeq ==
  ASSUME NEW n \in Nat, NEW f \in [1..n -> BOOLEAN]
  PROVE  f \in Seq(BOOLEAN) /\ Len(f) = n /\ DOMAIN f = 1..n
OBVIOUS

\* Forget takes values and changes nothing else.
LEMMA ForgetFacts ==
  ASSUME NEW s \in TableType, NEW K
  PROVE  LET r == Forget(s, K)
         IN  /\ r \in TableType /\ Positions(r) = Positions(s)
             /\ Len(r.arr) = Len(s.arr) /\ r.hint = s.hint /\ r.dummy = s.dummy
             /\ r.last = s.last
             /\ \A i \in 1..Len(s.arr) : r.arr[i] = (s.arr[i] /\ i \notin K)
             /\ \A i \in Positions(s) :
                  /\ KeyOf(r, i) = KeyOf(s, i) /\ r.node[i].next = s.node[i].next
                  /\ r.node[i].dead = s.node[i].dead
                  /\ r.node[i].has = (s.node[i].has /\ KeyOf(s, i) \notin K)
<1> DEFINE r == Forget(s, K)
           arr == [i \in DOMAIN s.arr |-> s.arr[i] /\ i \notin K]
           node == [i \in DOMAIN s.node |->
                      IF s.node[i].key \in K THEN [s.node[i] EXCEPT !.has = FALSE]
                      ELSE s.node[i]]
<1>1. r = [s EXCEPT !.arr = arr, !.node = node]
  BY DEF Forget, TableType
<1>2. s.arr \in Seq(BOOLEAN) /\ Len(s.arr) \in Nat /\ DOMAIN s.arr = 1..Len(s.arr)
  BY DEF TableType
<1>3. arr \in [1..Len(s.arr) -> BOOLEAN]
  BY <1>2
<1>4. arr \in Seq(BOOLEAN) /\ Len(arr) = Len(s.arr)
  <2> HIDE DEF arr
  <2> QED BY <1>2, <1>3, FlagsAreSeq
<1>5. PICK N \in Nat \ {0} : /\ s.node \in [0..(N - 1) -> NodeType]
                             /\ Positions(s) = 0..(N - 1)
  BY VectorFacts
<1>6. ASSUME NEW i \in Positions(s)
      PROVE  /\ node[i] \in NodeType /\ node[i].key = s.node[i].key
             /\ node[i].next = s.node[i].next /\ node[i].dead = s.node[i].dead
             /\ node[i].has = (s.node[i].has /\ s.node[i].key \notin K)
  <2>1. s.node[i] \in NodeType
    BY NodeTyped
  <2>2. node[i] = IF s.node[i].key \in K THEN [s.node[i] EXCEPT !.has = FALSE]
                  ELSE s.node[i]
    BY <1>5
  <2> HIDE DEF node
  <2> DEFINE n == s.node[i]
  <2>3. n \in NodeType /\ node[i] = IF n.key \in K THEN [n EXCEPT !.has = FALSE] ELSE n
    BY <2>1, <2>2
  <2> HIDE DEF n
  <2>4. node[i] \in NodeType /\ node[i].key = n.key /\ node[i].next = n.next
        /\ node[i].dead = n.dead /\ node[i].has = (n.has /\ n.key \notin K)
    <3>1. CASE n.key \in K
      BY <2>3, <3>1 DEF NodeType
    <3>2. CASE n.key \notin K
      BY <2>3, <3>2 DEF NodeType
    <3> QED BY <3>1, <3>2
  <2> QED BY <2>4 DEF n
<1>7. node \in [0..(N - 1) -> NodeType]
  <2>1. DOMAIN s.node = 0..(N - 1)
    BY <1>5
  <2> QED BY <1>5, <1>6, <2>1
<1>8. node \in Vectors /\ DOMAIN node = 0..(N - 1)
  <2> HIDE DEF node
  <2> QED BY <1>7 DEF Vectors
<1>9. \A i \in 1..Len(s.arr) : arr[i] = (s.arr[i] /\ i \notin K)
  BY <1>2
<1> HIDE DEF arr, node, r
<1>10. r \in TableType
  BY <1>1, <1>4, <1>8 DEF TableType
<1>11. /\ r.arr = arr /\ r.node = node /\ r.hint = s.hint /\ r.dummy = s.dummy
       /\ r.last = s.last
  BY <1>1 DEF TableType
<1>12. Positions(r) = Positions(s)
  BY <1>5, <1>8, <1>11 DEF Positions
<1> QED BY <1>4, <1>6, <1>9, <1>10, <1>11, <1>12 DEF KeyOf, r

\* newcheckedkey gives a table of the same sizes.
LEMMA NewCheckedKeyType ==
  ASSUME NEW s \in TableType, NEW k \in Keys
  PROVE  /\ NewCheckedKey(s, k) \in TableType
         /\ Positions(NewCheckedKey(s, k)) = Positions(s)
         /\ Len(NewCheckedKey(s, k).arr) = Len(s.arr)
         /\ NewCheckedKey(s, k).hint = s.hint
<1>1. CASE InArray(s, k)
  <2>0. s.arr \in Seq(BOOLEAN)
    BY DEF TableType
  <2>1. k \in 1..Len(s.arr)
    BY <1>1, <2>0, TableAssumption DEF InArray
  <2> DEFINE arr == [s.arr EXCEPT ![k] = TRUE]
  <2>2. arr \in Seq(BOOLEAN) /\ Len(arr) = Len(s.arr)
    BY <2>0, <2>1
  <2>3. NewCheckedKey(s, k) = [s EXCEPT !.arr = arr]
    BY <1>1 DEF NewCheckedKey, TableType
  <2> HIDE DEF arr
  <2>4. [s EXCEPT !.arr = arr] \in TableType
    BY <2>2 DEF TableType
  <2> QED BY <2>2, <2>3, <2>4 DEF TableType, Positions
<1>2. CASE ~InArray(s, k)
  BY <1>2, InsertKeyType DEF NewCheckedKey, SameButNodes
<1> QED BY <1>1, <1>2

\* A key with a place in the array changes the array only.
LEMMA NewCheckedKeyInArray ==
  ASSUME NEW s \in TableType, NEW k \in Keys, InArray(s, k)
  PROVE  LET r == NewCheckedKey(s, k)
         IN  /\ r.node = s.node /\ r.dummy = s.dummy /\ r.last = s.last
             /\ \A i \in 1..Len(s.arr) : r.arr[i] = (s.arr[i] \/ i = k)
<1>0. s.arr \in Seq(BOOLEAN)
  BY DEF TableType
<1>1. k \in 1..Len(s.arr)
  BY <1>0, TableAssumption DEF InArray
<1> DEFINE arr == [s.arr EXCEPT ![k] = TRUE]
<1>2. ASSUME NEW i \in 1..Len(s.arr) PROVE arr[i] = (s.arr[i] \/ i = k)
  <2>1. s.arr[i] \in BOOLEAN
    BY <1>0
  <2>2. CASE i = k
    <3>1. arr[k] = TRUE
      BY <1>0, <1>1
    <3> QED BY <2>2, <3>1
  <2>3. CASE i # k
    <3>1. arr[i] = s.arr[i]
      BY <1>0, <2>3
    <3> QED BY <2>1, <2>3, <3>1
  <2> QED BY <2>2, <2>3
<1>3. NewCheckedKey(s, k) = [s EXCEPT !.arr = arr]
  BY DEF NewCheckedKey, TableType
<1> HIDE DEF arr
<1>4. NewCheckedKey(s, k).arr = arr
  BY <1>3 DEF TableType
<1> QED BY <1>2, <1>3, <1>4 DEF TableType

\* A table with the nodes of another is as fit.
LEMMA ChainsDepend ==
  ASSUME NEW s, NEW r, r.node = s.node, r.dummy = s.dummy, r.last = s.last
  PROVE  (Chains(s) <=> Chains(r)) /\ HashKeys(r) = HashKeys(s)
         /\ Positions(r) = Positions(s) /\ Links(r) = Links(s)
<1>1. Positions(r) = Positions(s) /\ Links(r) = Links(s) /\ \A i : KeyOf(r, i) = KeyOf(s, i)
  BY DEF Positions, Links, KeyOf
<1>2. \A k : MainPosition(r, k) = MainPosition(s, k)
  BY <1>1, MainDepends
<1>3. \A i : Home(r, i) = Home(s, i)
  BY <1>1, <1>2 DEF Home
<1>4. HashKeys(r) = HashKeys(s)
  BY <1>1 DEF HashKeys
<1>5. FreeAreFree(s) <=> FreeAreFree(r)
  BY <1>1 DEF FreeAreFree
<1>6. AtHome(s) <=> AtHome(r)
  BY <1>1, <1>3 DEF AtHome
<1>7. OnceAlive(s) <=> OnceAlive(r)
  BY <1>1 DEF OnceAlive
<1> QED BY <1>1, <1>4, <1>5, <1>6, <1>7 DEF Chains

\* A table with the nodes of a fresh one is fresh.
LEMMA FreshDepends ==
  ASSUME NEW s, NEW r \in TableType, NEW T, Fresh(s, T),
         r.node = s.node, r.dummy = s.dummy, r.last = s.last
  PROVE  Fresh(r, T)
<1>1. Chains(r) /\ HashKeys(r) = HashKeys(s) /\ Positions(r) = Positions(s)
  BY ChainsDepend DEF Fresh
<1> QED BY <1>1 DEF Fresh, KeyOf, SizeNode, Positions

\* Keys of the array above a, up to n.
SliceKeys(s, a, n) == {k \in ArrayKeys(s) : a < k /\ k <= n}

Slice(s, asize, vector, f) ==
  [n \in 0..Len(s.arr) |->
    IF n <= asize THEN vector
    ELSE IF s.arr[n] THEN InsertKey(f[n - 1], n) ELSE f[n - 1]]

\* The insertion of the vanishing slice is well defined.
LEMMA SliceExists ==
  ASSUME NEW s \in TableType, ArrayFits(s), NEW asize \in Nat,
         NEW vector \in TableType
  PROVE  \E f : f = Slice(s, asize, vector, f)
<1> DEFINE N == Len(s.arr)
           G == [p \in (1..N) \X TableType |->
                  IF p[1] <= asize THEN vector
                  ELSE IF s.arr[p[1]] THEN InsertKey(p[2], p[1]) ELSE p[2]]
<1>1. N \in Nat /\ DOMAIN s.arr = 1..N
  BY DEF TableType
<1>2. G \in [(1..N) \X TableType -> TableType]
  <2>1. ASSUME NEW n \in 1..N, NEW u \in TableType, s.arr[n]
        PROVE  InsertKey(u, n) \in TableType
    <3>1. n \in Keys
      BY <1>1, <2>1 DEF ArrayFits, Keys
    <3> QED BY <3>1, InsertKeyType
  <2> QED BY <2>1
<1>3. \E f \in [0..N -> TableType] : Recursive(f, N, vector, G)
  <2> HIDE DEF G, N
  <2> QED BY <1>1, <1>2, RecursiveFunction
<1>4. PICK f \in [0..N -> TableType] : Recursive(f, N, vector, G)
  BY <1>3
<1>5. ASSUME NEW n \in 0..N PROVE f[n] = Slice(s, asize, vector, f)[n]
  <2>1. CASE n = 0
    BY <2>1, <1>4 DEF Recursive, Slice
  <2>2. CASE n \in 1..N
    <3>1. f[n - 1] \in TableType /\ <<n, f[n - 1]>> \in (1..N) \X TableType
      BY <2>2, <1>1
    <3>2. f[n] = G[<<n, f[n - 1]>>]
      BY <2>2, <1>4 DEF Recursive
    <3>3. f[n] = IF n <= asize THEN vector
                 ELSE IF s.arr[n] THEN InsertKey(f[n - 1], n) ELSE f[n - 1]
      BY <3>1, <3>2
    <3> HIDE DEF G
    <3> QED BY <3>3 DEF Slice
  <2> QED BY <2>1, <2>2, <1>1
<1>6. f = Slice(s, asize, vector, f)
  <2>1. f = [n \in 0..N |-> f[n]]
    OBVIOUS
  <2>2. Slice(s, asize, vector, f) = [n \in 0..N |-> Slice(s, asize, vector, f)[n]]
    BY DEF Slice
  <2> HIDE DEF N
  <2> QED BY <1>5, <2>1, <2>2
<1> QED BY <1>6

\* After reinsertOldSlice the new hash part holds the vanishing slice.
LEMMA SliceFacts ==
  ASSUME NEW s \in TableType, ArrayFits(s), NEW asize \in Nat,
         NEW T \in SUBSET Keys, IsFiniteSet(T),
         NEW vector, Fresh(vector, T), HashKeys(vector) = {},
         SliceKeys(s, asize, Len(s.arr)) \subseteq T,
         NEW g, g = Slice(s, asize, vector, g)
  PROVE  LET r == g[Len(s.arr)]
         IN  /\ Fresh(r, T) /\ SameButNodes(vector, r)
             /\ HashKeys(r) = SliceKeys(s, asize, Len(s.arr))
<1> DEFINE N == Len(s.arr)
           Right(n) == /\ Fresh(g[n], T) /\ SameButNodes(vector, g[n])
                       /\ HashKeys(g[n]) = SliceKeys(s, asize, n)
           S == {n \in 0..N : Right(n)}
<1>1. N \in Nat /\ DOMAIN s.arr = 1..N
  BY DEF TableType
<1>2. \A n \in 0..N : g[n] = IF n <= asize THEN vector
                             ELSE IF s.arr[n] THEN InsertKey(g[n - 1], n) ELSE g[n - 1]
  BY DEF Slice
<1>3. ASSUME NEW n \in 0..N, n <= asize PROVE Right(n)
  <2>1. SliceKeys(s, asize, n) = {}
    <3>1. \A k \in ArrayKeys(s) : k \in Nat
      BY IntKeysAre DEF ArrayKeys
    <3> QED BY <1>3, <3>1 DEF SliceKeys
  <2>2. g[n] = vector
    BY <1>2, <1>3
  <2> QED BY <2>1, <2>2 DEF SameButNodes
<1>4. 0 \in S
  BY <1>1, <1>3
<1>5. ASSUME NEW n \in 0..(N - 1), n \in S
      PROVE  n + 1 \in S
  <2>1. n + 1 \in 0..N /\ n + 1 \in 1..N /\ n + 1 - 1 = n
    BY <1>1
  <2>2. CASE n + 1 <= asize
    BY <1>3, <2>1, <2>2
  <2>3. CASE ~(n + 1 <= asize) /\ s.arr[n + 1]
    <3>1. g[n + 1] = InsertKey(g[n], n + 1)
      BY <1>2, <2>1, <2>3
    <3>2. n + 1 \in ArrayKeys(s) /\ n + 1 \in IntKeys
      BY <1>1, <2>1, <2>3 DEF ArrayFits, ArrayKeys
    <3>3. n + 1 \in SliceKeys(s, asize, Len(s.arr))
      BY <2>1, <2>3, <3>2 DEF SliceKeys
    <3>4. Fresh(g[n], T) /\ SameButNodes(vector, g[n])
          /\ HashKeys(g[n]) = SliceKeys(s, asize, n)
      BY <1>5
    <3>5. n + 1 \notin HashKeys(g[n])
      BY <2>1, <3>4 DEF SliceKeys
    <3>6. n + 1 \in T
      BY <3>3
    <3> DEFINE u == g[n]
               r == InsertKey(u, n + 1)
    <3>7. Fresh(r, T) /\ SameButNodes(u, r) /\ HashKeys(r) = HashKeys(u) \cup {n + 1}
      <4> HIDE DEF u
      <4> QED BY <3>4, <3>5, <3>6, FreshTakesKey DEF u
    <3>8. SliceKeys(s, asize, n + 1) = SliceKeys(s, asize, n) \cup {n + 1}
      <4>1. \A k \in ArrayKeys(s) : k \in Nat
        BY IntKeysAre DEF ArrayKeys
      <4>2. \A k \in ArrayKeys(s) : k <= n + 1 <=> k <= n \/ k = n + 1
        BY <2>1, <4>1
      <4>3. asize < n + 1
        BY <2>1, <2>3
      <4> QED BY <3>2, <4>2, <4>3 DEF SliceKeys
    <3>9. Right(n + 1)
      <4> HIDE DEF r
      <4> QED BY <3>1, <3>4, <3>7, <3>8 DEF SameButNodes, r
    <3> QED BY <2>1, <3>9
  <2>4. CASE ~(n + 1 <= asize) /\ ~s.arr[n + 1]
    <3>1. g[n + 1] = g[n]
      BY <1>2, <2>1, <2>4, SMTT(30)
    <3>2. SliceKeys(s, asize, n + 1) = SliceKeys(s, asize, n)
      <4>1. \A k \in ArrayKeys(s) : k \in Nat /\ k # n + 1
        BY <2>4, IntKeysAre DEF ArrayKeys
      <4>2. \A k \in ArrayKeys(s) : k <= n + 1 <=> k <= n
        BY <2>1, <4>1
      <4> QED BY <4>2 DEF SliceKeys
    <3>3. Right(n + 1)
      BY <1>5, <3>1, <3>2
    <3> QED BY <2>1, <3>3
  <2> QED BY <2>2, <2>3, <2>4
<1> HIDE DEF S, N
<1>6. 0..N \subseteq S
  BY <1>1, <1>4, <1>5, BoundedInduction
<1>7. N \in S
  BY <1>1, <1>6
<1> QED BY <1>7 DEF S, N

\* Keys with a value in the first j nodes.
KeysBelow(s, j) == {k \in Keys : \E i \in Positions(s) :
                      i < j /\ s.node[i].has /\ KeyOf(s, i) = k}

\* The keys with a place in an array of a given size.
Small(a) == {k \in IntKeys : k <= a}

Again(old, sized, f) ==
  [j \in 0..SizeNode(old) |->
    IF j = 0 THEN sized
    ELSE LET n == old.node[j - 1]
         IN  IF n.has THEN NewCheckedKey(f[j - 1], n.key) ELSE f[j - 1]]

\* Nodes with a value have a key, which no other has.
KeysDiffer(s) ==
  /\ \A i \in Positions(s) : s.node[i].has => KeyOf(s, i) \in Keys
  /\ \A i, j \in Positions(s) :
       s.node[i].has /\ s.node[j].has /\ KeyOf(s, i) = KeyOf(s, j) => i = j

\* The second insertion of the old hash part is well defined.
LEMMA AgainExists ==
  ASSUME NEW old \in TableType, KeysDiffer(old), NEW sized \in TableType
  PROVE  \E f : f = Again(old, sized, f)
<1> DEFINE N == SizeNode(old)
           G == [p \in (1..N) \X TableType |->
                  IF old.node[p[1] - 1].has
                  THEN NewCheckedKey(p[2], old.node[p[1] - 1].key) ELSE p[2]]
<1>1. N \in Nat /\ \A j \in 1..N : j - 1 \in Positions(old)
  <2>1. PICK M \in Nat \ {0} : Positions(old) = 0..(M - 1) /\ SizeNode(old) = M
    BY VectorFacts
  <2> QED BY <2>1
<1>2. G \in [(1..N) \X TableType -> TableType]
  <2>1. ASSUME NEW j \in 1..N, NEW u \in TableType, old.node[j - 1].has
        PROVE  NewCheckedKey(u, old.node[j - 1].key) \in TableType
    <3>1. old.node[j - 1].key \in Keys
      BY <1>1, <2>1 DEF KeysDiffer, KeyOf
    <3> QED BY <3>1, NewCheckedKeyType
  <2> QED BY <2>1
<1>3. \E f \in [0..N -> TableType] : Recursive(f, N, sized, G)
  <2> HIDE DEF G, N
  <2> QED BY <1>1, <1>2, RecursiveFunction
<1>4. PICK f \in [0..N -> TableType] : Recursive(f, N, sized, G)
  BY <1>3
<1>5. ASSUME NEW n \in 0..N PROVE f[n] = Again(old, sized, f)[n]
  <2>1. CASE n = 0
    BY <2>1, <1>4 DEF Recursive, Again
  <2>2. CASE n \in 1..N
    <3>1. f[n - 1] \in TableType /\ <<n, f[n - 1]>> \in (1..N) \X TableType /\ n # 0
      BY <2>2, <1>1
    <3>2. f[n] = G[<<n, f[n - 1]>>]
      BY <2>2, <1>4 DEF Recursive
    <3>3. f[n] = IF old.node[n - 1].has
                 THEN NewCheckedKey(f[n - 1], old.node[n - 1].key) ELSE f[n - 1]
      BY <3>1, <3>2
    <3> HIDE DEF G
    <3> QED BY <3>1, <3>3 DEF Again
  <2> QED BY <2>1, <2>2, <1>1
<1>6. f = Again(old, sized, f)
  <2>1. f = [n \in 0..N |-> f[n]]
    OBVIOUS
  <2>2. Again(old, sized, f) = [n \in 0..N |-> Again(old, sized, f)[n]]
    BY DEF Again
  <2> HIDE DEF N
  <2> QED BY <1>5, <2>1, <2>2
<1> QED BY <1>6

\* What is there after j nodes of the old hash part.
Reinserted(old, sized, T, j, r) ==
  /\ Fresh(r, T) /\ Len(r.arr) = Len(sized.arr) /\ r.hint = sized.hint
  /\ \A i \in DOMAIN r.arr : r.arr[i] => i \in IntKeys
  /\ ArrayKeys(r) = ArrayKeys(sized) \cup (KeysBelow(old, j) \cap Small(Len(sized.arr)))
  /\ HashKeys(r) = HashKeys(sized) \cup (KeysBelow(old, j) \ Small(Len(sized.arr)))

\* The keys of the array.
LEMMA ArrayKeysAre ==
  ASSUME NEW s \in TableType
  PROVE  /\ Len(s.arr) \in Nat /\ DOMAIN s.arr = 1..Len(s.arr)
         /\ s.arr \in Seq(BOOLEAN)
         /\ \A k \in Small(Len(s.arr)) : k \in 1..Len(s.arr) /\ InArray(s, k)
         /\ \A k : InArray(s, k) <=> k \in Small(Len(s.arr))
         /\ \A k : k \in ArrayKeys(s) <=> k \in Small(Len(s.arr)) /\ s.arr[k]
BY IntKeysAre DEF TableType, ArrayKeys, Small, InArray

\* reinserthash inserts one more old node.
LEMMA AgainStep ==
  ASSUME NEW old \in TableType, KeysDiffer(old), NEW sized \in TableType,
         NEW T \in SUBSET Keys, IsFiniteSet(T),
         HashKeys(old) \ Small(Len(sized.arr)) \subseteq T,
         HashKeys(sized) \cap HashKeys(old) = {},
         NEW i \in Positions(old), old.node[i].has,
         NEW u, Reinserted(old, sized, T, i, u)
  PROVE  Reinserted(old, sized, T, i + 1, NewCheckedKey(u, KeyOf(old, i)))
<1> DEFINE k == KeyOf(old, i)
           r == NewCheckedKey(u, k)
           asize == Len(sized.arr)
<1>1. k \in Keys /\ k \in HashKeys(old)
  BY HashKeysAre DEF KeysDiffer
<1>2. u \in TableType /\ Fresh(u, T) /\ Len(u.arr) = asize /\ i \in Nat
  BY NodeTyped DEF Reinserted, Fresh
<1>3. KeysBelow(old, i + 1) = KeysBelow(old, i) \cup {k}
  <2>1. \A j \in Positions(old) : j < i + 1 <=> j < i \/ j = i
    BY NodeTyped, <1>2
  <2> QED BY <1>1, <2>1 DEF KeysBelow
<1>4. k \notin KeysBelow(old, i)
  BY <1>2 DEF KeysBelow, KeysDiffer
<1>5. r \in TableType /\ Len(r.arr) = asize /\ r.hint = u.hint
  BY <1>1, <1>2, NewCheckedKeyType
<1>6. DOMAIN r.arr = 1..asize /\ DOMAIN u.arr = 1..asize
  BY <1>2, <1>5, ArrayKeysAre
<1> HIDE DEF r, k
<1>7. CASE k \in Small(asize)
  <2>1. InArray(u, k)
    BY <1>2, <1>7, ArrayKeysAre
  <2>2. /\ r.node = u.node /\ r.dummy = u.dummy /\ r.last = u.last
        /\ \A j \in 1..asize : r.arr[j] = (u.arr[j] \/ j = k)
    BY <1>1, <1>2, <2>1, NewCheckedKeyInArray DEF r
  <2>3. Fresh(r, T) /\ HashKeys(r) = HashKeys(u)
    BY <1>2, <1>5, <2>2, FreshDepends, ChainsDepend
  <2>4. \A j \in DOMAIN r.arr : r.arr[j] => j \in IntKeys
    BY <1>6, <1>7, <2>2 DEF Reinserted, Small
  <2>5. \A x : x \in ArrayKeys(r) <=> x \in ArrayKeys(u) \cup {k}
    <3>1. \A x : x \in ArrayKeys(r) <=> x \in Small(asize) /\ r.arr[x]
      BY <1>5, ArrayKeysAre
    <3>2. \A x : x \in ArrayKeys(u) <=> x \in Small(asize) /\ u.arr[x]
      BY <1>2, ArrayKeysAre
    <3>3. \A x \in Small(asize) : x \in 1..asize
      BY <1>2, ArrayKeysAre
    <3> QED BY <1>7, <2>2, <3>1, <3>2, <3>3
  <2>6. ArrayKeys(r) = ArrayKeys(u) \cup {k}
    BY <2>5
  <2> QED BY <1>3, <1>5, <1>7, <2>3, <2>4, <2>6 DEF Reinserted, r, k
<1>8. CASE k \notin Small(asize)
  <2>1. ~InArray(u, k)
    BY <1>2, <1>8, ArrayKeysAre
  <2>2. r = InsertKey(u, k)
    BY <2>1 DEF NewCheckedKey, r
  <2>3. k \in T /\ k \notin HashKeys(u)
    BY <1>1, <1>4, <1>8 DEF Reinserted
  <2>4. Fresh(r, T) /\ SameButNodes(u, r) /\ HashKeys(r) = HashKeys(u) \cup {k}
    BY <1>2, <2>2, <2>3, FreshTakesKey
  <2>5. ArrayKeys(r) = ArrayKeys(u) /\ r.arr = u.arr
    BY <2>4 DEF SameButNodes, ArrayKeys
  <2> QED BY <1>3, <1>5, <1>8, <2>4, <2>5 DEF Reinserted, r, k
<1> QED BY <1>7, <1>8

\* After reinserthash every key of the old hash part is in the array or in the new one.
LEMMA AgainFacts ==
  ASSUME NEW old \in TableType, KeysDiffer(old), NEW sized,
         NEW T \in SUBSET Keys, IsFiniteSet(T), Fresh(sized, T),
         \A i \in DOMAIN sized.arr : sized.arr[i] => i \in IntKeys,
         HashKeys(old) \ Small(Len(sized.arr)) \subseteq T,
         HashKeys(sized) \cap HashKeys(old) = {},
         NEW g, g = Again(old, sized, g)
  PROVE  LET r == g[SizeNode(old)]
         IN  /\ Fresh(r, T) /\ Len(r.arr) = Len(sized.arr) /\ r.hint = sized.hint
             /\ \A i \in DOMAIN r.arr : r.arr[i] => i \in IntKeys
             /\ ArrayKeys(r) = ArrayKeys(sized) \cup (HashKeys(old) \cap Small(Len(sized.arr)))
             /\ HashKeys(r) = HashKeys(sized) \cup (HashKeys(old) \ Small(Len(sized.arr)))
<1> DEFINE N == SizeNode(old)
           S == {j \in 0..N : Reinserted(old, sized, T, j, g[j])}
<1>0. sized \in TableType
  BY DEF Fresh
<1>1. N \in Nat /\ Positions(old) = 0..(N - 1)
  <2>1. PICK M \in Nat \ {0} : Positions(old) = 0..(M - 1) /\ SizeNode(old) = M
    BY VectorFacts
  <2> QED BY <2>1
<1>2. \A j \in 0..N : g[j] = IF j = 0 THEN sized
                             ELSE IF old.node[j - 1].has
                                  THEN NewCheckedKey(g[j - 1], old.node[j - 1].key)
                                  ELSE g[j - 1]
  BY DEF Again
<1>3. 0 \in S
  <2>1. g[0] = sized
    BY <1>1, <1>2
  <2>2. KeysBelow(old, 0) = {}
    BY <1>1 DEF KeysBelow
  <2>3. Reinserted(old, sized, T, 0, sized)
    BY <2>2 DEF Reinserted
  <2> QED BY <1>1, <2>1, <2>3
<1>4. ASSUME NEW j \in 0..(N - 1), j \in S
      PROVE  j + 1 \in S
  <2>1. j + 1 \in 0..N /\ j + 1 # 0 /\ j + 1 - 1 = j /\ j \in Positions(old) /\ j \in Nat
    BY <1>1
  <2>2. Reinserted(old, sized, T, j, g[j])
    BY <1>4
  <2>3. g[j + 1] = IF old.node[j].has THEN NewCheckedKey(g[j], KeyOf(old, j)) ELSE g[j]
    BY <1>2, <2>1 DEF KeyOf
  <2>4. CASE old.node[j].has
    BY <1>0, <2>1, <2>2, <2>3, <2>4, AgainStep
  <2>5. CASE ~old.node[j].has
    <3>1. KeysBelow(old, j + 1) = KeysBelow(old, j)
      <4>1. \A i \in Positions(old) : i < j + 1 <=> i < j \/ i = j
        BY <1>1, <2>1
      <4> QED BY <2>5, <4>1 DEF KeysBelow
    <3>2. Reinserted(old, sized, T, j + 1, g[j])
      BY <2>2, <3>1 DEF Reinserted
    <3> QED BY <2>1, <2>3, <2>5, <3>2
  <2> QED BY <2>4, <2>5
<1> HIDE DEF S, N
<1>5. N \in S
  <2>1. 0..N \subseteq S
    BY <1>1, <1>3, <1>4, BoundedInduction
  <2> QED BY <1>1, <2>1
<1>6. KeysBelow(old, N) = HashKeys(old)
  <2>1. \A i \in Positions(old) : i < N
    BY <1>1
  <2>2. \A k : k \in HashKeys(old) => k \in Keys
    BY HashKeysAre DEF KeysDiffer
  <2> QED BY <2>1, <2>2, HashKeysAre DEF KeysBelow
<1> QED BY <1>5, <1>6 DEF Reinserted, S, N

\* The array part luaH_resize makes of another.
Resized(new, old, asize) ==
  [new EXCEPT !.arr = [i \in 1..asize |->
                         IF i <= Len(old.arr) THEN old.arr[i] ELSE FALSE],
              !.hint = IF asize > 0 THEN asize \div 2 ELSE @]

\* The array of a resize keeps the flags below the new size.
LEMMA ResizedFacts ==
  ASSUME NEW new \in TableType, NEW old \in TableType, NEW asize \in Nat
  PROVE  LET r == Resized(new, old, asize)
         IN  /\ r \in TableType /\ r.node = new.node /\ r.dummy = new.dummy
             /\ r.last = new.last /\ Len(r.arr) = asize /\ DOMAIN r.arr = 1..asize
             /\ r.hint <= asize \/ asize = 0
             /\ \A i \in 1..asize : r.arr[i] <=> i <= Len(old.arr) /\ old.arr[i]
<1> DEFINE arr == [i \in 1..asize |-> IF i <= Len(old.arr) THEN old.arr[i] ELSE FALSE]
           hint == IF asize > 0 THEN asize \div 2 ELSE new.hint
           r == Resized(new, old, asize)
<1>1. old.arr \in Seq(BOOLEAN) /\ Len(old.arr) \in Nat
  BY DEF TableType
<1>2. \A i \in 1..asize : i <= Len(old.arr) => old.arr[i] \in BOOLEAN
  BY <1>1
<1>3. arr \in [1..asize -> BOOLEAN]
  BY <1>2
<1>4. arr \in Seq(BOOLEAN) /\ Len(arr) = asize /\ DOMAIN arr = 1..asize
  <2> HIDE DEF arr
  <2> QED BY <1>3, FlagsAreSeq
<1>5. \A i \in 1..asize : arr[i] = IF i <= Len(old.arr) THEN old.arr[i] ELSE FALSE
  OBVIOUS
<1>6. hint \in Nat /\ (hint <= asize \/ asize = 0)
  BY DEF TableType
<1>7. r = [new EXCEPT !.arr = arr, !.hint = hint]
  BY DEF Resized, TableType
<1> HIDE DEF arr, hint, r
<1>8. r \in TableType
  BY <1>4, <1>6, <1>7 DEF TableType
<1>9. /\ r.arr = arr /\ r.hint = hint /\ r.node = new.node /\ r.dummy = new.dummy
      /\ r.last = new.last
  BY <1>7 DEF TableType
<1>10. \A i \in 1..asize : arr[i] <=> i <= Len(old.arr) /\ old.arr[i]
  BY <1>2, <1>5
<1> QED BY <1>4, <1>6, <1>8, <1>9, <1>10 DEF r

\* The two loops of luaH_resize.
LEMMA ResizeIs ==
  ASSUME NEW s, TableFits(s), NEW asize \in Nat, NEW vector \in TableType,
         NEW hsize, vector = NodeVector(s, hsize), NEW K,
         NEW old \in TableType, old = Forget(s, K), KeysDiffer(old),
         \A g : g = Slice(s, asize, vector, g) => g[Len(s.arr)] \in TableType
  PROVE  \E g1, g2 :
           /\ g1 = Slice(s, asize, vector, g1)
           /\ g2 = Again(old, Resized(g1[Len(s.arr)], old, asize), g2)
           /\ Resize(s, asize, hsize, K) = g2[SizeNode(old)]
<1> DEFINE Rec1(f) == [n \in 0..Len(s.arr) |->
                        IF n <= asize THEN NodeVector(s, hsize)
                        ELSE IF s.arr[n] THEN InsertKey(f[n - 1], n) ELSE f[n - 1]]
           g1 == CHOOSE f : f = Rec1(f)
           new == g1[Len(s.arr)]
           sized == [new EXCEPT
                  !.arr = [i \in 1..asize |->
                             IF i <= Len(Forget(s, K).arr) THEN Forget(s, K).arr[i] ELSE FALSE],
                  !.hint = IF asize > 0 THEN asize \div 2 ELSE @]
           Rec2(f) == [j \in 0..SizeNode(Forget(s, K)) |->
                        IF j = 0 THEN sized
                        ELSE LET n == Forget(s, K).node[j - 1]
                             IN  IF n.has THEN NewCheckedKey(f[j - 1], n.key)
                                 ELSE f[j - 1]]
           g2 == CHOOSE f : f = Rec2(f)
<1>1. Resize(s, asize, hsize, K) = g2[SizeNode(Forget(s, K))]
  BY Zenon DEF Resize
<1>2. \A f : Rec1(f) = Slice(s, asize, vector, f)
  BY DEF Slice
<1>3. s \in TableType /\ ArrayFits(s)
  BY DEF TableFits
<1>4. g1 = Rec1(g1)
  <2>1. \E f : f = Slice(s, asize, vector, f)
    BY <1>3, SliceExists
  <2>2. \E f : f = Rec1(f)
    <3> HIDE DEF Rec1
    <3> QED BY <1>2, <2>1
  <2> HIDE DEF Rec1
  <2> QED BY <2>2, Zenon
<1>5. g1 = Slice(s, asize, vector, g1)
  <2> HIDE DEF g1, Rec1
  <2> QED BY <1>2, <1>4
<1>6. new \in TableType
  <2> HIDE DEF g1
  <2> QED BY <1>5
<1>7. sized = Resized(new, old, asize)
  <2> HIDE DEF new
  <2> QED BY DEF Resized
<1>8. sized \in TableType
  <2> HIDE DEF new, sized
  <2> QED BY <1>6, <1>7, ResizedFacts
<1> HIDE DEF sized
<1>9. \A f : Rec2(f) = Again(old, sized, f)
  BY DEF Again
<1>10. g2 = Rec2(g2)
  <2>1. \E f : f = Again(old, sized, f)
    BY <1>8, AgainExists
  <2>2. \E f : f = Rec2(f)
    <3> HIDE DEF Rec2
    <3> QED BY <1>9, <2>1
  <2> HIDE DEF Rec2
  <2> QED BY <2>2, Zenon
<1>11. g2 = Again(old, sized, g2)
  <2> HIDE DEF g2, Rec2
  <2> QED BY <1>9, <1>10
<1>12. new = g1[Len(s.arr)]
  OBVIOUS
<1> HIDE DEF g1, g2, new
<1> QED BY <1>1, <1>5, <1>7, <1>11, <1>12

\* luaH_resize keeps every key but those a collection takes meanwhile, if there is room for those that leave the array.
LEMMA ResizeFacts ==
  ASSUME NEW s, TableFits(s), NEW asize \in Nat, NEW hsize \in Nat, NEW K,
         NEW T \in SUBSET Keys, IsFiniteSet(T), Cardinality(T) <= hsize,
         T \cap Small(asize) = {}, Entries(s) \ Small(asize) \subseteq T
  PROVE  LET r == Resize(s, asize, hsize, K)
         IN  /\ TableFits(r) /\ Fresh(r, T) /\ Len(r.arr) = asize
             /\ Entries(r) \subseteq Entries(s) /\ Entries(s) \ K \subseteq Entries(r)
<1> DEFINE vector == NodeVector(s, hsize)
           old == Forget(s, K)
           N == Len(s.arr)
<1>0. s \in TableType /\ ArrayFits(s) /\ Chains(s) /\ Apart(s)
  BY DEF TableFits
<1>1. /\ Fresh(vector, T) /\ HashKeys(vector) = {} /\ vector \in TableType
      /\ vector.hint = s.hint
  BY <1>0, NodeVectorFacts DEF Fresh
<1>2. Entries(s) = ArrayKeys(s) \cup HashKeys(s)
  BY EntriesAre
<1>3. SliceKeys(s, asize, N) = ArrayKeys(s) \ Small(asize)
  <2>1. \A k \in ArrayKeys(s) : k \in Nat /\ k \in IntKeys /\ k <= N /\ N \in Nat
    BY <1>0, IntKeysAre, ArrayKeysAre DEF ArrayKeys
  <2>2. \A k \in ArrayKeys(s) : asize < k <=> ~(k <= asize)
    BY <2>1
  <2> QED BY <2>1, <2>2 DEF SliceKeys, Small
<1>4. SliceKeys(s, asize, N) \subseteq T
  BY <1>2, <1>3
<1>5. /\ old \in TableType /\ Positions(old) = Positions(s) /\ Len(old.arr) = N
      /\ \A i \in 1..N : old.arr[i] = (s.arr[i] /\ i \notin K)
      /\ \A i \in Positions(s) :
           /\ KeyOf(old, i) = KeyOf(s, i)
           /\ old.node[i].has = (s.node[i].has /\ KeyOf(s, i) \notin K)
  BY <1>0, ForgetFacts
<1>0a. vector = NodeVector(s, hsize) /\ old = Forget(s, K) /\ N = Len(s.arr)
  OBVIOUS
<1> HIDE DEF vector, old, N
<1>6. KeysDiffer(s)
  <2>1. \A i \in Positions(s) : s.node[i].has => KeyOf(s, i) \in Keys /\ KeyOf(s, i) # NIL
    BY <1>0, NodeTyped DEF Chains, FreeAreFree
  <2>2. \A i \in Positions(s) : s.node[i].has => ~s.node[i].dead
    BY <1>0 DEF Chains, OnceAlive
  <2> QED BY <1>0, <2>1, <2>2 DEF KeysDiffer, Chains, OnceAlive
<1>7. KeysDiffer(old)
  BY <1>5, <1>6 DEF KeysDiffer
<1>8. \A x : x \in HashKeys(old) <=> x \in HashKeys(s) /\ x \notin K
  <2> TAKE x
  <2>1. ASSUME x \in HashKeys(old) PROVE x \in HashKeys(s) /\ x \notin K
    <3>1. PICK i \in Positions(old) : old.node[i].has /\ KeyOf(old, i) = x
      BY <2>1, HashKeysAre
    <3>2. i \in Positions(s) /\ KeyOf(s, i) = x /\ s.node[i].has /\ x \notin K
      BY <1>5, <3>1
    <3> QED BY <3>2, HashKeysAre
  <2>2. ASSUME x \in HashKeys(s), x \notin K PROVE x \in HashKeys(old)
    <3>1. PICK i \in Positions(s) : s.node[i].has /\ KeyOf(s, i) = x
      BY <2>2, HashKeysAre
    <3>2. i \in Positions(old) /\ KeyOf(old, i) = x /\ old.node[i].has
      BY <1>5, <2>2, <3>1
    <3> QED BY <3>2, HashKeysAre
  <2> QED BY <2>1, <2>2
<1>9. ASSUME NEW g, g = Slice(s, asize, vector, g)
      PROVE  /\ Fresh(g[N], T) /\ SameButNodes(vector, g[N]) /\ g[N] \in TableType
             /\ HashKeys(g[N]) = SliceKeys(s, asize, N)
  BY <1>0, <1>1, <1>4, <1>9, SliceFacts DEF Fresh, N
<1>10. PICK g1, g2 :
         /\ g1 = Slice(s, asize, vector, g1)
         /\ g2 = Again(old, Resized(g1[N], old, asize), g2)
         /\ Resize(s, asize, hsize, K) = g2[SizeNode(old)]
  <2>1. \A g : g = Slice(s, asize, vector, g) => g[Len(s.arr)] \in TableType
    BY <1>0a, <1>9
  <2>2. \E g1, g2 :
         /\ g1 = Slice(s, asize, vector, g1)
         /\ g2 = Again(old, Resized(g1[Len(s.arr)], old, asize), g2)
         /\ Resize(s, asize, hsize, K) = g2[SizeNode(old)]
    BY <1>0a, <1>1, <1>5, <1>7, <2>1, ResizeIs
  <2> QED BY <1>0a, <2>2
<1> DEFINE new == g1[N]
           sized == Resized(new, old, asize)
           r == g2[SizeNode(old)]
<1>11. Fresh(new, T) /\ HashKeys(new) = SliceKeys(s, asize, N) /\ new \in TableType
  BY <1>9, <1>10
<1> HIDE DEF new
<1>12. /\ sized \in TableType /\ sized.node = new.node /\ sized.dummy = new.dummy
       /\ sized.last = new.last /\ Len(sized.arr) = asize /\ DOMAIN sized.arr = 1..asize
       /\ sized.hint <= asize \/ asize = 0
       /\ \A i \in 1..asize : sized.arr[i] <=> i <= N /\ old.arr[i]
  <2>1. new \in TableType /\ old \in TableType /\ sized = Resized(new, old, asize)
    BY <1>5, <1>11
  <2> HIDE DEF sized
  <2>2. /\ sized \in TableType /\ sized.node = new.node /\ sized.dummy = new.dummy
        /\ sized.last = new.last /\ Len(sized.arr) = asize /\ DOMAIN sized.arr = 1..asize
        /\ sized.hint <= asize \/ asize = 0
    BY <2>1, ResizedFacts, ZenonT(40)
  <2>3. \A i \in 1..asize : sized.arr[i] <=> i <= Len(old.arr) /\ old.arr[i]
    BY <2>1, ResizedFacts
  <2> QED BY <1>5, <2>2, <2>3
<1> HIDE DEF sized
<1>13. Fresh(sized, T) /\ HashKeys(sized) = SliceKeys(s, asize, N)
  BY <1>11, <1>12, FreshDepends, ChainsDepend
<1>14. N \in Nat /\ DOMAIN s.arr = 1..N
  BY <1>0, ArrayKeysAre DEF N
<1>15. \A i \in 1..asize : i <= N => i \in 1..N
  BY <1>14
<1>16. \A i \in 1..asize : sized.arr[i] <=> i <= N /\ s.arr[i] /\ i \notin K
  BY <1>5, <1>12, <1>15
<1>17. \A i \in DOMAIN sized.arr : sized.arr[i] => i \in IntKeys
  BY <1>0, <1>12, <1>14, <1>15, <1>16 DEF ArrayFits
<1>18. \A k : k \in ArrayKeys(sized) <=> k \in ArrayKeys(s) /\ k \in Small(asize) /\ k \notin K
  <2> TAKE k
  <2>1. k \in ArrayKeys(sized) <=> k \in Small(asize) /\ sized.arr[k]
    BY <1>12, ArrayKeysAre
  <2>2. k \in Small(asize) => k \in 1..asize
    BY <1>12, ArrayKeysAre
  <2>3. k \in ArrayKeys(s) <=> k \in IntKeys /\ k <= N /\ s.arr[k]
    BY DEF ArrayKeys, N
  <2> QED BY <1>16, <2>1, <2>2, <2>3 DEF Small
<1>19. \A k \in HashKeys(s) : k \notin ArrayKeys(s)
  <2>1. \A k \in ArrayKeys(s) : InArray(s, k)
    BY DEF ArrayKeys, InArray
  <2> QED BY <1>0, <2>1, HashKeysAre DEF Apart
<1>20. /\ HashKeys(old) \ Small(Len(sized.arr)) \subseteq T
       /\ HashKeys(sized) \cap HashKeys(old) = {}
  <2>1. \A k \in HashKeys(old) : k \in HashKeys(s) /\ k \in Entries(s)
    BY <1>2, <1>8
  <2>2. \A k \in HashKeys(sized) : k \in ArrayKeys(s)
    BY <1>13 DEF SliceKeys
  <2> QED BY <1>12, <1>19, <2>1, <2>2
<1>21. /\ Fresh(r, T) /\ Len(r.arr) = asize /\ r.hint = sized.hint
       /\ \A i \in DOMAIN r.arr : r.arr[i] => i \in IntKeys
       /\ ArrayKeys(r) = ArrayKeys(sized) \cup (HashKeys(old) \cap Small(asize))
       /\ HashKeys(r) = HashKeys(sized) \cup (HashKeys(old) \ Small(asize))
  <2>1. g2 = Again(old, sized, g2)
    BY <1>10 DEF sized, new
  <2> QED BY <1>5, <1>7, <1>12, <1>13, <1>17, <1>20, <2>1, AgainFacts
<1> HIDE DEF r
<1>22. Apart(r)
  <2> SUFFICES ASSUME NEW i \in Positions(r), InArray(r, KeyOf(r, i)) PROVE FALSE
    BY DEF Apart
  <2>1. KeyOf(r, i) \in Small(asize)
    BY <1>21, ArrayKeysAre DEF Fresh
  <2>2. KeyOf(r, i) # NIL
    BY <2>1, TableAssumption DEF Small, Keys
  <2>3. KeyOf(r, i) \in T
    BY <1>21, <2>2, HashKeysAre DEF Fresh
  <2> QED BY <2>1, <2>3
<1>23. TableFits(r)
  BY <1>12, <1>21, <1>22 DEF TableFits, Fresh, ArrayFits
<1>24. Entries(r) = ArrayKeys(r) \cup HashKeys(r)
  BY <1>23, EntriesAre
<1>25. \A k : k \in Entries(r) => k \in Entries(s)
  BY <1>2, <1>3, <1>8, <1>13, <1>18, <1>21, <1>24
<1>26. \A k : k \in Entries(s) /\ k \notin K => k \in Entries(r)
  BY <1>2, <1>3, <1>8, <1>13, <1>18, <1>21, <1>24
<1> QED BY <1>10, <1>21, <1>23, <1>25, <1>26 DEF r

(*-------------------------------- rehash -------------------------------*)

\* The size computesizes finds is a number.
LEMMA ComputeSizeType ==
  ASSUME NEW ints
  PROVE  ComputeSize(ints) \in Nat
<1> DEFINE lg == CeilLog2(MAXINT)
           good == { l \in 0..lg :
                     /\ TwoTo(l) <= 3 * Cardinality(ints)
                     /\ \E k \in ints : CeilLog2(k) = l
                     /\ TwoTo(l) <= 3 * Cardinality({ k \in ints : k <= TwoTo(l) }) }
<1>1. ComputeSize(ints) = IF good = {} THEN 0 ELSE TwoTo(Max(good))
  BY DEF ComputeSize
<1>2. lg \in Nat
  BY IntKeysAre, CeilLog2Facts
<1>3. good \in SUBSET (0..lg)
  OBVIOUS
<1> HIDE DEF good, lg
<1>4. CASE good # {}
  <2>1. Max(good) \in good
    BY <1>2, <1>3, <1>4, MaxIsGreatest
  <2>2. good \subseteq Nat
    BY <1>2, <1>3
  <2>3. Max(good) \in Nat
    BY <2>1, <2>2, Zenon
  <2> QED BY <1>1, <1>4, <2>3, TwoToFacts
<1> QED BY <1>1, <1>4

\* A table has a finite number of keys.
LEMMA KeysFinite ==
  ASSUME NEW s \in TableType
  PROVE  /\ IsFiniteSet(HashKeys(s)) /\ IsFiniteSet(ArrayKeys(s))
         /\ Cardinality(HashKeys(s)) <= SizeNode(s)
<1>1. IsFiniteSet(ArrayKeys(s))
  <2>1. ArrayKeys(s) \in SUBSET Nat /\ \A k \in ArrayKeys(s) : k <= MAXINT
    BY IntKeysAre DEF ArrayKeys
  <2> QED BY <2>1, IntKeysAre, FS_BoundedSetOfNaturals
<1> DEFINE H == {j \in Positions(s) : s.node[j].has}
           f == [j \in H |-> KeyOf(s, j)]
<1>2. IsFiniteSet(H) /\ Cardinality(H) <= SizeNode(s) /\ SizeNode(s) \in Nat
  <2>1. PICK N \in Nat \ {0} : Positions(s) = 0..(N - 1) /\ SizeNode(s) = N
    BY VectorFacts
  <2>2. IsFiniteSet(Positions(s)) /\ Cardinality(Positions(s)) = N
    BY <2>1, FS_Interval DEF SizeNode, Positions
  <2>3. H \in SUBSET Positions(s)
    OBVIOUS
  <2> HIDE DEF H
  <2>4. IsFiniteSet(H) /\ Cardinality(H) <= Cardinality(Positions(s))
    BY <2>2, <2>3, FS_Subset
  <2> QED BY <2>1, <2>2, <2>4
<1>3. f \in Surjection(H, HashKeys(s))
  <2>1. \A j \in H : KeyOf(s, j) \in HashKeys(s)
    BY HashKeysAre
  <2>2. f \in [H -> HashKeys(s)]
    BY <2>1
  <2>3. \A k \in HashKeys(s) : \E j \in H : f[j] = k
    BY HashKeysAre
  <2> HIDE DEF f, H
  <2> QED BY <2>2, <2>3 DEF Surjection
<1>4. IsFiniteSet(HashKeys(s)) /\ Cardinality(HashKeys(s)) <= Cardinality(H)
  <2> HIDE DEF f, H
  <2> QED BY <1>2, <1>3, FS_Surjection
<1>5. Cardinality(HashKeys(s)) \in Nat /\ Cardinality(H) \in Nat
  BY <1>2, <1>4, FS_CardinalityType
<1> HIDE DEF H
<1> QED BY <1>1, <1>2, <1>4, <1>5

\* A rehash makes room for the keys that are there and the new one.
LEMMA NewSizesFacts ==
  ASSUME NEW s, TableFits(s), NEW k \in Keys, k \notin Entries(s), ~InArray(s, k)
  PROVE  LET z == NewSizes(s, k)
             T == (Entries(s) \cup {k}) \ Small(z[1])
         IN  z[1] \in Nat /\ z[2] \in Nat /\ IsFiniteSet(T) /\ Cardinality(T) <= z[2]
<1> DEFINE E == Entries(s) \cup {k}
           ints == PresentInts(s) \cup ({k} \cap IntKeys)
           inhash == (HashKeys(s) \cup {k}) \cap IntKeys
           total == Cardinality(HashKeys(s)) + 1
           all == total + Cardinality(ints \cap 1..Len(s.arr))
           asize == IF inhash = {} THEN Len(s.arr) ELSE ComputeSize(ints)
           hash == IF inhash = {} THEN total
                   ELSE all - Cardinality({ i \in ints : i <= asize })
           T == E \ Small(asize)
           z == NewSizes(s, k)
<1>0. s \in TableType /\ Chains(s) /\ Apart(s)
  BY DEF TableFits
<1>1. Entries(s) = ArrayKeys(s) \cup HashKeys(s)
  BY EntriesAre
<1>2. IsFiniteSet(HashKeys(s)) /\ IsFiniteSet(ArrayKeys(s))
  BY <1>0, KeysFinite
<1>3. ArrayKeys(s) \cap HashKeys(s) = {}
  <2>1. \A j \in ArrayKeys(s) : InArray(s, j)
    BY DEF ArrayKeys, InArray
  <2> QED BY <1>0, <2>1, HashKeysAre DEF Apart
<1>4. /\ IsFiniteSet(HashKeys(s) \cup {k}) /\ Cardinality(HashKeys(s) \cup {k}) = total
      /\ total \in Nat
  <2>1. k \notin HashKeys(s)
    BY <1>1
  <2> QED BY <1>2, <2>1, FS_AddElement, FS_CardinalityType
<1>5. Len(s.arr) \in Nat
  BY <1>0, ArrayKeysAre
<1>6. ints = E \cap IntKeys
  BY DEF PresentInts, Entries, Keys
<1>7. ints \cap 1..Len(s.arr) = ArrayKeys(s)
  <2>1. \A j : j \in ArrayKeys(s) => j \in ints /\ j \in 1..Len(s.arr)
    BY <1>0, <1>1, <1>6, ArrayKeysAre DEF ArrayKeys
  <2>2. ASSUME NEW j \in ints, j \in 1..Len(s.arr) PROVE j \in ArrayKeys(s)
    <3>1. j \in IntKeys /\ j <= Len(s.arr) /\ InArray(s, j)
      BY <1>5, <1>6, <2>2 DEF InArray
    <3>2. j \in Entries(s)
      BY <1>6, <2>2, <3>1
    <3>3. Has(s, j) /\ j \in Keys
      BY <3>2 DEF Entries
    <3> QED BY <1>0, <3>1, <3>3, HasFacts
  <2> QED BY <2>1, <2>2
<1>8. IsFiniteSet(E) /\ Cardinality(E) = all /\ all \in Nat
  <2>1. ArrayKeys(s) \cap (HashKeys(s) \cup {k}) = {}
    <3>1. k \notin ArrayKeys(s)
      BY <1>1
    <3> QED BY <1>3, <3>1
  <2>2. E = ArrayKeys(s) \cup (HashKeys(s) \cup {k})
    BY <1>1
  <2>3. /\ IsFiniteSet(E)
        /\ Cardinality(E) = Cardinality(ArrayKeys(s)) + total - Cardinality({})
    <3> HIDE DEF E, total
    <3> QED BY <1>2, <1>4, <2>1, <2>2, FS_Union
  <2>4. all = total + Cardinality(ArrayKeys(s)) /\ Cardinality(ArrayKeys(s)) \in Nat
    BY <1>2, <1>7, FS_CardinalityType
  <2>5. Cardinality({}) = 0
    BY FS_EmptySet
  <2> HIDE DEF E, total, all
  <2> QED BY <1>4, <2>3, <2>4, <2>5
<1>9. asize \in Nat
  BY <1>5, ComputeSizeType
<1>10. IsFiniteSet(T) /\ Cardinality(T) \in Nat /\ Cardinality(T) <= hash /\ hash \in Nat
  <2>1. CASE inhash = {}
    <3>1. T \subseteq HashKeys(s) \cup {k}
      <4>1. \A j \in ArrayKeys(s) : j \in Small(asize)
        BY <2>1 DEF ArrayKeys, Small
      <4> QED BY <1>1, <4>1
    <3>2. hash = total
      BY <2>1
    <3> HIDE DEF T, total, hash
    <3> QED BY <1>4, <3>1, <3>2, FS_Subset, FS_CardinalityType
  <2>2. CASE inhash # {}
    <3>1. { i \in ints : i <= asize } = E \cap Small(asize)
      BY <1>6 DEF Small
    <3>2. hash = all - Cardinality(E \cap Small(asize))
      BY <2>2, <3>1
    <3>3. IsFiniteSet(T) /\ Cardinality(T) = Cardinality(E) - Cardinality(E \cap Small(asize))
      <4> HIDE DEF E, asize
      <4> QED BY <1>8, FS_Difference
    <3> HIDE DEF T, hash, all, E
    <3>4. hash = Cardinality(T)
      BY <1>8, <3>2, <3>3
    <3> QED BY <3>3, <3>4, FS_CardinalityType
  <2> QED BY <2>1, <2>2
<1>11. z[1] = asize /\ (z[2] = hash \/ z[2] = hash + hash \div 4)
  BY DEF NewSizes
<1> HIDE DEF z, hash, asize
<1>12. z[2] \in Nat /\ Cardinality(T) <= z[2]
  BY <1>10, <1>11
<1> QED BY <1>9, <1>10, <1>11, <1>12 DEF z

\* A table whose hash part took a key.
LEMMA TookKey ==
  ASSUME NEW s, TableFits(s), NEW k \in Keys, NEW r \in TableType, Chains(r),
         SameButNodes(s, r), HashKeys(r) = HashKeys(s) \cup {k},
         \A i \in Positions(r) : ~InArray(s, KeyOf(r, i))
  PROVE  TableFits(r) /\ Entries(r) = Entries(s) \cup {k}
<1>1. r.arr = s.arr /\ r.hint = s.hint
  BY DEF SameButNodes
<1>2. ArrayFits(r) /\ Apart(r) /\ ArrayKeys(r) = ArrayKeys(s)
  BY <1>1 DEF ArrayFits, Apart, TableFits, InArray, ArrayKeys
<1>3. TableFits(r)
  BY <1>2 DEF TableFits
<1>4. Entries(r) = ArrayKeys(r) \cup HashKeys(r)
  BY <1>3, EntriesAre
<1>5. Entries(s) = ArrayKeys(s) \cup HashKeys(s)
  BY EntriesAre
<1> QED BY <1>2, <1>3, <1>4, <1>5

\* A key without a slot has no value, and no live node.
LEMMA NoSlot ==
  ASSUME NEW s, TableFits(s), NEW k \in Keys, ~HasSlot(s, k)
  PROVE  ~InArray(s, k) /\ k \notin Entries(s) /\ NotLive(s, k)
<1>1. s \in TableType /\ Chains(s)
  BY DEF TableFits
<1>2. ~InArray(s, k) /\ Node(s, k, FALSE) = NIL
  BY DEF HasSlot
<1>3. ~Has(s, k)
  BY <1>2 DEF Has
<1>4. ASSUME NEW i \in Positions(s), KeyOf(s, i) = k PROVE s.node[i].dead
  BY <1>1, <1>2, <1>4, NodeFacts
<1> QED BY <1>2, <1>3, <1>4 DEF Entries, NotLive

\* An array slot takes a value.
LEMMA ArrayTakesKey ==
  ASSUME NEW s, TableFits(s), NEW k \in Keys, InArray(s, k)
  PROVE  LET r == NewCheckedKey(s, k)
         IN  TableFits(r) /\ Entries(r) = Entries(s) \cup {k}
<1> DEFINE r == NewCheckedKey(s, k)
<1>0. s \in TableType /\ Chains(s) /\ Apart(s) /\ ArrayFits(s)
  BY DEF TableFits
<1>1. /\ r \in TableType /\ Len(r.arr) = Len(s.arr) /\ r.hint = s.hint
      /\ r.node = s.node /\ r.dummy = s.dummy /\ r.last = s.last
  BY <1>0, NewCheckedKeyType, NewCheckedKeyInArray
<1>2. \A i \in 1..Len(s.arr) : r.arr[i] = (s.arr[i] \/ i = k)
  BY <1>0, NewCheckedKeyInArray
<1> HIDE DEF r
<1>3. k \in IntKeys /\ k \in Small(Len(s.arr))
  BY DEF InArray, Small
<1>4. \A i \in 1..Len(s.arr) : r.arr[i] <=> s.arr[i] \/ i = k
  BY <1>2
<1>5. Chains(r) /\ HashKeys(r) = HashKeys(s)
  BY <1>0, <1>1, ChainsDepend
<1>6. /\ DOMAIN s.arr = 1..Len(s.arr) /\ DOMAIN r.arr = 1..Len(s.arr)
  BY <1>0, <1>1, ArrayKeysAre
<1>7. ArrayFits(r)
  BY <1>0, <1>1, <1>3, <1>4, <1>6 DEF ArrayFits
<1>8. Apart(r)
  BY <1>0, <1>1 DEF Apart, Positions, KeyOf, InArray
<1>9. TableFits(r)
  BY <1>1, <1>5, <1>7, <1>8 DEF TableFits
<1>10. \A j : j \in ArrayKeys(r) <=> j \in ArrayKeys(s) \/ j = k
  <2> TAKE j
  <2>1. j \in ArrayKeys(r) <=> j \in Small(Len(s.arr)) /\ r.arr[j]
    BY <1>1, ArrayKeysAre
  <2>2. j \in ArrayKeys(s) <=> j \in Small(Len(s.arr)) /\ s.arr[j]
    BY <1>0, ArrayKeysAre
  <2>3. j \in Small(Len(s.arr)) => j \in 1..Len(s.arr)
    BY <1>0, ArrayKeysAre
  <2> QED BY <1>3, <1>4, <2>1, <2>2, <2>3
<1>11. Entries(r) = ArrayKeys(r) \cup HashKeys(r)
  BY <1>9, EntriesAre
<1>12. Entries(s) = ArrayKeys(s) \cup HashKeys(s)
  BY EntriesAre
<1>13. Entries(r) = Entries(s) \cup {k}
  BY <1>5, <1>10, <1>11, <1>12
<1> QED BY <1>9, <1>13 DEF r

\* luaH_newkey adds the key and loses no value but those a collection takes.
LEMMA NewKeyFacts ==
  ASSUME NEW s, TableFits(s), NEW k \in Keys, ~HasSlot(s, k), NEW K
  PROVE  LET r == NewKey(s, k, K)
         IN  /\ TableFits(r) /\ k \in Entries(r)
             /\ Entries(r) \subseteq Entries(s) \cup {k} /\ Entries(s) \ K \subseteq Entries(r)
<1>0. s \in TableType /\ Chains(s) /\ Apart(s)
  BY DEF TableFits
<1>1. ~InArray(s, k) /\ k \notin Entries(s) /\ NotLive(s, k)
  BY NoSlot
<1>2. CASE CanInsert(s, k)
  <2> DEFINE r == InsertKey(s, k)
  <2>1. FreePos(s) # NIL => ~s.dummy
    BY DEF FreePos, FreeNodes
  <2>2. ~s.dummy /\ (~s.node[MainPosition(s, k)].has \/ FreePos(s) # NIL)
    BY <1>2, <2>1 DEF CanInsert
  <2>3. Inserted(s, r, k)
    BY <1>0, <1>1, <2>2, InsertKeyFacts
  <2> HIDE DEF r
  <2>4. \A i \in Positions(r) : ~InArray(s, KeyOf(r, i))
    BY <1>0, <1>1, <2>3 DEF Inserted, Apart
  <2>5. TableFits(r) /\ Entries(r) = Entries(s) \cup {k}
    BY <2>3, <2>4, TookKey DEF Inserted
  <2>6. NewKey(s, k, K) = r
    BY <1>2 DEF NewKey, r
  <2> QED BY <2>5, <2>6
<1>3. CASE ~CanInsert(s, k)
  <2> DEFINE z == NewSizes(s, k)
             a == z[1]
             h == z[2]
             T == (Entries(s) \cup {k}) \ Small(a)
             r == Resize(s, a, h, K)
             u == NewCheckedKey(r, k)
  <2>1. a \in Nat /\ h \in Nat /\ IsFiniteSet(T) /\ Cardinality(T) <= h
    BY <1>1, NewSizesFacts
  <2>2. NewKey(s, k, K) = u
    BY <1>3 DEF NewKey
  <2>3. T \in SUBSET Keys /\ T \cap Small(a) = {} /\ Entries(s) \ Small(a) \subseteq T
    BY DEF Entries
  <2>4. k \in Small(a) \/ k \in T
    OBVIOUS
  <2> HIDE DEF z, a, h, T
  <2>5. /\ TableFits(r) /\ Fresh(r, T) /\ Len(r.arr) = a
        /\ Entries(r) \subseteq Entries(s) /\ Entries(s) \ K \subseteq Entries(r)
    BY <2>1, <2>3, ResizeFacts
  <2> HIDE DEF r
  <2>6. TableFits(u) /\ Entries(u) = Entries(r) \cup {k}
    <3>0. r \in TableType
      BY <2>5 DEF TableFits
    <3>1. CASE InArray(r, k)
      BY <2>5, <3>1, ArrayTakesKey
    <3>2. CASE ~InArray(r, k)
      <4>1. k \in T
        BY <2>4, <2>5, <3>0, <3>2, ArrayKeysAre
      <4>2. k \notin HashKeys(r)
        BY <1>1, <2>5, EntriesAre
      <4>3. u = InsertKey(r, k)
        BY <3>2 DEF NewCheckedKey
      <4>4. Fresh(u, T) /\ SameButNodes(r, u) /\ HashKeys(u) = HashKeys(r) \cup {k}
        BY <2>1, <2>3, <2>5, <4>1, <4>2, <4>3, FreshTakesKey
      <4> HIDE DEF u
      <4>5. ASSUME NEW i \in Positions(u) PROVE ~InArray(r, KeyOf(u, i))
        <5> SUFFICES ASSUME InArray(r, KeyOf(u, i)) PROVE FALSE
          OBVIOUS
        <5>1. KeyOf(u, i) \in Small(a)
          BY <2>5, <3>0, ArrayKeysAre
        <5>2. KeyOf(u, i) # NIL
          BY <5>1, TableAssumption DEF Small, Keys
        <5>3. KeyOf(u, i) \in T
          BY <4>4, <5>2, HashKeysAre DEF Fresh
        <5> QED BY <2>3, <5>1, <5>3
      <4> QED BY <2>5, <4>4, <4>5, TookKey DEF Fresh
    <3> QED BY <3>1, <3>2
  <2> QED BY <2>2, <2>5, <2>6
<1> QED BY <1>2, <1>3

(*--------------------- stores, and what traversals see ------------------*)

\* r has the slots of s, with other values and more dead keys.
SameSlots(s, r) ==
  /\ Positions(r) = Positions(s) /\ Len(r.arr) = Len(s.arr)
  /\ \A i \in Positions(s) : /\ KeyOf(r, i) = KeyOf(s, i)
                             /\ r.node[i].next = s.node[i].next

\* A key is met at the same place.
LEMMA SameNode ==
  ASSUME NEW s \in TableType, Chains(s), NEW r \in TableType, SameSlots(s, r),
         NEW k \in Keys
  PROVE  Node(r, k, TRUE) = Node(s, k, TRUE)
<1> DEFINE nx == Links(s)
           mp == MainPosition(s, k)
           M == Matches(s, k, TRUE)
           i == Node(s, k, TRUE)
           j == Node(r, k, TRUE)
<1>1. Links(r) = nx /\ Chained(nx) /\ DOMAIN nx = Positions(s)
  BY DEF Links, SameSlots, Chains
<1>2. MainPosition(r, k) = mp /\ mp \in DOMAIN nx
  BY <1>1, MainDepends, MainIsPosition DEF SameSlots
<1>3. Matches(r, k, TRUE) = M /\ M \subseteq Positions(s)
  BY DEF Matches, EqualKey, SameSlots, KeyOf
<1>4. /\ i = NIL => \A h \in M : ~Reaches(nx, mp, h)
      /\ i # NIL => First(nx, M, mp, i)
  BY <1>1, NodeIsFirst
<1>5. /\ j = NIL => \A h \in M : ~Reaches(nx, mp, h)
      /\ j # NIL => First(nx, M, mp, j)
  BY <1>1, <1>2, <1>3, NodeIsFirst
<1> HIDE DEF i, j, M, nx, mp
<1>6. i = NIL <=> j = NIL
  BY <1>4, <1>5 DEF First
<1>7. ASSUME i # NIL, j # NIL PROVE i = j
  <2>1. Reaches(nx, i, j) /\ Reaches(nx, j, i) /\ i \in DOMAIN nx /\ j \in DOMAIN nx
    BY <1>1, <1>3, <1>4, <1>5, <1>7 DEF First
  <2> QED BY <1>1, <2>1, ReachesOneWay
<1> QED BY <1>6, <1>7 DEF i, j

\* A key has the same place in a traversal.
LEMMA SamePlace ==
  ASSUME NEW s \in TableType, Chains(s), NEW r \in TableType, SameSlots(s, r),
         NEW k \in Keys \cup {NIL}
  PROVE  /\ FindIndex(r, k) = FindIndex(s, k) /\ InArray(r, k) = InArray(s, k)
         /\ k # NIL => Node(r, k, TRUE) = Node(s, k, TRUE)
<1>1. k # NIL => Node(r, k, TRUE) = Node(s, k, TRUE)
  BY SameNode
<1>2. InArray(r, k) = InArray(s, k)
  BY DEF InArray, SameSlots
<1>3. Len(r.arr) = Len(s.arr)
  BY DEF SameSlots
<1> QED BY <1>1, <1>2, <1>3 DEF FindIndex

\* The invariant holds of a table with other values in its slots.
LEMMA SlotsFit ==
  ASSUME NEW s, TableFits(s), NEW r \in TableType, SameSlots(s, r),
         r.dummy = s.dummy, r.last = s.last, ArrayFits(r),
         \A i \in Positions(s) :
           /\ s.node[i].dead => r.node[i].dead
           /\ r.node[i].dead => ~r.node[i].has
           /\ KeyOf(s, i) = NIL => ~r.node[i].has /\ ~r.node[i].dead
  PROVE  TableFits(r)
<1>0. s \in TableType /\ Chains(s) /\ Apart(s)
  BY DEF TableFits
<1>1. Links(r) = Links(s) /\ Positions(r) = Positions(s)
  BY DEF Links, SameSlots
<1>2. \A i \in Positions(s) : KeyOf(r, i) = KeyOf(s, i) /\ r.node[i].next = s.node[i].next
  BY DEF SameSlots
<1>3. \A k : MainPosition(r, k) = MainPosition(s, k)
  BY <1>1, MainDepends
<1>4. \A i \in Positions(s) : Home(r, i) = Home(s, i)
  BY <1>2, <1>3 DEF Home
<1>5. FreeAreFree(r)
  BY <1>0, <1>1, <1>2 DEF Chains, FreeAreFree
<1>6. AtHome(r)
  <2> SUFFICES ASSUME NEW i \in Positions(s), KeyOf(s, i) # NIL
               PROVE  /\ Reaches(Links(s), Home(s, i), i)
                      /\ KeyOf(r, Home(s, i)) # NIL /\ Home(r, Home(s, i)) = Home(s, i)
                      /\ ~s.dummy
    BY <1>1, <1>2, <1>4 DEF AtHome
  <2>1. Home(s, i) \in Positions(s)
    BY <1>0, HomeIsPosition
  <2> QED BY <1>0, <1>2, <1>4, <2>1 DEF Chains, AtHome
<1>7. OnceAlive(r)
  <2>1. \A i \in Positions(r) : r.node[i].dead => ~r.node[i].has
    BY <1>1
  <2>2. ASSUME NEW i \in Positions(r), NEW j \in Positions(r), i # j,
               KeyOf(r, i) = KeyOf(r, j), KeyOf(r, i) # NIL, ~r.node[i].dead
        PROVE  r.node[j].dead /\ Reaches(Links(r), i, j)
    <3>1. /\ i \in Positions(s) /\ j \in Positions(s) /\ KeyOf(s, i) = KeyOf(s, j)
          /\ KeyOf(s, i) # NIL /\ ~s.node[i].dead
      BY <1>1, <1>2, <2>2
    <3>2. s.node[j].dead /\ Reaches(Links(s), i, j)
      BY <1>0, <2>2, <3>1 DEF Chains, OnceAlive
    <3> QED BY <1>1, <3>1, <3>2
  <2> QED BY <2>1, <2>2 DEF OnceAlive
<1>8. Chains(r)
  BY <1>0, <1>1, <1>5, <1>6, <1>7 DEF Chains
<1>9. Apart(r)
  <2>1. \A k : InArray(r, k) <=> InArray(s, k)
    BY DEF InArray, SameSlots
  <2> QED BY <1>0, <1>1, <1>2, <2>1 DEF Apart
<1> QED BY <1>8, <1>9 DEF TableFits

\* A value is stored in a slot or removed from it.
LEMMA StoreFacts ==
  ASSUME NEW s, TableFits(s), NEW k \in Keys, HasSlot(s, k), NEW present \in BOOLEAN
  PROVE  LET r == Store(s, k, present)
         IN  /\ TableFits(r) /\ SameSlots(s, r)
             /\ Entries(r) = IF present THEN Entries(s) \cup {k} ELSE Entries(s) \ {k}
<1> DEFINE r == Store(s, k, present)
<1>0. s \in TableType /\ Chains(s) /\ Apart(s) /\ ArrayFits(s)
  BY DEF TableFits
<1>1. Entries(s) = ArrayKeys(s) \cup HashKeys(s)
  BY EntriesAre
<1>2. Len(s.arr) \in Nat /\ DOMAIN s.arr = 1..Len(s.arr) /\ s.arr \in Seq(BOOLEAN)
  BY <1>0, ArrayKeysAre
<1>3. CASE InArray(s, k)
  <2> DEFINE arr == [s.arr EXCEPT ![k] = present]
  <2>0. k \in IntKeys /\ k \in Small(Len(s.arr)) /\ k \in 1..Len(s.arr)
    BY <1>0, <1>3, ArrayKeysAre DEF InArray
  <2>1. arr \in Seq(BOOLEAN) /\ Len(arr) = Len(s.arr)
    BY <1>2, <2>0
  <2>2. arr[k] = present /\ \A i \in 1..Len(s.arr) : i # k => arr[i] = s.arr[i]
    BY <1>2, <2>0
  <2>3. r = [s EXCEPT !.arr = arr]
    BY <1>3 DEF Store, TableType
  <2> HIDE DEF arr
  <2>4. r \in TableType
    BY <1>0, <2>1, <2>3 DEF TableType
  <2>5. /\ r.arr = arr /\ r.node = s.node /\ r.dummy = s.dummy /\ r.last = s.last
        /\ r.hint = s.hint
    BY <1>0, <2>3 DEF TableType
  <2> HIDE DEF r
  <2>6. SameSlots(s, r)
    BY <2>1, <2>5 DEF SameSlots, Positions, KeyOf
  <2>7. ArrayFits(r)
    <3>1. \A i \in 1..Len(s.arr) : r.arr[i] => i = k \/ s.arr[i]
      BY <2>2, <2>5
    <3>2. DOMAIN r.arr = 1..Len(s.arr)
      BY <2>1, <2>4, <2>5, ArrayKeysAre
    <3> QED BY <1>0, <1>2, <2>0, <2>1, <2>5, <3>1, <3>2 DEF ArrayFits
  <2>8. TableFits(r)
    <3>1. \A i \in Positions(s) : KeyOf(s, i) = NIL => ~s.node[i].has /\ ~s.node[i].dead
      BY <1>0 DEF Chains, FreeAreFree
    <3>2. \A i \in Positions(s) : s.node[i].dead => ~s.node[i].has
      BY <1>0 DEF Chains, OnceAlive
    <3> QED BY <2>4, <2>5, <2>6, <2>7, <3>1, <3>2, SlotsFit
  <2>9. \A x : x \in ArrayKeys(r) <=> IF x = k THEN present ELSE x \in ArrayKeys(s)
    <3> TAKE x
    <3>1. x \in ArrayKeys(r) <=> x \in Small(Len(s.arr)) /\ arr[x]
      BY <2>1, <2>4, <2>5, ArrayKeysAre
    <3>2. x \in ArrayKeys(s) <=> x \in Small(Len(s.arr)) /\ s.arr[x]
      BY <1>0, ArrayKeysAre
    <3>3. x \in Small(Len(s.arr)) => x \in 1..Len(s.arr)
      BY <1>0, ArrayKeysAre
    <3>4. CASE x = k
      BY <2>0, <2>2, <3>1, <3>4
    <3>5. CASE x # k
      BY <2>2, <3>1, <3>2, <3>3, <3>5
    <3> QED BY <3>4, <3>5
  <2>10. k \notin HashKeys(s)
    BY <1>0, <1>3, HashKeysAre DEF Apart
  <2>11. HashKeys(r) = HashKeys(s)
    BY <1>0, <2>5, ChainsDepend
  <2>12. Entries(r) = ArrayKeys(r) \cup HashKeys(r)
    BY <2>8, EntriesAre
  <2>13. Entries(r) = IF present THEN Entries(s) \cup {k} ELSE Entries(s) \ {k}
    <3>1. CASE present
      BY <1>1, <2>9, <2>11, <2>12, <3>1
    <3>2. CASE ~present
      BY <1>1, <2>9, <2>10, <2>11, <2>12, <3>2
    <3> QED BY <3>1, <3>2
  <2> QED BY <2>6, <2>8, <2>13 DEF r
<1>4. CASE ~InArray(s, k)
  <2> DEFINE j == Node(s, k, FALSE)
             n == [s.node[j] EXCEPT !.has = present]
             node == [s.node EXCEPT ![j] = n]
  <2>0. j # NIL
    BY <1>4 DEF HasSlot
  <2>1. /\ j \in Positions(s) /\ KeyOf(s, j) = k /\ ~s.node[j].dead
        /\ \A i \in Positions(s) : KeyOf(s, i) = k /\ ~s.node[i].dead => i = j
    <3>1. j \in Positions(s) /\ KeyOf(s, j) = k /\ (s.node[j].dead => FALSE)
      BY <1>0, <2>0, NodeFacts
    <3>2. \A i \in Positions(s) : KeyOf(s, i) = k /\ ~s.node[i].dead => j = i
      BY <1>0, NodeFacts
    <3> HIDE DEF j
    <3> QED BY <3>1, <3>2
  <2>2. PICK N \in Nat \ {0} : Positions(s) = 0..(N - 1) /\ s.node \in [0..(N - 1) -> NodeType]
    BY <1>0, VectorFacts
  <2>3. r = [s EXCEPT !.node = node]
    BY <1>4 DEF Store, TableType
  <2> HIDE DEF j
  <2>4. s.node[j] \in NodeType
    BY <2>1, <2>2
  <2>5. /\ n \in NodeType /\ n.key = s.node[j].key /\ n.next = s.node[j].next
        /\ n.dead = s.node[j].dead /\ n.has = present
    BY <2>4 DEF NodeType
  <2> HIDE DEF n
  <2>6. /\ node \in [0..(N - 1) -> NodeType] /\ node[j] = n
        /\ \A i \in Positions(s) : i # j => node[i] = s.node[i]
    BY <2>1, <2>2, <2>5
  <2>7. node \in Vectors
    BY <2>6 DEF Vectors
  <2>8. DOMAIN node = Positions(s)
    BY <2>2, <2>6
  <2> HIDE DEF node
  <2>9. r \in TableType
    BY <1>0, <2>3, <2>7 DEF TableType
  <2>10. /\ r.node = node /\ r.arr = s.arr /\ r.dummy = s.dummy /\ r.last = s.last
         /\ r.hint = s.hint
    BY <1>0, <2>3 DEF TableType
  <2> HIDE DEF r
  <2>11. ASSUME NEW i \in Positions(s)
         PROVE  /\ KeyOf(r, i) = KeyOf(s, i) /\ r.node[i].next = s.node[i].next
                /\ r.node[i].dead = s.node[i].dead
                /\ r.node[i].has = IF i = j THEN present ELSE s.node[i].has
    <3>1. CASE i = j
      BY <2>5, <2>6, <2>10, <3>1 DEF KeyOf
    <3>2. CASE i # j
      BY <2>6, <2>10, <3>2 DEF KeyOf
    <3> QED BY <3>1, <3>2
  <2>12. Positions(r) = Positions(s)
    BY <2>8, <2>10 DEF Positions
  <2>13. SameSlots(s, r)
    BY <2>10, <2>11, <2>12 DEF SameSlots
  <2>14. ArrayFits(r) /\ ArrayKeys(r) = ArrayKeys(s)
    BY <1>0, <2>10 DEF ArrayFits, ArrayKeys
  <2>15. k # NIL
    BY TableAssumption
  <2>16. TableFits(r)
    <3>1. \A i \in Positions(s) : KeyOf(s, i) = NIL => ~s.node[i].has /\ ~s.node[i].dead
      BY <1>0 DEF Chains, FreeAreFree
    <3>2. \A i \in Positions(s) : s.node[i].dead => ~s.node[i].has
      BY <1>0 DEF Chains, OnceAlive
    <3>3. ASSUME NEW i \in Positions(s)
          PROVE  /\ s.node[i].dead => r.node[i].dead
                 /\ r.node[i].dead => ~r.node[i].has
                 /\ KeyOf(s, i) = NIL => ~r.node[i].has /\ ~r.node[i].dead
      <4>1. CASE i = j
        BY <2>1, <2>11, <2>15, <4>1
      <4>2. CASE i # j
        <5>1. r.node[i].dead = s.node[i].dead /\ r.node[i].has = s.node[i].has
          BY <2>11, <4>2
        <5> QED BY <3>1, <3>2, <5>1
      <4> QED BY <4>1, <4>2
    <3> QED BY <2>9, <2>10, <2>13, <2>14, <3>3, SlotsFit
  <2>17. \A x : x \in HashKeys(r) <=> IF x = k THEN present ELSE x \in HashKeys(s)
    <3> TAKE x
    <3>1. CASE x # k
      <4>1. \A i \in Positions(s) : KeyOf(s, i) = x => r.node[i].has = s.node[i].has
        BY <2>1, <2>11, <3>1
      <4> QED BY <2>11, <2>12, <3>1, <4>1, HashKeysAre
    <3>2. CASE x = k
      <4>1. CASE present
        <5>1. j \in Positions(r) /\ KeyOf(r, j) = k /\ r.node[j].has
          BY <2>1, <2>11, <2>12, <4>1
        <5> QED BY <3>2, <4>1, <5>1, HashKeysAre
      <4>2. CASE ~present
        <5> SUFFICES ASSUME NEW i \in Positions(r), r.node[i].has, KeyOf(r, i) = k
                     PROVE  FALSE
          BY <3>2, <4>2, HashKeysAre
        <5>1. i \in Positions(s) /\ KeyOf(s, i) = k
          BY <2>11, <2>12
        <5>2. i # j
          BY <2>11, <4>2, <5>1
        <5>3. ~s.node[i].dead
          BY <1>0, <2>11, <5>1, <5>2 DEF Chains, OnceAlive
        <5> QED BY <2>1, <5>1, <5>2, <5>3
      <4> QED BY <4>1, <4>2
    <3> QED BY <3>1, <3>2
  <2>18. k \notin ArrayKeys(s)
    BY <1>4 DEF ArrayKeys, InArray
  <2>19. Entries(r) = ArrayKeys(r) \cup HashKeys(r)
    BY <2>16, EntriesAre
  <2>20. Entries(r) = IF present THEN Entries(s) \cup {k} ELSE Entries(s) \ {k}
    <3>1. CASE present
      BY <1>1, <2>14, <2>17, <2>19, <3>1
    <3>2. CASE ~present
      BY <1>1, <2>14, <2>17, <2>18, <2>19, <3>2
    <3> QED BY <3>1, <3>2
  <2> QED BY <2>13, <2>16, <2>20 DEF r
<1> QED BY <1>3, <1>4

\* The keys of entries without a value die in a collection.
Buried(s) ==
  [s EXCEPT !.node = [i \in DOMAIN @ |->
     IF @[i].key \in Others /\ ~@[i].has THEN [@[i] EXCEPT !.dead = TRUE] ELSE @[i]]]

\* What a collection does to the keys of empty entries.
LEMMA BuriedFacts ==
  ASSUME NEW s \in TableType
  PROVE  LET r == Buried(s)
         IN  /\ r \in TableType /\ Positions(r) = Positions(s)
             /\ r.arr = s.arr /\ r.hint = s.hint /\ r.dummy = s.dummy /\ r.last = s.last
             /\ \A i \in Positions(s) :
                  /\ KeyOf(r, i) = KeyOf(s, i) /\ r.node[i].next = s.node[i].next
                  /\ r.node[i].has = s.node[i].has
                  /\ s.node[i].dead => r.node[i].dead
                  /\ r.node[i].dead => s.node[i].dead \/ (~s.node[i].has /\ KeyOf(s, i) \in Others)
<1> DEFINE r == Buried(s)
           node == [i \in DOMAIN s.node |->
                      IF s.node[i].key \in Others /\ ~s.node[i].has
                      THEN [s.node[i] EXCEPT !.dead = TRUE] ELSE s.node[i]]
<1>1. r = [s EXCEPT !.node = node]
  BY DEF Buried, TableType
<1>2. PICK N \in Nat \ {0} : /\ s.node \in [0..(N - 1) -> NodeType]
                             /\ Positions(s) = 0..(N - 1)
  BY VectorFacts
<1>3. ASSUME NEW i \in Positions(s)
      PROVE  /\ node[i] \in NodeType /\ node[i].key = s.node[i].key
             /\ node[i].next = s.node[i].next /\ node[i].has = s.node[i].has
             /\ s.node[i].dead => node[i].dead
             /\ node[i].dead => s.node[i].dead \/ (~s.node[i].has /\ s.node[i].key \in Others)
  <2>1. s.node[i] \in NodeType
    BY NodeTyped
  <2>2. node[i] = IF s.node[i].key \in Others /\ ~s.node[i].has
                  THEN [s.node[i] EXCEPT !.dead = TRUE] ELSE s.node[i]
    BY <1>2
  <2>3. CASE s.node[i].key \in Others /\ ~s.node[i].has
    <3>1. node[i] = [s.node[i] EXCEPT !.dead = TRUE]
      BY <2>2, <2>3
    <3> HIDE DEF node
    <3> QED BY <2>1, <2>3, <3>1 DEF NodeType
  <2>4. CASE ~(s.node[i].key \in Others /\ ~s.node[i].has)
    <3>1. node[i] = s.node[i]
      BY <2>2, <2>4
    <3> HIDE DEF node
    <3> QED BY <2>1, <3>1, Zenon
  <2> QED BY <2>3, <2>4
<1>4. DOMAIN node = 0..(N - 1)
  BY <1>2
<1>5. node \in [0..(N - 1) -> NodeType]
  BY <1>2, <1>3, <1>4
<1> HIDE DEF node, r
<1>6. node \in Vectors
  BY <1>5 DEF Vectors
<1>7. r \in TableType
  BY <1>1, <1>6 DEF TableType
<1>8. /\ r.node = node /\ r.arr = s.arr /\ r.hint = s.hint /\ r.dummy = s.dummy
      /\ r.last = s.last
  BY <1>1 DEF TableType
<1>9. Positions(r) = Positions(s)
  BY <1>2, <1>4, <1>8 DEF Positions
<1> QED BY <1>3, <1>7, <1>8, <1>9 DEF KeyOf, r

\* A collection takes the values of K and no other.
LEMMA CollectFacts ==
  ASSUME NEW s, TableFits(s), NEW K
  PROVE  LET r == Buried(Forget(s, K))
         IN  /\ TableFits(r) /\ SameSlots(s, r) /\ Entries(r) = Entries(s) \ K
<1> DEFINE q == Forget(s, K)
           r == Buried(q)
<1>0. s \in TableType /\ Chains(s) /\ ArrayFits(s)
  BY DEF TableFits
<1>1. /\ q \in TableType /\ Positions(q) = Positions(s)
      /\ Len(q.arr) = Len(s.arr) /\ q.hint = s.hint /\ q.dummy = s.dummy
      /\ q.last = s.last
  BY <1>0, ForgetFacts
<1>2. \A i \in 1..Len(s.arr) : q.arr[i] = (s.arr[i] /\ i \notin K)
  BY <1>0, ForgetFacts
<1>3. \A i \in Positions(s) :
        /\ KeyOf(q, i) = KeyOf(s, i) /\ q.node[i].next = s.node[i].next
        /\ q.node[i].dead = s.node[i].dead
        /\ q.node[i].has = (s.node[i].has /\ KeyOf(s, i) \notin K)
  BY <1>0, ForgetFacts
<1> HIDE DEF q
<1>4. /\ r \in TableType /\ Positions(r) = Positions(q)
      /\ r.arr = q.arr /\ r.hint = q.hint /\ r.dummy = q.dummy /\ r.last = q.last
  BY <1>1, BuriedFacts
<1>5. \A i \in Positions(q) :
        /\ KeyOf(r, i) = KeyOf(q, i) /\ r.node[i].next = q.node[i].next
        /\ r.node[i].has = q.node[i].has
        /\ q.node[i].dead => r.node[i].dead
        /\ r.node[i].dead => q.node[i].dead \/ (~q.node[i].has /\ KeyOf(q, i) \in Others)
  BY <1>1, BuriedFacts
<1> HIDE DEF r
<1>6. SameSlots(s, r)
  BY <1>1, <1>3, <1>4, <1>5 DEF SameSlots
<1>7. \A i \in 1..Len(s.arr) : r.arr[i] <=> s.arr[i] /\ i \notin K
  BY <1>2, <1>4
<1>8. \A i \in Positions(s) : r.node[i].has <=> s.node[i].has /\ KeyOf(s, i) \notin K
  BY <1>1, <1>3, <1>5
<1>9. ArrayFits(r)
  <2>1. DOMAIN s.arr = 1..Len(s.arr) /\ DOMAIN r.arr = 1..Len(s.arr)
    BY <1>0, <1>1, <1>4, ArrayKeysAre
  <2> QED BY <1>0, <1>1, <1>4, <1>7, <2>1 DEF ArrayFits
<1>10. NIL \notin Others
  BY TableAssumption DEF Keys
<1>11. ASSUME NEW i \in Positions(s)
       PROVE  /\ s.node[i].dead => r.node[i].dead
              /\ r.node[i].dead => ~r.node[i].has
              /\ KeyOf(s, i) = NIL => ~r.node[i].has /\ ~r.node[i].dead
  <2>1. s.node[i].dead => ~s.node[i].has
    BY <1>0 DEF Chains, OnceAlive
  <2>2. KeyOf(s, i) = NIL => ~s.node[i].has /\ ~s.node[i].dead
    BY <1>0 DEF Chains, FreeAreFree
  <2>3. q.node[i].dead = s.node[i].dead /\ KeyOf(q, i) = KeyOf(s, i) /\ i \in Positions(q)
    BY <1>1, <1>3
  <2>4. /\ q.node[i].dead => r.node[i].dead
        /\ r.node[i].dead => q.node[i].dead \/ (~r.node[i].has /\ KeyOf(q, i) \in Others)
    BY <1>5, <2>3
  <2> QED BY <1>8, <1>10, <2>1, <2>2, <2>3, <2>4
<1>12. TableFits(r)
  BY <1>1, <1>4, <1>6, <1>9, <1>11, SlotsFit
<1>13. \A x : x \in ArrayKeys(r) <=> x \in ArrayKeys(s) /\ x \notin K
  <2> TAKE x
  <2>1. x \in ArrayKeys(r) <=> x \in Small(Len(s.arr)) /\ r.arr[x]
    BY <1>1, <1>4, ArrayKeysAre
  <2>2. x \in ArrayKeys(s) <=> x \in Small(Len(s.arr)) /\ s.arr[x]
    BY <1>0, ArrayKeysAre
  <2>3. x \in Small(Len(s.arr)) => x \in 1..Len(s.arr)
    BY <1>0, ArrayKeysAre
  <2> QED BY <1>7, <2>1, <2>2, <2>3
<1>14. \A x : x \in HashKeys(r) <=> x \in HashKeys(s) /\ x \notin K
  <2> TAKE x
  <2>1. x \in HashKeys(r) <=> \E i \in Positions(s) : r.node[i].has /\ KeyOf(r, i) = x
    BY <1>1, <1>4, HashKeysAre
  <2>2. x \in HashKeys(s) <=> \E i \in Positions(s) : s.node[i].has /\ KeyOf(s, i) = x
    BY HashKeysAre
  <2> QED BY <1>6, <1>8, <2>1, <2>2 DEF SameSlots
<1>15. Entries(r) = ArrayKeys(r) \cup HashKeys(r)
  BY <1>12, EntriesAre
<1>16. Entries(s) = ArrayKeys(s) \cup HashKeys(s)
  BY EntriesAre
<1>17. Entries(r) = Entries(s) \ K
  BY <1>13, <1>14, <1>15, <1>16
<1> QED BY <1>6, <1>12, <1>17 DEF r, q

(*--------------------------------- length -------------------------------*)

\* One halving of an interval between a present and an absent index.
Halved(s, r) ==
  LET m == (r[1] + r[2]) \div 2
  IN  IF r[2] - r[1] <= 1 THEN r
      ELSE IF HasInt(s, m) THEN <<m, r[2]>> ELSE <<r[1], m>>

Present(s, i) == i = 0 \/ HasInt(s, i)

\* A halving keeps a border between its ends, and comes closer to it.
LEMMA HalvedFacts ==
  ASSUME NEW s, NEW r \in Nat \X Nat, r[1] < r[2],
         Present(s, r[1]), ~HasInt(s, r[2])
  PROVE  LET h == Halved(s, r)
         IN  /\ h \in Nat \X Nat /\ h[1] < h[2] /\ h[2] <= r[2]
             /\ Present(s, h[1]) /\ ~HasInt(s, h[2])
             /\ h[2] - h[1] <= 1 \/ h[2] - h[1] <= r[2] - r[1] - 1
<1> DEFINE m == (r[1] + r[2]) \div 2
<1>1. r[1] \in Nat /\ r[2] \in Nat
  OBVIOUS
<1>2. r[2] - r[1] > 1 => m \in Nat /\ r[1] < m /\ m < r[2]
  BY <1>1
<1>3. Halved(s, r) = IF r[2] - r[1] <= 1 THEN r
                     ELSE IF HasInt(s, m) THEN <<m, r[2]>> ELSE <<r[1], m>>
  BY DEF Halved
<1> HIDE DEF m
<1>4. CASE r[2] - r[1] <= 1
  <2>1. Halved(s, r) = r
    BY <1>3, <1>4
  <2> QED BY <1>1, <1>4, <2>1
<1>5. CASE ~(r[2] - r[1] <= 1) /\ HasInt(s, m)
  <2>1. Halved(s, r) = <<m, r[2]>>
    BY <1>3, <1>5
  <2>2. m \in Nat /\ r[1] < m /\ m < r[2]
    BY <1>1, <1>2, <1>5
  <2> QED BY <1>1, <1>5, <2>1, <2>2 DEF Present
<1>6. CASE ~(r[2] - r[1] <= 1) /\ ~HasInt(s, m)
  <2>1. Halved(s, r) = <<r[1], m>>
    BY <1>3, <1>6
  <2>2. m \in Nat /\ r[1] < m /\ m < r[2]
    BY <1>1, <1>2, <1>6
  <2> QED BY <1>1, <1>6, <2>1, <2>2
<1> QED BY <1>4, <1>5, <1>6

\* A step of G that stays in V, done N times.
Iterated(N, v0, G, f) == [n \in 0..N |-> IF n = 0 THEN v0 ELSE G[f[n - 1]]]

\* A step that stays in V can be done N times.
LEMMA IterationExists ==
  ASSUME NEW N \in Nat, NEW V, NEW v0 \in V, NEW G \in [V -> V]
  PROVE  \E f \in [0..N -> V] : f = Iterated(N, v0, G, f)
<1> DEFINE H == [p \in (1..N) \X V |-> G[p[2]]]
<1>1. H \in [(1..N) \X V -> V]
  OBVIOUS
<1>2. \E f \in [0..N -> V] : Recursive(f, N, v0, H)
  <2> HIDE DEF H
  <2> QED BY <1>1, RecursiveFunction
<1>3. PICK f \in [0..N -> V] : Recursive(f, N, v0, H)
  BY <1>2
<1>4. ASSUME NEW n \in 0..N PROVE f[n] = Iterated(N, v0, G, f)[n]
  <2>1. CASE n = 0
    BY <2>1, <1>3 DEF Recursive, Iterated
  <2>2. CASE n \in 1..N
    <3>1. f[n - 1] \in V /\ <<n, f[n - 1]>> \in (1..N) \X V /\ n # 0
      BY <2>2
    <3>2. f[n] = H[<<n, f[n - 1]>>]
      BY <2>2, <1>3 DEF Recursive
    <3>3. f[n] = G[f[n - 1]]
      BY <3>1, <3>2
    <3> HIDE DEF H
    <3> QED BY <3>1, <3>3 DEF Iterated
  <2> QED BY <2>1, <2>2
<1>5. f = [n \in 0..N |-> f[n]]
  OBVIOUS
<1>6. Iterated(N, v0, G, f) = [n \in 0..N |-> Iterated(N, v0, G, f)[n]]
  BY DEF Iterated
<1> QED BY <1>4, <1>5, <1>6

\* The binary search ends at a border below its upper end.
LEMMA BinSearchFacts ==
  ASSUME NEW s, NEW low \in Nat, NEW high \in Nat, low < high,
         Present(s, low), ~HasInt(s, high)
  PROVE  LET b == BinSearch(s, low, high)
         IN  b \in Nat /\ b < high /\ Present(s, b) /\ ~HasInt(s, b + 1)
<1> DEFINE N == high - low
           V == {r \in Nat \X Nat : /\ r[1] < r[2] /\ r[2] <= high
                                    /\ Present(s, r[1]) /\ ~HasInt(s, r[2])}
           v0 == <<low, high>>
           Rec(f) == [n \in 0..N |->
                       IF n = 0 THEN <<low, high>>
                       ELSE LET r == f[n - 1]
                                m == (r[1] + r[2]) \div 2
                            IN  IF r[2] - r[1] <= 1 THEN r
                                ELSE IF HasInt(s, m) THEN <<m, r[2]>> ELSE <<r[1], m>>]
           g == CHOOSE f : f = Rec(f)
           G == [r \in V |-> Halved(s, r)]
<1>1. N \in Nat /\ N >= 1 /\ v0 \in V
  OBVIOUS
<1>2. BinSearch(s, low, high) = g[N][1]
  BY Zenon DEF BinSearch
<1>3. \A f : Rec(f) = [n \in 0..N |-> IF n = 0 THEN v0 ELSE Halved(s, f[n - 1])]
  BY DEF Halved
<1>4. ASSUME NEW r \in V
      PROVE  /\ Halved(s, r) \in V
             /\ \/ Halved(s, r)[2] - Halved(s, r)[1] <= 1
                \/ Halved(s, r)[2] - Halved(s, r)[1] <= r[2] - r[1] - 1
  <2> DEFINE h == Halved(s, r)
  <2>1. /\ h \in Nat \X Nat /\ h[1] < h[2] /\ h[2] <= r[2]
        /\ Present(s, h[1]) /\ ~HasInt(s, h[2])
        /\ h[2] - h[1] <= 1 \/ h[2] - h[1] <= r[2] - r[1] - 1
    BY HalvedFacts
  <2>2. r[2] <= high /\ r[2] \in Nat /\ h[2] \in Nat
    BY <2>1
  <2> HIDE DEF h
  <2>3. h \in V
    BY <2>1, <2>2
  <2> QED BY <2>1, <2>3 DEF h
<1>5. G \in [V -> V] /\ \A r \in V : G[r] = Halved(s, r)
  BY <1>4
<1> HIDE DEF Rec, G
<1>6. \E f : f = Rec(f)
  <2>1. PICK f \in [0..N -> V] : f = Iterated(N, v0, G, f)
    <3>1. G \in [V -> V] /\ N \in Nat /\ v0 \in V
      BY <1>1, <1>5
    <3> HIDE DEF V, v0, N
    <3> QED BY <3>1, IterationExists, SMTT(30)
  <2>2. \A n \in 0..N : n # 0 => f[n - 1] \in V
    BY <1>1
  <2> HIDE DEF V, N, v0
  <2>3. Iterated(N, v0, G, f) = Rec(f)
    BY <1>3, <1>5, <2>2 DEF Iterated
  <2> QED BY <2>1, <2>3
<1>7. g = Rec(g)
  BY <1>6, Zenon
<1> HIDE DEF g
<1>8. g[0] = v0 /\ \A n \in 0..(N - 1) : g[n + 1] = Halved(s, g[n])
  BY <1>1, <1>3, <1>7
<1> DEFINE Width(r) == r[2] - r[1]
           S == {n \in 0..N : g[n] \in V /\ (Width(g[n]) <= 1 \/ Width(g[n]) <= N - n)}
<1>9. 0 \in S
  BY <1>1, <1>8
<1>10. ASSUME NEW n \in 0..(N - 1), n \in S PROVE n + 1 \in S
  <2> DEFINE r == g[n]
             h == g[n + 1]
  <2>1. r \in V /\ (Width(r) <= 1 \/ Width(r) <= N - n) /\ h = Halved(s, r)
    BY <1>8, <1>10
  <2>2. h \in V /\ (Width(h) <= 1 \/ Width(h) <= Width(r) - 1)
    BY <1>4, <2>1
  <2>3. r[1] \in Nat /\ r[2] \in Nat /\ h[1] \in Nat /\ h[2] \in Nat /\ h[1] < h[2] /\ r[1] < r[2]
    BY <2>1, <2>2
  <2>4. Width(h) <= 1 \/ Width(h) <= N - (n + 1)
    <3> HIDE DEF r, h, V
    <3> QED BY <1>1, <2>1, <2>2, <2>3
  <2> QED BY <1>1, <2>2, <2>4
<1>11. N \in S
  <2> HIDE DEF S, N
  <2>1. 0..N \subseteq S
    BY <1>1, <1>9, <1>10, BoundedInduction
  <2> QED BY <1>1, <2>1
<1>12. PICK r \in V : r = g[N] /\ r[2] - r[1] <= 1
  BY <1>1, <1>11
<1>13. r[1] \in Nat /\ r[2] = r[1] + 1 /\ r[1] < high
  BY <1>12
<1> QED BY <1>2, <1>12, <1>13

\* One probe of hash_search.
Probed(s, at) ==
  IF at.border # NIL \/ ~HasInt(s, at.j) THEN at
  ELSE IF at.j <= (MAXINT \div 2) - 1
  THEN [at EXCEPT !.i = at.j, !.j = 2 * at.j + (at.rnd % 2), !.rnd = @ \div 2]
  ELSE IF HasInt(s, MAXINT) THEN [at EXCEPT !.border = MAXINT]
  ELSE [at EXCEPT !.i = at.j, !.j = MAXINT]

ProbeType == [i : Nat, j : Nat, rnd : Nat, border : {NIL, MAXINT}]
Probes(s) ==
  {at \in ProbeType : /\ at.i < at.j /\ HasInt(s, at.i)
                      /\ at.border # NIL => HasInt(s, MAXINT)}
Settled(s, at) == at.border # NIL \/ ~HasInt(s, at.j)

\* A probe goes on from a present index, and ends or goes higher.
LEMMA ProbedFacts ==
  ASSUME NEW s, NEW at \in Probes(s)
  PROVE  LET h == Probed(s, at)
         IN  /\ h \in Probes(s)
             /\ Settled(s, h) \/ h.j >= at.j + 1
<1> DEFINE h == Probed(s, at)
<1>1. /\ at \in ProbeType /\ at.i < at.j /\ HasInt(s, at.i)
      /\ at.border # NIL => HasInt(s, MAXINT)
  BY DEF Probes
<1>2. at.i \in Nat /\ at.j \in Nat /\ at.rnd \in Nat /\ at.border \in {NIL, MAXINT}
  BY <1>1 DEF ProbeType
<1>3. MAXINT \in Nat /\ MAXINT # NIL
  BY TableAssumption
<1>4. \A i : HasInt(s, i) => i \in Nat /\ 1 <= i /\ i <= MAXINT
  BY IntKeysAre DEF HasInt
<1>5. CASE at.border # NIL \/ ~HasInt(s, at.j)
  BY <1>5 DEF Probed, Settled
<1>6. CASE /\ ~(at.border # NIL \/ ~HasInt(s, at.j))
           /\ at.j <= (MAXINT \div 2) - 1
  <2> DEFINE bit == at.rnd % 2
             rnd == at.rnd \div 2
             jj == 2 * at.j + bit
  <2>1. bit \in Nat /\ rnd \in Nat /\ jj \in Nat
    BY <1>2
  <2>2. h = [at EXCEPT !.i = at.j, !.j = jj, !.rnd = rnd]
    <3>1. h = [at EXCEPT !.i = at.j, !.j = 2 * at.j + (at.rnd % 2), !.rnd = @ \div 2]
      BY <1>6 DEF Probed
    <3> QED BY <1>1, <3>1 DEF ProbeType
  <2>3. jj >= at.j + 1 /\ HasInt(s, at.j)
    <3>1. at.j >= 1 /\ HasInt(s, at.j)
      BY <1>4, <1>6
    <3> HIDE DEF bit
    <3> QED BY <1>2, <2>1, <3>1
  <2> HIDE DEF h, jj, rnd, bit
  <2>4. h \in ProbeType /\ h.i = at.j /\ h.j = jj /\ h.border = at.border
    BY <1>1, <1>2, <2>1, <2>2 DEF ProbeType
  <2>5. h \in Probes(s)
    BY <1>1, <1>2, <2>1, <2>3, <2>4 DEF Probes
  <2> QED BY <2>3, <2>4, <2>5 DEF h
<1>7. CASE /\ ~(at.border # NIL \/ ~HasInt(s, at.j))
           /\ ~(at.j <= (MAXINT \div 2) - 1) /\ HasInt(s, MAXINT)
  <2>1. h = [at EXCEPT !.border = MAXINT]
    BY <1>7 DEF Probed
  <2> HIDE DEF h
  <2>2. h \in ProbeType /\ h.i = at.i /\ h.j = at.j /\ h.border = MAXINT
    BY <1>1, <2>1 DEF ProbeType
  <2>3. h \in Probes(s)
    BY <1>1, <1>7, <2>2 DEF Probes
  <2> QED BY <1>3, <2>2, <2>3 DEF Settled, h
<1>8. CASE /\ ~(at.border # NIL \/ ~HasInt(s, at.j))
           /\ ~(at.j <= (MAXINT \div 2) - 1) /\ ~HasInt(s, MAXINT)
  <2>1. h = [at EXCEPT !.i = at.j, !.j = MAXINT]
    BY <1>8 DEF Probed
  <2> HIDE DEF h
  <2>2. h \in ProbeType /\ h.i = at.j /\ h.j = MAXINT /\ h.border = at.border
    BY <1>1, <1>2, <1>3, <2>1 DEF ProbeType
  <2>3. HasInt(s, at.j) /\ at.j <= MAXINT /\ at.j # MAXINT
    BY <1>4, <1>8
  <2>4. h \in Probes(s)
    BY <1>1, <1>2, <1>3, <2>2, <2>3 DEF Probes
  <2> QED BY <1>8, <2>2, <2>4 DEF Settled, h
<1> QED BY <1>5, <1>6, <1>7, <1>8

\* A probe that ended stays.
LEMMA SettledStays ==
  ASSUME NEW s, NEW at, Settled(s, at)
  PROVE  Probed(s, at) = at
BY DEF Probed, Settled

\* From a present index past the array, the probes and the binary search of
\* hash_search end at a border.
LEMMA HashSearchFacts ==
  ASSUME NEW s, NEW asize \in Nat, HasInt(s, asize + 1), NEW rnd \in Nat
  PROVE  LET b == HashSearch(s, asize, rnd)
         IN  b \in Nat /\ Present(s, b) /\ (b = MAXINT \/ ~HasInt(s, b + 1))
<1> DEFINE i0 == asize + 1
           n0 == IF asize > 0 THEN CeilLog2(asize) ELSE 0
           incr == (rnd % TwoTo(n0)) + 1
           j0 == IF incr <= MAXINT - i0 THEN i0 + incr ELSE i0 + 1
           v0 == [i |-> i0, j |-> j0, rnd |-> rnd \div TwoTo(n0), border |-> NIL]
           V == Probes(s)
           N == MAXINT
           Rec(f) == [m \in 0..MAXINT |->
             IF m = 0 THEN [i |-> i0, j |-> j0, rnd |-> rnd \div TwoTo(n0), border |-> NIL]
             ELSE LET at == f[m - 1]
                  IN  IF at.border # NIL \/ ~HasInt(s, at.j) THEN at
                      ELSE IF at.j <= (MAXINT \div 2) - 1
                      THEN [at EXCEPT !.i = at.j, !.j = 2 * at.j + (at.rnd % 2),
                                      !.rnd = @ \div 2]
                      ELSE IF HasInt(s, MAXINT) THEN [at EXCEPT !.border = MAXINT]
                      ELSE [at EXCEPT !.i = at.j, !.j = MAXINT]]
           g == CHOOSE f : f = Rec(f)
           end == g[MAXINT]
           G == [at \in V |-> Probed(s, at)]
<1>1. HashSearch(s, asize, rnd)
        = IF end.border # NIL THEN end.border ELSE BinSearch(s, end.i, end.j)
  BY Zenon DEF HashSearch
<1>2. N \in Nat /\ MAXINT # NIL
  BY TableAssumption
<1>3. v0 \in V /\ j0 >= 1
  <2>1. TwoTo(n0) \in Nat \ {0}
    <3>1. n0 \in Nat
      BY CeilLog2Facts
    <3> HIDE DEF n0
    <3> QED BY <3>1, TwoToFacts
  <2>2. \A a \in Nat, b \in Nat \ {0} : a % b \in Nat /\ a \div b \in Nat
    OBVIOUS
  <2>3. rnd % TwoTo(n0) \in Nat /\ rnd \div TwoTo(n0) \in Nat
    BY <2>1, <2>2
  <2>4. i0 \in Nat /\ j0 \in Nat /\ i0 < j0 /\ j0 >= 1
    BY <1>2, <2>3
  <2>5. v0 \in ProbeType
    BY <2>3, <2>4 DEF ProbeType
  <2> HIDE DEF j0, incr, n0
  <2> QED BY <2>4, <2>5 DEF Probes
<1>4. \A f : Rec(f) = [n \in 0..N |-> IF n = 0 THEN v0 ELSE Probed(s, f[n - 1])]
  BY DEF Probed
<1>5. G \in [V -> V] /\ \A at \in V : G[at] = Probed(s, at)
  BY ProbedFacts
<1>6. v0.j = j0
  OBVIOUS
<1>7. HashSearch(s, asize, rnd)
        = IF g[N].border # NIL THEN g[N].border ELSE BinSearch(s, g[N].i, g[N].j)
  BY <1>1
<1> HIDE DEF Rec, G, v0, j0, V, N
<1>8. \E f : f = Rec(f)
  <2>1. PICK f \in [0..N -> V] : f = Iterated(N, v0, G, f)
    <3>1. G \in [V -> V]
      BY <1>5
    <3> QED BY <1>2, <1>3, <3>1, IterationExists, SMTT(30)
  <2>2. \A n \in 0..N : n # 0 => f[n - 1] \in V
    BY <1>2
  <2>3. Iterated(N, v0, G, f) = Rec(f)
    BY <1>4, <1>5, <2>2 DEF Iterated
  <2> QED BY <2>1, <2>3
<1>9. g = Rec(g)
  BY <1>8, Zenon
<1> HIDE DEF g
<1>10. g[0] = v0 /\ \A n \in 0..(N - 1) : g[n + 1] = Probed(s, g[n])
  BY <1>2, <1>4, <1>9
<1> DEFINE S == {n \in 0..N : g[n] \in V /\ (Settled(s, g[n]) \/ g[n].j >= n + 1)}
<1>11. 0 \in S
  BY <1>2, <1>3, <1>6, <1>10
<1>12. ASSUME NEW n \in 0..(N - 1), n \in S PROVE n + 1 \in S
  <2> DEFINE r == g[n]
             h == g[n + 1]
  <2>1. r \in V /\ (Settled(s, r) \/ r.j >= n + 1) /\ h = Probed(s, r)
    BY <1>10, <1>12
  <2>2. h \in V /\ (Settled(s, h) \/ h.j >= r.j + 1)
    BY <2>1, ProbedFacts DEF V
  <2>3. r.j \in Nat /\ h.j \in Nat
    BY <2>1, <2>2 DEF V, Probes, ProbeType
  <2>4. Settled(s, r) => Settled(s, h)
    BY <2>1, SettledStays
  <2>5. Settled(s, h) \/ h.j >= (n + 1) + 1
    <3> HIDE DEF r, h
    <3> QED BY <1>2, <2>1, <2>2, <2>3, <2>4
  <2> QED BY <1>2, <2>2, <2>5
<1>13. N \in S
  <2> HIDE DEF S
  <2>1. 0..N \subseteq S
    BY <1>2, <1>11, <1>12, BoundedInduction
  <2> QED BY <1>2, <2>1
<1> DEFINE at == g[N]
<1>14. at \in V /\ Settled(s, at)
  <2>1. at \in V /\ (Settled(s, at) \/ at.j >= N + 1)
    BY <1>13
  <2>2. at.j \in Nat
    BY <2>1 DEF V, Probes, ProbeType
  <2>3. at.j >= N + 1 => ~HasInt(s, at.j)
    BY <2>2, IntKeysAre DEF HasInt, N
  <2> QED BY <2>1, <2>3 DEF Settled
<1>15. /\ at.i \in Nat /\ at.j \in Nat /\ at.i < at.j /\ Present(s, at.i)
       /\ at.border # NIL => at.border = MAXINT /\ HasInt(s, MAXINT)
  BY <1>14 DEF V, Probes, ProbeType, Present
<1> HIDE DEF at
<1>16. CASE at.border # NIL
  <2>1. HashSearch(s, asize, rnd) = MAXINT
    BY <1>7, <1>15, <1>16 DEF at
  <2> QED BY <1>2, <1>15, <1>16, <2>1 DEF Present, N
<1>17. CASE at.border = NIL
  <2>1. HashSearch(s, asize, rnd) = BinSearch(s, at.i, at.j)
    BY <1>7, <1>17 DEF at
  <2>2. ~HasInt(s, at.j)
    BY <1>14, <1>17 DEF Settled
  <2> QED BY <1>15, <2>1, <2>2, BinSearchFacts
<1> QED BY <1>16, <1>17

\* In the array, HasInt is the flag; without a hash part, there is no more.
LEMMA HasIntFacts ==
  ASSUME NEW s, TableFits(s)
  PROVE  /\ \A i \in 1..Len(s.arr) : HasInt(s, i) <=> s.arr[i]
         /\ s.dummy => ~HasInt(s, Len(s.arr) + 1)
<1>0. s \in TableType /\ ArrayFits(s) /\ Chains(s)
  BY DEF TableFits
<1>1. Len(s.arr) \in Nat /\ DOMAIN s.arr = 1..Len(s.arr)
  BY <1>0, ArrayKeysAre
<1>2. ASSUME NEW i \in 1..Len(s.arr) PROVE HasInt(s, i) <=> s.arr[i]
  <2>1. i \in IntKeys => InArray(s, i)
    BY <1>1 DEF InArray
  <2>2. i \in IntKeys => (Has(s, i) <=> s.arr[i])
    BY <2>1 DEF Has
  <2>3. s.arr[i] => i \in IntKeys
    BY <1>0, <1>1 DEF ArrayFits
  <2> QED BY <2>2, <2>3 DEF HasInt
<1>3. ASSUME s.dummy PROVE ~HasInt(s, Len(s.arr) + 1)
  <2> DEFINE k == Len(s.arr) + 1
  <2> SUFFICES ASSUME k \in IntKeys, Has(s, k) PROVE FALSE
    BY DEF HasInt
  <2>1. k \in Keys /\ ~InArray(s, k)
    BY <1>1 DEF InArray, Keys
  <2>2. k \in HashKeys(s)
    BY <1>0, <2>1, HasFacts
  <2>3. PICK i \in Positions(s) : s.node[i].has /\ KeyOf(s, i) = k
    BY <2>2, HashKeysAre
  <2>4. KeyOf(s, i) # NIL
    BY <2>1, <2>3, TableAssumption
  <2> QED BY <1>0, <1>3, <2>4 DEF Chains, AtHome
<1> QED BY <1>2, <1>3

\* luaH_getn finds a border, and a hint within the array.
LEMMA GetNFacts ==
  ASSUME NEW s, TableFits(s), NEW rnd \in Nat
  PROVE  LET r == GetN(s, rnd)
         IN  /\ Present(s, r.border) /\ (r.border = MAXINT \/ ~HasInt(s, r.border + 1))
             /\ r.hint \in Nat /\ (r.hint <= Len(s.arr) \/ Len(s.arr) = 0)
<1> DEFINE asize == Len(s.arr)
           limit == IF s.hint = 0 THEN 1 ELSE s.hint
           below == { i \in 1..(limit - 1) : limit - i <= MaxVicinity /\ s.arr[i] }
           above == { i \in (limit + 1)..asize : i - limit <= MaxVicinity /\ ~s.arr[i] }
           inarray ==
             IF ~s.arr[limit]
             THEN IF below # {} THEN Max(below) ELSE BinSearch(s, 0, limit)
             ELSE IF above # {} THEN Min(above) - 1
             ELSE IF ~s.arr[asize] THEN BinSearch(s, limit, asize) ELSE NIL
           inhash == IF s.dummy \/ ~HasInt(s, asize + 1) THEN asize
                     ELSE HashSearch(s, asize, rnd)
           Border(b) == b \in Nat /\ Present(s, b) /\ (b = MAXINT \/ ~HasInt(s, b + 1))
           r == GetN(s, rnd)
<1>0. s \in TableType /\ ArrayFits(s) /\ s.hint \in Nat /\ NIL \notin Nat
  BY TableAssumption DEF TableFits, TableType
<1>1. asize \in Nat /\ (s.hint <= asize \/ asize = 0)
  BY <1>0, ArrayKeysAre DEF ArrayFits
<1>2. \A i \in 1..asize : HasInt(s, i) <=> s.arr[i]
  BY HasIntFacts
<1>3. r = IF asize = 0 THEN [border |-> inhash, hint |-> s.hint]
          ELSE IF inarray # NIL THEN [border |-> inarray, hint |-> inarray]
          ELSE [border |-> inhash, hint |-> asize]
  BY DEF GetN
<1>4. MaxVicinity \in Nat
  BY TableAssumption
<1> HIDE DEF r, asize
<1>5. asize = 0 \/ HasInt(s, asize) => Border(inhash)
  <2> HAVE asize = 0 \/ HasInt(s, asize)
  <2>1. CASE s.dummy \/ ~HasInt(s, asize + 1)
    <3>1. ~HasInt(s, asize + 1)
      BY <2>1, HasIntFacts DEF asize
    <3> QED BY <1>1, <2>1, <3>1 DEF Present
  <2>2. CASE ~(s.dummy \/ ~HasInt(s, asize + 1))
    <3>1. inhash = HashSearch(s, asize, rnd)
      BY <2>2
    <3> HIDE DEF inhash
    <3> QED BY <1>1, <2>2, <3>1, HashSearchFacts
  <2> QED BY <2>1, <2>2
<1> HIDE DEF inhash
<1>6. CASE asize = 0
  BY <1>0, <1>3, <1>5, <1>6 DEF asize, r
<1>7. CASE asize # 0
  <2>0. limit \in 1..asize /\ limit \in Nat
    BY <1>0, <1>1, <1>7
  <2> HIDE DEF limit
  <2>1. CASE ~s.arr[limit]
    <3>0. ~HasInt(s, limit)
      BY <1>2, <2>0, <2>1
    <3>1. CASE below # {}
      <4> DEFINE b == Max(below)
      <4>1. below \in SUBSET (0..limit)
        BY <2>0
      <4>2. b \in below /\ \A i \in below : b >= i
        <5> HIDE DEF below
        <5> QED BY <2>0, <3>1, <4>1, MaxIsGreatest
      <4> HIDE DEF b
      <4>3. b \in 1..(limit - 1) /\ limit - b <= MaxVicinity /\ s.arr[b]
        BY <4>2
      <4>4. b \in Nat /\ b \in 1..asize /\ HasInt(s, b)
        BY <1>1, <1>2, <2>0, <4>3
      <4>5. ~HasInt(s, b + 1)
        <5>1. CASE b + 1 = limit
          BY <3>0, <5>1
        <5>2. CASE b + 1 # limit
          <6>1. b + 1 \in 1..(limit - 1) /\ limit - (b + 1) <= MaxVicinity /\ ~(b >= b + 1)
            BY <1>4, <2>0, <4>3, <4>4, <5>2
          <6>2. b + 1 \notin below
            BY <4>2, <6>1
          <6>3. ~s.arr[b + 1]
            BY <6>1, <6>2
          <6>4. b + 1 \in 1..asize
            BY <1>1, <2>0, <6>1
          <6> QED BY <1>2, <6>3, <6>4
        <5> QED BY <5>1, <5>2
      <4>6. inarray = b
        BY <2>1, <3>1 DEF b
      <4> HIDE DEF inarray, below
      <4>7. r = [border |-> b, hint |-> b]
        BY <1>0, <1>3, <1>7, <4>4, <4>6
      <4>8. b <= asize
        BY <1>1, <4>4
      <4> QED BY <4>4, <4>5, <4>7, <4>8 DEF Present, asize, r
    <3>2. CASE below = {}
      <4> DEFINE b == BinSearch(s, 0, limit)
      <4>1. inarray = b
        BY <2>1, <3>2
      <4>2. Present(s, 0) /\ 0 < limit
        BY <2>0 DEF Present
      <4>3. b \in Nat /\ b < limit /\ Present(s, b) /\ ~HasInt(s, b + 1)
        BY <2>0, <3>0, <4>2, BinSearchFacts
      <4> HIDE DEF inarray, below, b
      <4>4. r = [border |-> b, hint |-> b] /\ b <= asize
        BY <1>0, <1>1, <1>3, <1>7, <2>0, <4>1, <4>3
      <4> QED BY <4>3, <4>4 DEF asize, r
    <3> QED BY <3>1, <3>2
  <2>2. CASE s.arr[limit]
    <3>0. HasInt(s, limit) /\ Present(s, limit)
      BY <1>2, <2>0, <2>2 DEF Present
    <3>1. CASE above # {}
      <4> DEFINE b == Min(above)
      <4>1. above \in SUBSET Nat
        BY <1>1, <2>0
      <4>2. b \in above /\ \A i \in above : b <= i
        <5> HIDE DEF above
        <5> QED BY <3>1, <4>1, MinIsLeast
      <4> HIDE DEF b
      <4>3. b \in (limit + 1)..asize /\ b - limit <= MaxVicinity /\ ~s.arr[b]
        BY <4>2
      <4>4. /\ b \in Nat /\ b \in 1..asize /\ b - 1 \in Nat /\ b - 1 <= asize
            /\ (b - 1) + 1 = b
        BY <1>1, <2>0, <4>3
      <4>5. ~HasInt(s, b)
        BY <1>2, <4>3, <4>4
      <4>6. HasInt(s, b - 1)
        <5>1. CASE b - 1 = limit
          BY <3>0, <5>1
        <5>2. CASE b - 1 # limit
          <6>1. /\ b - 1 \in (limit + 1)..asize /\ (b - 1) - limit <= MaxVicinity
                /\ ~(b <= b - 1)
            BY <1>1, <1>4, <2>0, <4>3, <4>4, <5>2
          <6>2. b - 1 \notin above
            BY <4>2, <6>1
          <6>3. s.arr[b - 1]
            BY <6>1, <6>2
          <6>4. b - 1 \in 1..asize
            BY <1>1, <2>0, <6>1
          <6> QED BY <1>2, <6>3, <6>4
        <5> QED BY <5>1, <5>2
      <4>7. inarray = b - 1
        BY <2>2, <3>1 DEF b
      <4> HIDE DEF inarray, above
      <4>8. r = [border |-> b - 1, hint |-> b - 1]
        BY <1>0, <1>3, <1>7, <4>4, <4>7
      <4> QED BY <4>4, <4>5, <4>6, <4>8 DEF Present, asize, r
    <3>2. CASE above = {} /\ ~s.arr[asize]
      <4> DEFINE b == BinSearch(s, limit, asize)
      <4>1. inarray = b
        BY <2>2, <3>2
      <4>2. limit < asize /\ ~HasInt(s, asize)
        BY <1>1, <1>2, <1>7, <2>0, <2>2, <3>2
      <4>3. b \in Nat /\ b < asize /\ Present(s, b) /\ ~HasInt(s, b + 1)
        BY <1>1, <2>0, <3>0, <4>2, BinSearchFacts
      <4> HIDE DEF inarray, above, b
      <4>4. r = [border |-> b, hint |-> b] /\ b <= asize
        BY <1>0, <1>1, <1>3, <1>7, <4>1, <4>3
      <4> QED BY <4>3, <4>4 DEF asize, r
    <3>3. CASE above = {} /\ s.arr[asize]
      <4>1. inarray = NIL
        BY <2>2, <3>3
      <4>2. HasInt(s, asize)
        BY <1>1, <1>2, <1>7, <3>3
      <4> HIDE DEF inarray
      <4>3. r = [border |-> inhash, hint |-> asize]
        BY <1>3, <1>7, <4>1
      <4> QED BY <1>1, <1>5, <4>2, <4>3 DEF asize, r
    <3> QED BY <3>1, <3>2, <3>3
  <2> QED BY <2>1, <2>2
<1> QED BY <1>6, <1>7

(*------------------------------- traversal ------------------------------*)

\* The places of a traversal: the array, then the nodes.
KeyAt(s, i) == IF i <= Len(s.arr) THEN i ELSE s.node[i - Len(s.arr) - 1].key
HasAt(s, i) == IF i <= Len(s.arr) THEN s.arr[i] ELSE s.node[i - Len(s.arr) - 1].has
Places(s) == 1..(Len(s.arr) + SizeNode(s))

\* A place with a value is that of its key.
LEMMA PlaceOfKey ==
  ASSUME NEW s, TableFits(s), NEW i \in Places(s), HasAt(s, i)
  PROVE  KeyAt(s, i) \in Entries(s) /\ FindIndex(s, KeyAt(s, i)) = i
<1>0. /\ s \in TableType /\ ArrayFits(s) /\ Chains(s) /\ Apart(s)
      /\ Entries(s) = ArrayKeys(s) \cup HashKeys(s)
  BY EntriesAre DEF TableFits
<1>1. Len(s.arr) \in Nat /\ DOMAIN s.arr = 1..Len(s.arr)
  BY <1>0, ArrayKeysAre
<1>2. PICK N \in Nat \ {0} : Positions(s) = 0..(N - 1) /\ SizeNode(s) = N
  BY <1>0, VectorFacts
<1>3. i \in Nat /\ 1 <= i /\ i <= Len(s.arr) + N
  BY <1>1, <1>2 DEF Places
<1>4. CASE i <= Len(s.arr)
  <2>1. s.arr[i] /\ KeyAt(s, i) = i
    BY <1>4 DEF HasAt, KeyAt
  <2>2. i \in IntKeys
    BY <1>0, <1>1, <1>3, <1>4, <2>1 DEF ArrayFits
  <2>3. InArray(s, i) /\ i \in ArrayKeys(s) /\ i # NIL
    BY <1>4, <2>1, <2>2, TableAssumption DEF InArray, ArrayKeys, Keys
  <2> QED BY <1>0, <2>1, <2>3 DEF FindIndex
<1>5. CASE ~(i <= Len(s.arr))
  <2> DEFINE p == i - Len(s.arr) - 1
             k == KeyOf(s, p)
  <2>1. p \in Positions(s) /\ p + 1 + Len(s.arr) = i
    BY <1>1, <1>2, <1>3, <1>5
  <2>2. s.node[p].has /\ KeyAt(s, i) = k
    BY <1>5 DEF HasAt, KeyAt, KeyOf
  <2> HIDE DEF p
  <2>3. k # NIL /\ ~s.node[p].dead
    BY <1>0, <2>1, <2>2 DEF Chains, FreeAreFree, OnceAlive
  <2>4. k \in Keys /\ k \in HashKeys(s) /\ ~InArray(s, k)
    BY <1>0, <2>1, <2>2, <2>3, HomeIsPosition, HashKeysAre DEF Apart
  <2> HIDE DEF k
  <2>5. Node(s, k, TRUE) = p
    BY <1>0, <2>1, <2>3, <2>4, NodeFacts DEF k
  <2>6. FindIndex(s, k) = p + 1 + Len(s.arr)
    BY <2>3, <2>4, <2>5 DEF FindIndex
  <2> QED BY <1>0, <2>1, <2>2, <2>4, <2>6
<1> QED BY <1>4, <1>5

\* A key with a value has a place with a value.
LEMMA KeyHasPlace ==
  ASSUME NEW s, TableFits(s), NEW k \in Entries(s)
  PROVE  LET i == FindIndex(s, k)
         IN  /\ i \in Places(s) /\ HasAt(s, i) /\ KeyAt(s, i) = k
             /\ k \in Keys /\ HasPlace(s, k)
<1> DEFINE i == FindIndex(s, k)
<1>0. /\ s \in TableType /\ ArrayFits(s) /\ Chains(s) /\ Apart(s) /\ k \in Keys
      /\ Entries(s) = ArrayKeys(s) \cup HashKeys(s) /\ k # NIL
  BY EntriesAre, TableAssumption DEF TableFits, Entries
<1>1. Len(s.arr) \in Nat /\ DOMAIN s.arr = 1..Len(s.arr)
  BY <1>0, ArrayKeysAre
<1>2. PICK N \in Nat \ {0} : Positions(s) = 0..(N - 1) /\ SizeNode(s) = N
  BY <1>0, VectorFacts
<1>3. CASE k \in ArrayKeys(s)
  <2>1. InArray(s, k) /\ s.arr[k] /\ k \in Nat /\ 1 <= k /\ k <= Len(s.arr)
    BY <1>3, IntKeysAre DEF ArrayKeys, InArray
  <2>2. i = k
    BY <1>0, <2>1 DEF FindIndex
  <2> HIDE DEF i
  <2>3. k \in Places(s)
    BY <1>1, <1>2, <2>1 DEF Places
  <2> QED BY <1>0, <2>1, <2>2, <2>3 DEF HasAt, KeyAt, HasPlace, i
<1>4. CASE k \notin ArrayKeys(s)
  <2>1. PICK p \in Positions(s) : s.node[p].has /\ KeyOf(s, p) = k
    BY <1>0, <1>4, HashKeysAre
  <2>2. ~InArray(s, k) /\ ~s.node[p].dead
    BY <1>0, <2>1 DEF Apart, Chains, OnceAlive
  <2>3. Node(s, k, TRUE) = p /\ p # NIL
    <3>1. Node(s, k, TRUE) = p
      BY <1>0, <2>1, <2>2, NodeFacts
    <3>2. p # NIL
      BY <1>0, <2>1, NodeTyped
    <3> QED BY <3>1, <3>2
  <2>4. i = p + 1 + Len(s.arr)
    BY <1>0, <2>2, <2>3 DEF FindIndex
  <2> HIDE DEF i
  <2>5. i \in Places(s) /\ ~(i <= Len(s.arr)) /\ i - Len(s.arr) - 1 = p
    BY <1>1, <1>2, <2>4 DEF Places
  <2>6. HasAt(s, i) /\ KeyAt(s, i) = k
    BY <2>1, <2>5 DEF HasAt, KeyAt, KeyOf
  <2> QED BY <1>0, <2>3, <2>5, <2>6 DEF HasPlace, i
<1> QED BY <1>3, <1>4

\* luaH_next goes to the next place with a value, or there is none.
LEMMA NextKeyFacts ==
  ASSUME NEW s, TableFits(s), NEW a \in Keys \cup {NIL}, HasPlace(s, a)
  PROVE  LET k == NextKey(s, a)
             from == FindIndex(s, a)
         IN  /\ from \in Nat
             /\ k = NIL => \A x \in Entries(s) : FindIndex(s, x) <= from
             /\ k # NIL => /\ k \in Entries(s) /\ from < FindIndex(s, k)
                           /\ \A x \in Entries(s) : \/ x = k \/ FindIndex(s, x) <= from
                                                   \/ FindIndex(s, k) < FindIndex(s, x)
<1> DEFINE k == NextKey(s, a)
           from == FindIndex(s, a)
           asize == Len(s.arr)
           key(i) == IF i <= asize THEN i ELSE s.node[i - asize - 1].key
           has(i) == IF i <= asize THEN s.arr[i] ELSE s.node[i - asize - 1].has
           after == { i \in (from + 1)..(asize + SizeNode(s)) : has(i) }
<1>0. s \in TableType /\ Chains(s)
  BY DEF TableFits
<1>1. asize \in Nat
  BY <1>0, ArrayKeysAre
<1>2. SizeNode(s) \in Nat
  <2>1. PICK N \in Nat \ {0} : SizeNode(s) = N
    BY <1>0, VectorFacts
  <2> QED BY <2>1
<1>3. from \in Nat
  <2>1. CASE a = NIL
    BY <2>1 DEF FindIndex
  <2>2. CASE InArray(s, a)
    <3>1. a \in Nat
      BY <2>2, IntKeysAre DEF InArray
    <3> QED BY <2>2, <3>1 DEF FindIndex
  <2>3. CASE a # NIL /\ ~InArray(s, a)
    <3>1. Node(s, a, TRUE) # NIL /\ a \in Keys
      BY <2>3 DEF HasPlace
    <3>2. Node(s, a, TRUE) \in Positions(s)
      BY <1>0, <3>1, NodeFacts
    <3>3. Node(s, a, TRUE) \in Nat
      BY <1>0, <3>2, NodeTyped
    <3> DEFINE p == Node(s, a, TRUE)
    <3>4. from = p + 1 + asize /\ p \in Nat
      BY <2>3, <3>3 DEF FindIndex
    <3> HIDE DEF from, asize, p
    <3> QED BY <1>1, <3>4
  <2> QED BY <2>1, <2>2, <2>3
<1>4. k = IF after = {} THEN NIL ELSE key(Min(after))
  BY DEF NextKey
<1>5. \A i : key(i) = KeyAt(s, i) /\ (i \in after <=>
               i \in (from + 1)..(asize + SizeNode(s)) /\ HasAt(s, i))
  BY DEF KeyAt, HasAt
<1>6. after \in SUBSET Nat /\ \A i \in after : i \in Places(s) /\ HasAt(s, i) /\ from < i
  <2>1. \A i \in (from + 1)..(asize + SizeNode(s)) :
           i \in Nat /\ from < i /\ i \in 1..(asize + SizeNode(s))
    BY <1>1, <1>2, <1>3
  <2>2. Places(s) = 1..(asize + SizeNode(s))
    BY DEF Places
  <2> HIDE DEF after, asize, from
  <2> QED BY <1>5, <2>1, <2>2
<1>7. ASSUME NEW x \in Entries(s), ~(FindIndex(s, x) <= from)
      PROVE  FindIndex(s, x) \in after /\ KeyAt(s, FindIndex(s, x)) = x
  <2> DEFINE i == FindIndex(s, x)
  <2>1. i \in Places(s) /\ HasAt(s, i) /\ KeyAt(s, i) = x
    BY KeyHasPlace
  <2>2. Places(s) = 1..(asize + SizeNode(s))
    BY DEF Places
  <2> HIDE DEF i, from, after, asize
  <2>3. i \in (from + 1)..(asize + SizeNode(s))
    BY <1>1, <1>2, <1>3, <1>7, <2>1, <2>2 DEF i
  <2> QED BY <1>5, <2>1, <2>3 DEF i
<1> HIDE DEF after, from, key, k
<1>8. CASE after = {}
  BY <1>3, <1>4, <1>7, <1>8 DEF k, from
<1>9. CASE after # {}
  <2> DEFINE m == Min(after)
  <2>1. m \in after /\ \A i \in after : m <= i
    BY <1>6, <1>9, MinIsLeast
  <2>2. k = KeyAt(s, m)
    BY <1>4, <1>5, <1>9
  <2> HIDE DEF m
  <2>3. k \in Entries(s) /\ FindIndex(s, k) = m
    BY <1>6, <2>1, <2>2, PlaceOfKey
  <2>4. k # NIL
    BY <2>3, TableAssumption DEF Entries
  <2>5. from < m
    BY <1>6, <2>1
  <2>6. ASSUME NEW x \in Entries(s), ~(FindIndex(s, x) <= from), x # k
        PROVE  m < FindIndex(s, x)
    <3> DEFINE i == FindIndex(s, x)
    <3>1. i \in after /\ KeyAt(s, i) = x
      BY <1>7, <2>6
    <3>2. i # m
      BY <2>2, <2>6, <3>1
    <3>3. m <= i /\ m \in Nat /\ i \in Nat
      BY <1>6, <2>1, <3>1
    <3> HIDE DEF i
    <3>4. m < i
      BY <3>2, <3>3
    <3> QED BY <3>4 DEF i
  <2> QED BY <1>3, <2>3, <2>4, <2>5, <2>6 DEF k, from
<1> QED BY <1>8, <1>9

(*------------------------------ the steps ------------------------------*)

\* No traversal fits any table.
LEMMA NoTraversalFits ==
  ASSUME NEW s
  PROVE  TravFits(s, NoTraversal)
BY DEF TravFits, TravType, NoTraversal

\* Stores into slots and their loss leave a traversal where it is.
LEMMA TravKept ==
  ASSUME NEW s, TableFits(s), NEW r, TableFits(r), SameSlots(s, r),
         Entries(r) \subseteq Entries(s), NEW v, TravFits(s, v),
         NEW w \in TravType, w.on = v.on, w.at = v.at, w.seen = v.seen,
         w.wrong = v.wrong, w.owed \subseteq v.owed \cap Entries(r)
  PROVE  TravFits(r, w)
<1>0. s \in TableType /\ Chains(s) /\ r \in TableType
  BY DEF TableFits
<1>1. \A k \in Keys \cup {NIL} :
        /\ FindIndex(r, k) = FindIndex(s, k) /\ InArray(r, k) = InArray(s, k)
        /\ k # NIL => Node(r, k, TRUE) = Node(s, k, TRUE)
  BY <1>0, SamePlace
<1>2. v.at \in Keys \cup {NIL}
  BY DEF TravFits, TravType
<1>3. \A k \in Entries(r) : k \in Keys \cup {NIL}
  BY DEF Entries
<1> SUFFICES ASSUME w.on
             PROVE  /\ HasPlace(r, w.at)
                    /\ \A k \in w.owed : k \in Entries(r)
                                         /\ FindIndex(r, w.at) < FindIndex(r, k)
                    /\ \A k \in w.seen :
                         k \in Entries(r) => FindIndex(r, k) <= FindIndex(r, w.at)
  BY DEF TravFits
<1>4. /\ HasPlace(s, v.at)
      /\ \A k \in v.owed : k \in Entries(s) /\ FindIndex(s, v.at) < FindIndex(s, k)
      /\ \A k \in v.seen : k \in Entries(s) => FindIndex(s, k) <= FindIndex(s, v.at)
  BY DEF TravFits
<1>5. HasPlace(r, w.at)
  BY <1>1, <1>2, <1>4 DEF HasPlace
<1>6. FindIndex(r, w.at) = FindIndex(s, v.at)
  BY <1>1, <1>2
<1>7. ASSUME NEW k \in w.owed
      PROVE  k \in Entries(r) /\ FindIndex(r, w.at) < FindIndex(r, k)
  <2>1. k \in v.owed /\ k \in Entries(r)
    OBVIOUS
  <2> QED BY <1>1, <1>3, <1>4, <1>6, <2>1
<1>8. ASSUME NEW k \in w.seen, k \in Entries(r)
      PROVE  FindIndex(r, k) <= FindIndex(r, w.at)
  <2>1. k \in v.seen /\ k \in Entries(s)
    BY <1>8
  <2> QED BY <1>1, <1>3, <1>4, <1>6, <1>8, <2>1
<1> QED BY <1>5, <1>7, <1>8

\* The values a collection may take: none if they are strong.
LEMMA CollectableFacts ==
  ASSUME NEW K \in Collectable, ~Weak
  PROVE  K = {}
BY DEF Collectable

\* An assignment keeps the invariant and adds its own entry.
LEMMA SetFieldKeeps ==
  ASSUME TableInv, NEW k \in Keys, SetField(k)
  PROVE  TableInv' /\ (~Weak => Entries(t') = Entries(t) \cup {k})
<1>0. /\ TableFits(t) /\ TravFits(t, trav) /\ absent \subseteq Events
      /\ \A e \in absent : ~Has(t, e)
  BY DEF TableInv, CacheIsTrue
<1>1. PICK K \in Collectable :
        /\ K # {} => AllocatesArray(t, k)
        /\ t' = IF HasSlot(t, k) THEN Store(t, k, TRUE) ELSE NewKey(t, k, K)
  BY DEF SetField
<1>2. ~Weak => K = {}
  BY CollectableFacts
<1>3. /\ absent' = IF Has(t, k) THEN absent ELSE {}
      /\ trav' = IF Has(t, k) THEN trav ELSE NoTraversal
  BY DEF SetField, InvalidateTMCache
<1>4. CASE HasSlot(t, k)
  <2>1. /\ TableFits(t') /\ SameSlots(t, t') /\ Entries(t') = Entries(t) \cup {k}
    BY <1>0, <1>1, <1>4, StoreFacts
  <2>2. CASE Has(t, k)
    <3>1. Entries(t') = Entries(t)
      BY <2>1, <2>2 DEF Entries
    <3>2. trav' = trav /\ absent' = absent
      BY <1>3, <2>2
    <3>4. TravFits(t', trav')
      <4>1. CASE trav.on
        <5>1. trav \in TravType /\ trav.owed \subseteq trav.owed \cap Entries(t')
          BY <1>0, <3>1, <4>1 DEF TravFits
        <5> QED BY <1>0, <2>1, <3>1, <3>2, <5>1, TravKept
      <4>2. CASE ~trav.on
        BY <1>0, <3>2, <4>2 DEF TravFits
      <4> QED BY <4>1, <4>2
    <3>5. Events \subseteq Keys
      BY TableAssumption DEF Keys
    <3>6. CacheIsTrue'
      BY <1>0, <3>1, <3>2, <3>5 DEF CacheIsTrue, Entries
    <3> QED BY <1>0, <2>1, <3>2, <3>4, <3>6 DEF TableInv
  <2>3. CASE ~Has(t, k)
    BY <1>3, <2>1, <2>3, NoTraversalFits DEF TableInv, CacheIsTrue
  <2> QED BY <2>2, <2>3
<1>5. CASE ~HasSlot(t, k)
  <2>1. ~Has(t, k)
    BY <1>5 DEF HasSlot, Has
  <2>2. /\ TableFits(t') /\ k \in Entries(t')
        /\ Entries(t') \subseteq Entries(t) \cup {k} /\ Entries(t) \ K \subseteq Entries(t')
    BY <1>0, <1>1, <1>5, NewKeyFacts
  <2>3. ~Weak => Entries(t') = Entries(t) \cup {k}
    BY <1>2, <2>2
  <2> QED BY <1>3, <2>1, <2>2, <2>3, NoTraversalFits DEF TableInv, CacheIsTrue
<1> QED BY <1>4, <1>5

\* A traversal whose table lost some values still fits.
LEMMA LossKeeps ==
  ASSUME TableInv, NEW D, TableFits(t'), SameSlots(t, t'),
         Entries(t') = Entries(t) \ D,
         trav' = [trav EXCEPT !.owed = @ \ D], absent' = absent
  PROVE  TableInv'
<1>0. /\ TableFits(t) /\ TravFits(t, trav) /\ absent \subseteq Events
      /\ \A e \in absent : ~Has(t, e)
  BY DEF TableInv, CacheIsTrue
<1>1. Events \subseteq Keys
  BY TableAssumption DEF Keys
<1>2. CacheIsTrue'
  BY <1>0, <1>1 DEF CacheIsTrue, Entries
<1>3. /\ trav' \in TravType /\ trav'.on = trav.on /\ trav'.at = trav.at
      /\ trav'.seen = trav.seen /\ trav'.wrong = trav.wrong
      /\ trav'.owed = trav.owed \ D
  BY <1>0 DEF TravFits, TravType
<1>4. CASE trav.on
  <2>1. trav'.owed \subseteq trav.owed \cap Entries(t')
    BY <1>0, <1>3, <1>4 DEF TravFits
  <2>2. TravFits(t', trav')
    <3> DEFINE w == trav'
    <3>1. /\ w \in TravType /\ w.on = trav.on /\ w.at = trav.at /\ w.seen = trav.seen
          /\ w.wrong = trav.wrong /\ w.owed \subseteq trav.owed \cap Entries(t')
      BY <1>3, <2>1
    <3>2. Entries(t') \subseteq Entries(t)
      OBVIOUS
    <3> HIDE DEF w
    <3>3. TravFits(t', w)
      BY <1>0, <3>1, <3>2, TravKept
    <3> QED BY <3>3 DEF w
  <2> QED BY <1>0, <1>2, <2>2 DEF TableInv
<1>5. CASE ~trav.on
  <2>1. TravFits(t', trav')
    BY <1>0, <1>3, <1>5 DEF TravFits
  <2> QED BY <1>0, <1>2, <2>1 DEF TableInv
<1> QED BY <1>4, <1>5

\* A removal keeps the invariant and removes its own entry.
LEMMA ClearFieldKeeps ==
  ASSUME TableInv, NEW k \in Keys, ClearField(k)
  PROVE  TableInv' /\ k \in Entries(t) /\ Entries(t') = Entries(t) \ {k}
<1>1. /\ Has(t, k) /\ t' = Store(t, k, FALSE) /\ absent' = absent
      /\ trav' = [trav EXCEPT !.owed = @ \ {k}] /\ TableFits(t)
  BY DEF ClearField, TableInv
<1>2. HasSlot(t, k)
  BY <1>1 DEF HasSlot, Has
<1>3. TableFits(t') /\ SameSlots(t, t') /\ Entries(t') = Entries(t) \ {k}
  BY <1>1, <1>2, StoreFacts
<1>4. k \in Entries(t)
  BY <1>1 DEF Entries
<1> QED BY <1>1, <1>3, <1>4, LossKeeps

\* A collection keeps the invariant, and every entry with strong values.
LEMMA CollectKeeps ==
  ASSUME TableInv, Collect
  PROVE  TableInv' /\ (~Weak => Entries(t') = Entries(t))
<1>1. PICK K \in Collectable :
        /\ t' = Buried(Forget(t, K)) /\ trav' = [trav EXCEPT !.owed = @ \ K]
  BY DEF Collect, Buried
<1>2. absent' = absent /\ TableFits(t)
  BY DEF Collect, TableInv
<1>3. TableFits(t') /\ SameSlots(t, t') /\ Entries(t') = Entries(t) \ K
  BY <1>1, <1>2, CollectFacts
<1>4. TableInv'
  BY <1>1, <1>2, <1>3, LossKeeps
<1>5. ~Weak => K = {}
  BY CollectableFacts
<1> QED BY <1>3, <1>4, <1>5

\* A resize for a constructor keeps the invariant and every entry.
LEMMA ResizeArrayKeeps ==
  ASSUME TableInv, NEW n \in Nat, ResizeArray(n)
  PROVE  TableInv' /\ Entries(t') = Entries(t)
<1> DEFINE hsize == IF t.dummy THEN 0 ELSE SizeNode(t)
           T == Entries(t) \ Small(n)
<1>0. /\ TableFits(t) /\ absent \subseteq Events /\ \A e \in absent : ~Has(t, e)
      /\ t \in TableType /\ Chains(t)
  BY DEF TableInv, CacheIsTrue, TableFits
<1>1. /\ n > Len(t.arr) /\ t' = Resize(t, n, hsize, {}) /\ absent' = absent
      /\ trav' = NoTraversal
  BY DEF ResizeArray
<1>2. SizeNode(t) \in Nat
  <2>1. PICK N \in Nat \ {0} : SizeNode(t) = N
    BY <1>0, VectorFacts
  <2> QED BY <2>1
<1>3. hsize \in Nat
  BY <1>2
<1>4. T \subseteq HashKeys(t)
  <2>1. Entries(t) = ArrayKeys(t) \cup HashKeys(t)
    BY <1>0, EntriesAre
  <2>2. Len(t.arr) \in Nat
    BY <1>0, ArrayKeysAre
  <2>3. \A k \in ArrayKeys(t) : k \in Small(n)
    BY <1>1, <2>2, IntKeysAre DEF ArrayKeys, Small
  <2> QED BY <2>1, <2>3
<1>5. t.dummy => HashKeys(t) = {}
  <2> HAVE t.dummy
  <2> SUFFICES ASSUME NEW k \in HashKeys(t) PROVE FALSE
    OBVIOUS
  <2>1. PICK i \in Positions(t) : t.node[i].has /\ KeyOf(t, i) = k
    BY HashKeysAre
  <2> QED BY <1>0, <2>1 DEF Chains, FreeAreFree, AtHome
<1>6. IsFiniteSet(HashKeys(t)) /\ Cardinality(HashKeys(t)) <= SizeNode(t)
  BY <1>0, KeysFinite
<1>7. IsFiniteSet(T) /\ Cardinality(T) <= Cardinality(HashKeys(t)) /\ Cardinality(T) \in Nat
  <2> HIDE DEF T
  <2> QED BY <1>4, <1>6, FS_Subset, FS_CardinalityType
<1>8. Cardinality(T) <= hsize
  <2>1. Cardinality(HashKeys(t)) \in Nat
    BY <1>6, FS_CardinalityType
  <2>2. CASE t.dummy
    <3>1. Cardinality(HashKeys(t)) = 0
      BY <1>5, <2>2, FS_EmptySet
    <3> HIDE DEF T
    <3> QED BY <1>7, <2>2, <3>1
  <2>3. CASE ~t.dummy
    <3> HIDE DEF T
    <3> QED BY <1>2, <1>6, <1>7, <2>1, <2>3
  <2> QED BY <2>2, <2>3
<1>9. T \in SUBSET Keys /\ T \cap Small(n) = {} /\ Entries(t) \ Small(n) \subseteq T
  BY DEF Entries
<1> HIDE DEF T, hsize
<1>10. /\ TableFits(t') /\ Entries(t') \subseteq Entries(t)
       /\ Entries(t) \ {} \subseteq Entries(t')
  BY <1>0, <1>1, <1>3, <1>7, <1>8, <1>9, ResizeFacts
<1>11. Entries(t') = Entries(t)
  BY <1>10
<1>12. CacheIsTrue'
  <2>1. Events \subseteq Keys
    BY TableAssumption DEF Keys
  <2> QED BY <1>0, <1>1, <1>11, <2>1 DEF CacheIsTrue, Entries
<1> QED BY <1>0, <1>1, <1>10, <1>11, <1>12, NoTraversalFits DEF TableInv

\* A length operation keeps the invariant and every entry.
LEMMA LengthKeeps ==
  ASSUME TableInv, Length
  PROVE  TableInv' /\ Entries(t') = Entries(t)
<1>0. /\ TableFits(t) /\ TravFits(t, trav) /\ t \in TableType /\ Chains(t)
      /\ absent \subseteq Events /\ ArrayFits(t) /\ \A e \in absent : ~Has(t, e)
  BY DEF TableInv, TableFits, CacheIsTrue
<1>1. PICK rnd \in Seeds : t' = [t EXCEPT !.hint = GetN(t, rnd).hint]
  BY DEF Length
<1>2. absent' = absent /\ trav' = trav
  BY DEF Length, Quiet
<1> DEFINE h == GetN(t, rnd).hint
<1>3. h \in Nat /\ (h <= Len(t.arr) \/ Len(t.arr) = 0)
  <2>1. rnd \in Nat
    BY TableAssumption
  <2> QED BY <1>0, <2>1, GetNFacts
<1>4. t' = [t EXCEPT !.hint = h]
  BY <1>1
<1> HIDE DEF h
<1>5. t' \in TableType
  BY <1>0, <1>3, <1>4 DEF TableType
<1>6. /\ t'.arr = t.arr /\ t'.node = t.node /\ t'.dummy = t.dummy
      /\ t'.last = t.last /\ t'.hint = h
  BY <1>0, <1>4 DEF TableType
<1>7. SameSlots(t, t') /\ ArrayFits(t')
  BY <1>0, <1>3, <1>6 DEF SameSlots, ArrayFits, Positions, KeyOf
<1>8. Chains(t') /\ HashKeys(t') = HashKeys(t)
  BY <1>0, <1>6, ChainsDepend
<1>9. TableFits(t')
  BY <1>0, <1>5, <1>6, <1>7, <1>8 DEF TableFits, Apart, InArray, Positions, KeyOf
<1>10. Entries(t') = Entries(t)
  <2>1. Entries(t') = ArrayKeys(t') \cup HashKeys(t')
    BY <1>9, EntriesAre
  <2>2. Entries(t) = ArrayKeys(t) \cup HashKeys(t)
    BY <1>0, EntriesAre
  <2>3. ArrayKeys(t') = ArrayKeys(t)
    BY <1>6 DEF ArrayKeys
  <2> QED BY <1>8, <2>1, <2>2, <2>3
<1>11. TableInv'
  <2>1. trav' = [trav EXCEPT !.owed = @ \ {}]
    BY <1>0, <1>2 DEF TravFits, TravType
  <2> QED BY <1>2, <1>7, <1>9, <1>10, <2>1, LossKeeps
<1> QED BY <1>10, <1>11

\* The start of a traversal keeps the invariant.
LEMMA StartTraversalKeeps ==
  ASSUME TableInv, StartTraversal
  PROVE  TableInv' /\ t' = t
<1>0. /\ TableFits(t) /\ CacheIsTrue /\ absent \subseteq Events /\ t' = t
      /\ absent' = absent
      /\ trav' = [NoTraversal EXCEPT !.on = TRUE, !.owed = Entries(t)]
  BY DEF TableInv, StartTraversal, Entries
<1>1. CacheIsTrue'
  BY <1>0 DEF CacheIsTrue
<1>2. /\ trav' \in TravType /\ trav'.wrong = {} /\ trav'.seen = {} /\ trav'.at = NIL
      /\ trav'.owed = Entries(t)
  BY <1>0 DEF NoTraversal, TravType, Entries
<1>3. ASSUME NEW k \in Entries(t) PROVE FindIndex(t, NIL) < FindIndex(t, k)
  <2>1. FindIndex(t, k) \in Places(t) /\ t \in TableType
    BY <1>0, KeyHasPlace DEF TableFits
  <2>2. PICK N \in Nat \ {0} : SizeNode(t) = N
    BY <2>1, VectorFacts
  <2>3. Len(t.arr) \in Nat
    BY <2>1, ArrayKeysAre
  <2>4. FindIndex(t, NIL) = 0
    BY DEF FindIndex
  <2> QED BY <2>1, <2>2, <2>3, <2>4 DEF Places
<1>4. TravFits(t, trav')
  BY <1>2, <1>3 DEF TravFits, HasPlace
<1> QED BY <1>0, <1>1, <1>4 DEF TableInv

\* A step of a traversal keeps the invariant.
LEMMA NextStepKeeps ==
  ASSUME TableInv, NextStep
  PROVE  TableInv' /\ t' = t
<1> DEFINE k == NextKey(t, trav.at)
           from == FindIndex(t, trav.at)
<1>0. /\ TableFits(t) /\ TravFits(t, trav) /\ CacheIsTrue /\ absent \subseteq Events
      /\ t' = t /\ absent' = absent /\ trav.on
      /\ trav' = IF k = NIL THEN [NoTraversal EXCEPT !.wrong = trav.owed]
                 ELSE [trav EXCEPT !.at = k, !.seen = @ \cup {k}, !.owed = @ \ {k},
                                   !.wrong = @ \cup ({k} \cap trav.seen)]
  BY DEF TableInv, NextStep
<1>1. CacheIsTrue'
  BY <1>0 DEF CacheIsTrue
<1>2. /\ trav \in TravType /\ trav.wrong = {} /\ HasPlace(t, trav.at)
      /\ \A x \in trav.owed : x \in Entries(t) /\ from < FindIndex(t, x)
      /\ \A x \in trav.seen : x \in Entries(t) => FindIndex(t, x) <= from
  BY <1>0 DEF TravFits
<1>3. trav.at \in Keys \cup {NIL}
  BY <1>2 DEF TravType
<1>4. /\ from \in Nat
      /\ k = NIL => \A x \in Entries(t) : FindIndex(t, x) <= from
      /\ k # NIL => /\ k \in Entries(t) /\ from < FindIndex(t, k)
                    /\ \A x \in Entries(t) : \/ x = k \/ FindIndex(t, x) <= from
                                             \/ FindIndex(t, k) < FindIndex(t, x)
  BY <1>0, <1>2, <1>3, NextKeyFacts
<1>5. \A x \in Entries(t) : FindIndex(t, x) \in Nat
  <2> TAKE x \in Entries(t)
  <2>1. FindIndex(t, x) \in Places(t) /\ t \in TableType
    BY <1>0, KeyHasPlace DEF TableFits
  <2>2. PICK N \in Nat \ {0} : SizeNode(t) = N
    BY <2>1, VectorFacts
  <2>3. Len(t.arr) \in Nat
    BY <2>1, ArrayKeysAre
  <2> QED BY <2>1, <2>2, <2>3 DEF Places
<1> HIDE DEF k, from
<1>6. CASE k = NIL
  <2>1. trav.owed = {}
    BY <1>2, <1>4, <1>5, <1>6
  <2>2. trav' = [NoTraversal EXCEPT !.wrong = trav.owed]
    BY <1>0, <1>6
  <2>3. trav' = NoTraversal
    BY <2>1, <2>2 DEF NoTraversal
  <2> QED BY <1>0, <1>1, <2>3, NoTraversalFits DEF TableInv
<1>7. CASE k # NIL
  <2> DEFINE w == [trav EXCEPT !.at = k, !.seen = @ \cup {k}, !.owed = @ \ {k},
                               !.wrong = @ \cup ({k} \cap trav.seen)]
  <2>1. trav' = w
    BY <1>0, <1>7
  <2>2. k \in Keys /\ k \in Entries(t)
    BY <1>4, <1>7 DEF Entries
  <2>3. k \notin trav.seen
    BY <1>2, <1>4, <1>5, <1>7, <2>2
  <2>4. /\ w \in TravType /\ w.wrong = {} /\ w.at = k /\ w.seen = trav.seen \cup {k}
        /\ w.owed = trav.owed \ {k}
    BY <1>2, <2>2, <2>3 DEF TravType
  <2> HIDE DEF w
  <2>5. HasPlace(t, k)
    BY <1>0, <2>2, KeyHasPlace
  <2>6. ASSUME NEW x \in w.owed
        PROVE  x \in Entries(t) /\ FindIndex(t, k) < FindIndex(t, x)
    <3>1. x \in Entries(t) /\ from < FindIndex(t, x) /\ x # k
      BY <1>2, <2>4
    <3> QED BY <1>4, <1>5, <1>7, <3>1
  <2>7. ASSUME NEW x \in w.seen, x \in Entries(t)
        PROVE  FindIndex(t, x) <= FindIndex(t, k)
    <3>1. x = k \/ FindIndex(t, x) <= from
      BY <1>2, <2>4, <2>7
    <3> QED BY <1>4, <1>5, <1>7, <2>2, <2>7, <3>1
  <2>8. TravFits(t, w)
    BY <2>4, <2>5, <2>6, <2>7 DEF TravFits
  <2> QED BY <1>0, <1>1, <2>1, <2>8 DEF TableInv
<1> QED BY <1>6, <1>7

\* luaH_new and the resize of a constructor.
LEMMA InitFits ==
  ASSUME Init
  PROVE  TableInv /\ Entries(t) = {}
<1> DEFINE s == [arr |-> << >>, node |-> [i \in {0} |-> Free], dummy |-> TRUE,
                 last |-> NIL, hint |-> 0]
<1>1. PICK z \in Sizes : t = Resize(s, z[1], z[2], {})
  BY DEF Init
<1>2. z[1] \in Nat /\ z[2] \in Nat
  BY TableAssumption
<1>3. /\ s.arr = << >> /\ s.node = [i \in {0} |-> Free] /\ s.dummy /\ s.last = NIL
      /\ s.hint = 0
  OBVIOUS
<1>4. s \in TableType
  <2>1. Free \in NodeType
    BY DEF Free, NodeType
  <2>2. [i \in {0} |-> Free] \in [0..(1 - 1) -> NodeType]
    BY <2>1
  <2>3. [i \in {0} |-> Free] \in Vectors
    BY <2>2 DEF Vectors
  <2>4. << >> \in Seq(BOOLEAN)
    OBVIOUS
  <2> QED BY <2>3, <2>4 DEF TableType
<1> HIDE DEF s
<1>5. Positions(s) = {0} /\ KeyOf(s, 0) = NIL /\ s.node[0] = Free /\ Len(s.arr) = 0
  BY <1>3 DEF Positions, KeyOf, Free
<1>6. ~s.node[0].has /\ ~s.node[0].dead /\ s.node[0].next = NIL
  BY <1>5 DEF Free
<1>7. Chains(s)
  <2>0. NIL # 0
    BY TableAssumption
  <2>1. Links(s) = [i \in {0} |-> NIL]
    BY <1>5, <1>6 DEF Links
  <2>2. Chained(Links(s))
    BY <2>0, <2>1 DEF Chained
  <2>3. FreeAreFree(s) /\ AtHome(s) /\ OnceAlive(s)
    BY <1>3, <1>5, <1>6, <2>0 DEF FreeAreFree, AtHome, OnceAlive
  <2> QED BY <2>2, <2>3 DEF Chains
<1>8. TableFits(s)
  <2>1. ArrayFits(s)
    BY <1>3, <1>5 DEF ArrayFits
  <2>2. Apart(s)
    BY <1>5, TableAssumption DEF Apart, InArray, Keys
  <2> QED BY <1>4, <1>7, <2>1, <2>2 DEF TableFits
<1>9. Entries(s) = {}
  <2>1. ArrayKeys(s) = {}
    BY <1>5, IntKeysAre DEF ArrayKeys
  <2>2. HashKeys(s) = {}
    BY <1>5, <1>6 DEF HashKeys
  <2> QED BY <1>8, <2>1, <2>2, EntriesAre
<1>10. TableFits(t) /\ Entries(t) \subseteq Entries(s)
  <2>1. /\ IsFiniteSet({}) /\ Cardinality({}) <= z[2] /\ {} \in SUBSET Keys
        /\ {} \cap Small(z[1]) = {} /\ Entries(s) \ Small(z[1]) \subseteq {}
    BY <1>2, <1>9, FS_EmptySet
  <2> DEFINE r == Resize(s, z[1], z[2], {})
  <2>2. TableFits(r) /\ Entries(r) \subseteq Entries(s)
    BY <1>2, <1>8, <2>1, ResizeFacts
  <2> HIDE DEF r
  <2> QED BY <1>1, <2>2 DEF r
<1>11. absent = {} /\ trav = NoTraversal
  BY DEF Init
<1> QED BY <1>9, <1>10, <1>11, NoTraversalFits DEF TableInv, CacheIsTrue

\* Every step keeps the invariant, and changes the entries as a dictionary.
LEMMA StepKeeps ==
  ASSUME TableInv, [Next]_vars
  PROVE  /\ TableInv'
         /\ ~Weak => \/ Entries(t') = Entries(t)
                     \/ \E k \in Keys : \/ Entries(t') = Entries(t) \cup {k}
                                        \/ k \in Entries(t) /\ Entries(t') = Entries(t) \ {k}
<1>1. CASE \E k \in Keys : SetField(k)
  BY <1>1, SetFieldKeeps
<1>2. CASE \E k \in Keys : ClearField(k)
  <2>1. PICK k \in Keys : ClearField(k)
    BY <1>2
  <2> QED BY <2>1, ClearFieldKeeps
<1>3. CASE \E e \in Events : CacheAbsent(e)
  <2>1. PICK e \in Events : ~Has(t, e) /\ absent' = absent \cup {e} /\ t' = t /\ trav' = trav
    BY <1>3 DEF CacheAbsent, Quiet
  <2> QED BY <2>1 DEF TableInv, CacheIsTrue
<1>4. CASE \E z \in Sizes : ResizeArray(z[1])
  <2>1. PICK z \in Sizes : ResizeArray(z[1])
    BY <1>4
  <2>2. z[1] \in Nat
    BY TableAssumption
  <2> QED BY <2>1, <2>2, ResizeArrayKeeps
<1>5. CASE Collect
  BY <1>5, CollectKeeps
<1>6. CASE Length
  BY <1>6, LengthKeeps
<1>7. CASE StartTraversal
  BY <1>7, StartTraversalKeeps
<1>8. CASE NextStep
  BY <1>8, NextStepKeeps
<1>9. CASE UNCHANGED vars
  BY <1>9 DEF vars, TableInv, CacheIsTrue
<1> QED BY <1>1, <1>2, <1>3, <1>4, <1>5, <1>6, <1>7, <1>8, <1>9 DEF Next

(*------------------------------- theorems ------------------------------*)

\* The invariant of the table holds after any operations and collections, for
\* any integer range, keys, hashes and sizes.
THEOREM TableInvariant == Spec => []TableInv
<1>1. Init => TableInv
  BY InitFits
<1>2. TableInv /\ [Next]_vars => TableInv'
  BY StepKeeps
<1> QED BY <1>1, <1>2, PTL DEF Spec

\* Every key that was inserted is met on the chain of its main position, at most
\* once alive, and a free node is in no chain (insertkey, getfreepos, luaH_resize).
THEOREM ChainsAlwaysReachKeys == Spec => []ChainsReachKeys
<1>1. TableInv => ChainsReachKeys
  <2> HAVE TableInv
  <2>1. t \in TableType /\ Chains(t) /\ Apart(t) /\ ArrayFits(t)
    BY DEF TableInv, TableFits
  <2>2. ASSUME NEW i \in Positions(t)
        PROVE  LET n == t.node[i]
               IN  /\ n.next # NIL => n.next \in Positions(t) /\ t.node[n.next].key # NIL
                   /\ n.key = NIL => ~n.has /\ n.next = NIL
                   /\ n.has => Node(t, n.key, FALSE) = i /\ ~InArray(t, n.key)
    <3>1. t.node[i].next # NIL => t.node[i].next \in Positions(t)
      BY <2>1 DEF Chains, Chained, Links
    <3>2. t.node[i].next # NIL => t.node[t.node[i].next].key # NIL
      BY <2>1, <3>1 DEF Chains, FreeAreFree, KeyOf
    <3>3. t.node[i].key = NIL => ~t.node[i].has /\ t.node[i].next = NIL
      BY <2>1 DEF Chains, FreeAreFree, KeyOf
    <3>4. ASSUME t.node[i].has
          PROVE  Node(t, KeyOf(t, i), FALSE) = i /\ ~InArray(t, KeyOf(t, i))
      <4>1. ~t.node[i].dead /\ KeyOf(t, i) # NIL
        BY <2>1, <3>3, <3>4 DEF Chains, OnceAlive, KeyOf
      <4>2. KeyOf(t, i) \in Keys
        BY <2>1, <4>1, HomeIsPosition
      <4>3. Node(t, KeyOf(t, i), FALSE) = i
        BY <2>1, <4>1, <4>2, NodeFacts
      <4> QED BY <2>1, <4>3 DEF Apart
    <3> QED BY <3>1, <3>2, <3>3, <3>4 DEF KeyOf
  <2> QED BY <2>1, <2>2 DEF ChainsReachKeys, ArrayFits
<1> QED BY <1>1, TableInvariant, PTL

\* A traversal meets all keys that keep their values, and none twice (luaH_next).
THEOREM TraversalsMeetAll == Spec => []TraversalMeetsAll
<1>1. TableInv => TraversalMeetsAll
  BY DEF TableInv, TravFits, TraversalMeetsAll
<1> QED BY <1>1, TableInvariant, PTL

\* #t is a border, for every hint and seed (luaH_getn, hash_search, binsearch).
THEOREM LengthIsAlwaysBorder == Spec => []LengthIsBorder
<1>1. TableInv => LengthIsBorder
  <2> SUFFICES ASSUME TableInv, NEW rnd \in Seeds
               PROVE  LET b == GetN(t, rnd).border
                      IN  (b = 0 \/ HasInt(t, b)) /\ (b = MAXINT \/ ~HasInt(t, b + 1))
    BY DEF LengthIsBorder
  <2>1. rnd \in Nat /\ TableFits(t)
    BY TableAssumption DEF TableInv
  <2> QED BY <2>1, GetNFacts DEF Present
<1> QED BY <1>1, TableInvariant, PTL

\* A metamethod cached as absent is absent (luaT_gettm, invalidateTMcache).
THEOREM CacheIsAlwaysTrue == Spec => []CacheIsTrue
<1>1. TableInv => CacheIsTrue
  BY DEF TableInv
<1> QED BY <1>1, TableInvariant, PTL

\* With strong values, the arrays, nodes, rehashes and collections of a table
\* implement a dictionary: an assignment changes its own entry and no other, and
\* nothing else changes any.
THEOREM TableIsDictionary == ~Weak => (Spec => ImplementsDictionary)
<1> SUFFICES ASSUME ~Weak PROVE Spec => ImplementsDictionary
  OBVIOUS
<1>1. Init => Promise!Init
  BY InitFits DEF Promise!Init, entries, Entries
<1>2. TableInv /\ [Next]_vars => [Promise!Next]_entries
  <2> SUFFICES ASSUME TableInv, [Next]_vars, entries' # entries PROVE Promise!Next
    OBVIOUS
  <2>1. entries = Entries(t) /\ entries' = Entries(t')
    BY DEF entries, Entries
  <2>2. PICK k \in Keys : \/ entries' = entries \cup {k}
                          \/ k \in entries /\ entries' = entries \ {k}
    BY <2>1, StepKeeps
  <2>3. CASE entries' = entries \cup {k}
    <3>1. k \notin entries
      BY <2>3
    <3> QED BY <2>3, <3>1 DEF Promise!Next, Promise!Assign
  <2>4. CASE k \in entries /\ entries' = entries \ {k}
    BY <2>4 DEF Promise!Next, Promise!Remove
  <2> QED BY <2>2, <2>3, <2>4
<1> QED BY <1>1, <1>2, TableInvariant, PTL DEF Spec, ImplementsDictionary, Promise!Spec
=============================================================================
