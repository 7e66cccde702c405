------------------------------ MODULE ListLemmas ------------------------------
(***************************************************************************)
(* Induction over the natural numbers without an operator parameter, what   *)
(* a recursive function on 0..n is, and what follows for Keep.              *)
(***************************************************************************)
EXTENDS Lists, Integers, WellFoundedInduction, TLAPS

\* The order of the natural numbers has no endless descent.
LEMMA LessWF == IsWellFoundedOn({ss \in Nat \X Nat : ss[1] < ss[2]}, Nat)
  BY NatLessThanWellFounded DEF OpToRel

(* Induction, with a set in the place of the property: the least number     *)
(* outside of the set would have a predecessor outside of it.               *)
LEMMA Induction ==
  ASSUME NEW S, 0 \in S, \A n \in Nat : n \in S => n + 1 \in S
  PROVE  Nat \subseteq S
<1> DEFINE R == {ss \in Nat \X Nat : ss[1] < ss[2]}
           T == Nat \ S
<1>1. IsWellFoundedOn(R, Nat)
  BY LessWF
<1> SUFFICES ASSUME T # {} PROVE FALSE
  OBVIOUS
<1>2. PICK x \in T : \A y \in T : ~(<<y, x>> \in R)
  <2> HIDE DEF R
  <2> QED BY <1>1, WFMin
<1>3. x # 0 /\ x \in Nat
  OBVIOUS
<1>4. x - 1 \in Nat /\ <<x - 1, x>> \in R
  BY <1>3
<1>5. x - 1 \in S
  BY <1>2, <1>4
<1> QED BY <1>3, <1>4, <1>5

(* The same up to a bound.                                                  *)
LEMMA BoundedInduction ==
  ASSUME NEW S, NEW N \in Nat, 0 \in S,
         \A n \in 0..(N - 1) : n \in S => n + 1 \in S
  PROVE  0..N \subseteq S
<1> DEFINE T == {n \in Nat : n <= N => n \in S}
<1>1. 0 \in T
  OBVIOUS
<1>2. \A n \in Nat : n \in T => n + 1 \in T
  OBVIOUS
<1> HIDE DEF T
<1>3. Nat \subseteq T
  BY <1>1, <1>2, Induction
<1> QED BY <1>3 DEF T

(* A nonempty set of numbers has a least one.                               *)
LEMMA LeastNumber ==
  ASSUME NEW S \in SUBSET Nat, S # {}
  PROVE  \E x \in S : \A y \in S : x <= y
<1> DEFINE T == {n \in Nat : \A y \in S : n <= y}
<1> SUFFICES ASSUME \A x \in S : \E y \in S : ~(x <= y) PROVE FALSE
  OBVIOUS
<1>1. 0 \in T
  OBVIOUS
<1>2. \A n \in Nat : n \in T => n + 1 \in T
  <2> TAKE n \in Nat
  <2> HAVE n \in T
  <2>1. n \notin S
    OBVIOUS
  <2> QED BY <2>1
<1> HIDE DEF T
<1>3. Nat \subseteq T
  BY <1>1, <1>2, Induction
<1>4. PICK x \in S : TRUE
  OBVIOUS
<1>5. x + 1 \in T
  BY <1>3
<1> QED BY <1>4, <1>5 DEF T

(* A bounded one has a greatest.                                            *)
LEMMA GreatestNumber ==
  ASSUME NEW N \in Nat, NEW S \in SUBSET (0..N), S # {}
  PROVE  \E x \in S : \A y \in S : x >= y
<1> DEFINE T == {N - x : x \in S}
<1>1. T \in SUBSET Nat /\ T # {}
  <2>1. \A x \in S : N - x \in Nat
    OBVIOUS
  <2> QED BY <2>1
<1>2. PICK m \in T : \A y \in T : m <= y
  BY <1>1, LeastNumber
<1>3. PICK x \in S : m = N - x
  OBVIOUS
<1>4. ASSUME NEW y \in S PROVE x >= y
  BY <1>2, <1>3
<1> QED BY <1>4

(* f starts at v0 and goes on with the step G, up to N.                      *)
Recursive(f, N, v0, G) ==
  f[0] = v0 /\ \A n \in 1..N : f[n] = G[<<n, f[n - 1]>>]

(* A function defined by recursion on 0..N with a step that stays in V      *)
(* exists: each prefix of it does, by induction.                            *)
LEMMA RecursiveFunction ==
  ASSUME NEW N \in Nat, NEW V, NEW v0 \in V, NEW G \in [(1..N) \X V -> V]
  PROVE  \E f \in [0..N -> V] : Recursive(f, N, v0, G)
<1> DEFINE Is(f, m) == \A n \in 0..m : f[n] = IF n = 0 THEN v0
                                                ELSE G[<<n, f[n - 1]>>]
           S == {m \in 0..N : \E f \in [0..m -> V] : Is(f, m)}
<1>1. 0 \in S
  <2> DEFINE g == [n \in 0..0 |-> v0]
  <2>1. g \in [0..0 -> V] /\ Is(g, 0)
    OBVIOUS
  <2>2. \E f \in [0..0 -> V] : Is(f, 0)
    BY <2>1
  <2> QED BY <2>2
<1>2. ASSUME NEW m \in 0..(N - 1), m \in S
      PROVE  m + 1 \in S
  <2>1. PICK f \in [0..m -> V] : Is(f, m)
    BY <1>2
  <2> DEFINE g == [n \in 0..(m + 1) |-> IF n = m + 1 THEN G[<<m + 1, f[m]>>]
                                        ELSE f[n]]
  <2>2. f[m] \in V /\ m + 1 \in 1..N /\ <<m + 1, f[m]>> \in (1..N) \X V
    OBVIOUS
  <2>3. G[<<m + 1, f[m]>>] \in V
    BY <2>2
  <2>4. g \in [0..(m + 1) -> V]
    BY <2>3
  <2>5. ASSUME NEW n \in 0..(m + 1)
        PROVE  g[n] = IF n = 0 THEN v0 ELSE G[<<n, g[n - 1]>>]
    <3>1. CASE n = m + 1
      <4>1. n # 0 /\ g[n] = G[<<m + 1, f[m]>>] /\ g[n - 1] = f[m] /\ n = m + 1
        BY <3>1
      <4> QED BY <4>1, Zenon
    <3>2. CASE n \in 0..m
      <4>1. n # m + 1 /\ g[n] = f[n]
        BY <3>2
      <4>2. n # 0 => g[n - 1] = f[n - 1]
        BY <3>2
      <4>3. f[n] = IF n = 0 THEN v0 ELSE G[<<n, f[n - 1]>>]
        BY <3>2, <2>1
      <4> HIDE DEF g
      <4> QED BY <4>1, <4>2, <4>3
    <3> QED BY <3>1, <3>2
  <2> HIDE DEF g
  <2>6. Is(g, m + 1)
    BY <2>5
  <2>7. \E h \in [0..(m + 1) -> V] : Is(h, m + 1)
    BY <2>4, <2>6, Zenon
  <2> QED BY <2>7
<1>3. 0..N \subseteq S
  <2> HIDE DEF S
  <2> QED BY <1>1, <1>2, BoundedInduction
<1>4. PICK f \in [0..N -> V] : Is(f, N)
  BY <1>3
<1>5. \A n \in 1..N : n \in 0..N /\ n # 0
  OBVIOUS
<1>6. 0 \in 0..N
  OBVIOUS
<1> HIDE DEF S
<1>7. f[0] = v0 /\ \A n \in 1..N : f[n] = G[<<n, f[n - 1]>>]
  BY <1>4, <1>5, <1>6, Zenon
<1> QED BY <1>7 DEF Recursive

(* The first m members of a sequence.                                       *)
LEMMA PrefixSeq ==
  ASSUME NEW X, NEW s \in Seq(X), NEW m \in 0..Len(s)
  PROVE  /\ SubSeq(s, 1, m) \in Seq(X) /\ Len(SubSeq(s, 1, m)) = m
         /\ DOMAIN SubSeq(s, 1, m) = 1..m
         /\ \A i \in 1..m : SubSeq(s, 1, m)[i] = s[i]
  OBVIOUS

(* One more member at the end.                                              *)
LEMMA PushSeq ==
  ASSUME NEW X, NEW s \in Seq(X), NEW e \in X
  PROVE  /\ Append(s, e) \in Seq(X) /\ Len(Append(s, e)) = Len(s) + 1
         /\ DOMAIN Append(s, e) = 1..(Len(s) + 1)
         /\ Append(s, e)[Len(s) + 1] = e
         /\ \A i \in 1..Len(s) : Append(s, e)[i] = s[i]
  OBVIOUS

(* What In makes of the operations on sequences.                            *)
LEMMA InEmpty == In(<< >>) = {}
  BY DEF In

(* What is in a sequence over X is in X, and a member has a place.          *)
LEMMA InType ==
  ASSUME NEW X, NEW s \in Seq(X)
  PROVE  In(s) \subseteq X /\ DOMAIN s = 1..Len(s)
  BY DEF In

(* A sequence with one more member at its end.                              *)
LEMMA InAppend ==
  ASSUME NEW X, NEW s \in Seq(X), NEW e \in X
  PROVE  In(Append(s, e)) = In(s) \cup {e}
<1>1. /\ DOMAIN Append(s, e) = DOMAIN s \cup {Len(s) + 1}
      /\ Append(s, e)[Len(s) + 1] = e
      /\ \A i \in DOMAIN s : Append(s, e)[i] = s[i]
  OBVIOUS
<1> DEFINE u == Append(s, e)
           m == Len(s) + 1
<1> HIDE DEF u, m
<1>2. DOMAIN u = DOMAIN s \cup {m} /\ u[m] = e /\ \A i \in DOMAIN s : u[i] = s[i]
  BY <1>1 DEF u, m
<1>3. In(u) = In(s) \cup {e}
  BY <1>2 DEF In
<1> QED BY <1>3 DEF u

(* Two sequences in a row.                                                  *)
LEMMA InConcat ==
  ASSUME NEW X, NEW s \in Seq(X), NEW t \in Seq(X)
  PROVE  In(s \o t) = In(s) \cup In(t)
<1> DEFINE u == s \o t
<1>1. u \in Seq(X) /\ Len(u) = Len(s) + Len(t)
  OBVIOUS
<1>2. \A i \in DOMAIN s : i \in DOMAIN u /\ u[i] = s[i]
  OBVIOUS
<1>3. \A i \in DOMAIN t : Len(s) + i \in DOMAIN u /\ u[Len(s) + i] = t[i]
  OBVIOUS
<1>4. \A i \in DOMAIN u : \/ i \in DOMAIN s /\ u[i] = s[i]
                          \/ i - Len(s) \in DOMAIN t /\ u[i] = t[i - Len(s)]
  OBVIOUS
<1> HIDE DEF u
<1>5. In(u) = In(s) \cup In(t)
  BY <1>2, <1>3, <1>4 DEF In
<1> QED BY <1>5 DEF u

(* A sequence with one more member at its head.                             *)
LEMMA InCons ==
  ASSUME NEW X, NEW s \in Seq(X), NEW e \in X
  PROVE  In(<<e>> \o s) = In(s) \cup {e}
<1> DEFINE u == <<e>> \o s
<1>1. u \in Seq(X) /\ Len(u) = Len(s) + 1 /\ u[1] = e /\ 1 \in DOMAIN u
  OBVIOUS
<1>2. \A i \in DOMAIN s : 1 + i \in DOMAIN u /\ u[1 + i] = s[i]
  OBVIOUS
<1>3. \A i \in DOMAIN u : i = 1 \/ (i - 1 \in DOMAIN s /\ u[i] = s[i - 1])
  OBVIOUS
<1> HIDE DEF u
<1>4. In(u) = In(s) \cup {e}
  BY <1>1, <1>2, <1>3 DEF In
<1> QED BY <1>4 DEF u

(* The head of a sequence and its tail.                                     *)
LEMMA InHeadTail ==
  ASSUME NEW X, NEW s \in Seq(X), s # << >>
    PROVE  In(s) = {Head(s)} \cup In(Tail(s))
<1> DEFINE u == Tail(s)
<1>1. 1 \in DOMAIN s /\ s[1] = Head(s)
  OBVIOUS
<1>2. \A i \in DOMAIN u : i + 1 \in DOMAIN s /\ u[i] = s[i + 1]
  OBVIOUS
<1>3. \A i \in DOMAIN s : i = 1 \/ (i - 1 \in DOMAIN u /\ s[i] = u[i - 1])
  OBVIOUS
<1> HIDE DEF u
<1>4. In(s) = {s[1]} \cup In(u)
  BY <1>1, <1>2, <1>3 DEF In
<1> QED BY <1>1, <1>4 DEF u

(* f goes through the list s and keeps what is in S.                        *)
Filters(f, s, S) ==
  /\ f[0] = << >>
  /\ \A n \in 1..Len(s) :
       f[n] = IF s[n] \in S THEN Append(f[n - 1], s[n]) ELSE f[n - 1]

(* The recursive function inside Keep, and what Keep makes of it.           *)
LEMMA KeepRecursion ==
  ASSUME NEW X, NEW s \in Seq(X), NEW S
  PROVE  \E f \in [0..Len(s) -> Seq(X)] :
           Filters(f, s, S) /\ Keep(s, S) = f[Len(s)]
<1> DEFINE N == Len(s)
           V == Seq(X)
           Step == [p \in (1..N) \X V |->
                     IF s[p[1]] \in S THEN Append(p[2], s[p[1]]) ELSE p[2]]
           Rec(f) == [n \in 0..N |->
                       IF n = 0 THEN << >>
                       ELSE IF s[n] \in S THEN Append(f[n - 1], s[n])
                       ELSE f[n - 1]]
<1>1. Step \in [(1..N) \X V -> V] /\ N \in Nat /\ << >> \in V
  OBVIOUS
<1>2. \E f \in [0..N -> V] : Recursive(f, N, << >>, Step)
  <2> HIDE DEF N, V, Step
  <2> QED BY <1>1, RecursiveFunction
<1> PICK f \in [0..N -> V] : Recursive(f, N, << >>, Step)
  BY <1>2
<1> USE DEF Recursive
<1>3. \A n \in 1..N :
        f[n] = IF s[n] \in S THEN Append(f[n - 1], s[n]) ELSE f[n - 1]
  <2> TAKE n \in 1..N
  <2>1. f[n] = Step[<<n, f[n - 1]>>] /\ <<n, f[n - 1]>> \in (1..N) \X V
    <3> HIDE DEF Step
    <3> QED OBVIOUS
  <2> QED BY <2>1
<1>4. f = Rec(f)
  <2>1. ASSUME NEW n \in 0..N
        PROVE  f[n] = Rec(f)[n]
    <3>1. CASE n = 0
      BY <3>1
    <3>2. CASE n \in 1..N
      BY <3>2, <1>3
    <3> QED BY <3>1, <3>2
  <2>2. f = [n \in 0..N |-> f[n]]
    OBVIOUS
  <2> QED BY <2>1, <2>2
<1> DEFINE g == CHOOSE h : h = Rec(h)
<1>5. g = Rec(g)
  <2> HIDE DEF Rec
  <2> QED BY <1>4, Zenon
<1>6. Keep(s, S) = g[N]
  BY Zenon DEF Keep
<1> HIDE DEF g
<1>7. g[0] = << >>
  BY <1>5
<1>8. \A n \in 1..N :
        g[n] = IF s[n] \in S THEN Append(g[n - 1], s[n]) ELSE g[n - 1]
  <2> TAKE n \in 1..N
  <2>1. n \in 0..N /\ n # 0
    OBVIOUS
  <2>2. g[n] = Rec(g)[n]
    <3> HIDE DEF Rec
    <3> QED BY <1>5, Zenon
  <2> QED BY <2>1, <2>2, Zenon
<1>9. \A n \in 0..N : g[n] \in V
  <2> DEFINE T == {n \in 0..N : g[n] \in V}
  <2>1. 0 \in T
    BY <1>1, <1>7
  <2>2. \A n \in 0..(N - 1) : n \in T => n + 1 \in T
    <3> TAKE n \in 0..(N - 1)
    <3> HAVE n \in T
    <3>1. g[n + 1] = IF s[n + 1] \in S THEN Append(g[n], s[n + 1]) ELSE g[n]
      BY <1>8
    <3>2. g[n] \in Seq(X) /\ s[n + 1] \in X
      BY DEF V
    <3>3. g[n + 1] \in Seq(X)
      BY <3>1, <3>2
    <3> QED BY <3>3 DEF V
  <2> HIDE DEF T, N
  <2>3. 0..N \subseteq T
    BY <1>1, <2>1, <2>2, BoundedInduction
  <2> QED BY <2>3 DEF T
<1>10. g \in [0..N -> V]
  BY <1>5, <1>9
<1>11. Filters(g, s, S)
  BY <1>7, <1>8 DEF Filters
<1> QED BY <1>6, <1>10, <1>11 DEF V

(* Two members of t follow each other as they do in the first n of s.       *)
Follows(t, s, n) ==
  \A i, j \in DOMAIN t :
    i < j => \E a, b \in 1..n : a < b /\ t[i] = s[a] /\ t[j] = s[b]

(* Keep leaves exactly the members in S, in the order they were in.         *)
LEMMA KeepFacts ==
  ASSUME NEW X, NEW s \in Seq(X), NEW S
  PROVE  /\ Keep(s, S) \in Seq(X)
         /\ In(Keep(s, S)) = In(s) \cap S
         /\ Follows(Keep(s, S), s, Len(s))
<1>1. PICK f \in [0..Len(s) -> Seq(X)] :
        Filters(f, s, S) /\ Keep(s, S) = f[Len(s)]
  BY KeepRecursion
<1> DEFINE Prefix(n) == {s[i] : i \in 1..n}
           Good == {n \in 0..Len(s) : /\ In(f[n]) = Prefix(n) \cap S
                                      /\ Follows(f[n], s, n)}
<1>2. 0 \in Good
  <2>1. f[0] = << >> /\ DOMAIN f[0] = {} /\ Prefix(0) = {} /\ 0 \in 0..Len(s)
    BY <1>1 DEF Filters
  <2>2. Follows(f[0], s, 0)
    BY <2>1 DEF Follows
  <2>3. In(f[0]) = {}
    BY <2>1 DEF In
  <2> QED BY <2>1, <2>2, <2>3
<1>3. ASSUME NEW n \in 0..(Len(s) - 1), n \in Good
      PROVE  n + 1 \in Good
  <2> DEFINE e == s[n + 1]
             t == f[n]
             m == Len(t) + 1
             u == f[n + 1]
  <2>1. /\ n \in Nat /\ n + 1 \in 1..Len(s) /\ n + 1 \in 0..Len(s)
        /\ t \in Seq(X) /\ e \in X
    OBVIOUS
  <2>2. Prefix(n + 1) = Prefix(n) \cup {e}
    OBVIOUS
  <2>3. In(t) = Prefix(n) \cap S /\ Follows(t, s, n)
    BY <1>3
  <2>4. u = IF e \in S THEN Append(t, e) ELSE t
    <3>1. (n + 1) - 1 = n
      OBVIOUS
    <3> QED BY <1>1, <2>1, <3>1 DEF Filters
  <2>5. CASE e \in S
    <3>1. u = Append(t, e)
      BY <2>4, <2>5
    <3> HIDE DEF t, e, u, Prefix
    <3>2. /\ DOMAIN u = DOMAIN t \cup {m} /\ u[m] = e
          /\ \A i \in DOMAIN t : i < m /\ u[i] = t[i] /\ i \in Nat
      BY <2>1, <3>1
    <3> HIDE DEF m
    <3>3. In(u) = Prefix(n + 1) \cap S
      <4>1. In(u) = In(t) \cup {e}
        BY <2>1, <3>1, InAppend
      <4> QED BY <4>1, <2>2, <2>3, <2>5
    <3>4. Follows(u, s, n + 1)
      <4> SUFFICES ASSUME NEW i \in DOMAIN u, NEW j \in DOMAIN u, i < j
                   PROVE  \E a, b \in 1..(n + 1) :
                            a < b /\ u[i] = s[a] /\ u[j] = s[b]
        BY DEF Follows
      <4>1. i \in DOMAIN t
        <5>1. m \in Nat
          BY <2>1 DEF m
        <5>2. i # m
          BY <3>2, <5>1
        <5> QED BY <3>2, <5>2
      <4>2. CASE j = m
        <5>1. u[i] \in Prefix(n)
          BY <2>3, <3>2, <4>1 DEF In
        <5>2. PICK a \in 1..n : u[i] = s[a]
          BY <5>1 DEF Prefix
        <5>3. a \in 1..(n + 1) /\ n + 1 \in 1..(n + 1) /\ a < n + 1
          BY <2>1
        <5>4. u[j] = s[n + 1]
          BY <4>2, <3>2 DEF e
        <5> QED BY <5>2, <5>3, <5>4
      <4>3. CASE j \in DOMAIN t
        <5>1. PICK a \in 1..n, b \in 1..n :
                a < b /\ t[i] = s[a] /\ t[j] = s[b]
          BY <4>1, <4>3, <2>3 DEF Follows
        <5> QED BY <5>1, <4>1, <4>3, <3>2, <2>1
      <4> QED BY <4>2, <4>3, <3>2
    <3> QED BY <2>1, <3>3, <3>4 DEF u
  <2>6. CASE e \notin S
    <3>1. u = t
      BY <2>4, <2>6
    <3> HIDE DEF t, e, u, Prefix
    <3>2. Follows(u, s, n + 1)
      <4> SUFFICES ASSUME NEW i \in DOMAIN t, NEW j \in DOMAIN t, i < j
                   PROVE  \E a, b \in 1..(n + 1) :
                            a < b /\ t[i] = s[a] /\ t[j] = s[b]
        BY <3>1 DEF Follows
      <4>1. PICK a \in 1..n, b \in 1..n :
              a < b /\ t[i] = s[a] /\ t[j] = s[b]
        BY <2>3 DEF Follows
      <4> QED BY <4>1, <2>1
    <3>3. In(u) = Prefix(n + 1) \cap S
      BY <2>2, <2>3, <2>6, <3>1
    <3> QED BY <2>1, <3>2, <3>3 DEF u
  <2> QED BY <2>5, <2>6
<1>4. 0..Len(s) \subseteq Good
  <2>1. Len(s) \in Nat
    OBVIOUS
  <2> HIDE DEF Good
  <2> QED BY <1>2, <1>3, <2>1, BoundedInduction
<1>5. Len(s) \in Good
  <2>1. Len(s) \in 0..Len(s)
    OBVIOUS
  <2> HIDE DEF Good
  <2> QED BY <1>4, <2>1
<1>6. In(s) = Prefix(Len(s))
  BY DEF In
<1>7. /\ In(f[Len(s)]) = Prefix(Len(s)) \cap S /\ Follows(f[Len(s)], s, Len(s))
      /\ f[Len(s)] \in Seq(X)
  BY <1>5
<1> HIDE DEF Prefix
<1> QED BY <1>1, <1>6, <1>7-----------------------------------------------------------------------------
(* Any two members of s, in their order, are a pair of R.                   *)
Sorted(s, R) == \A i, j \in DOMAIN s : i < j => <<s[i], s[j]>> \in R

(* Order survives the unlinking of members,                                 *)
LEMMA SortedKeep ==
  ASSUME NEW X, NEW s \in Seq(X), NEW S, NEW R, Sorted(s, R)
  PROVE  Sorted(Keep(s, S), R)
<1> DEFINE t == Keep(s, S)
<1>1. Follows(t, s, Len(s)) /\ DOMAIN s = 1..Len(s)
  BY KeepFacts
<1> HIDE DEF t
<1>2. ASSUME NEW i \in DOMAIN t, NEW j \in DOMAIN t, i < j
      PROVE  <<t[i], t[j]>> \in R
  <2>1. PICK a \in 1..Len(s), b \in 1..Len(s) : a < b /\ t[i] = s[a] /\ t[j] = s[b]
    BY <1>1, <1>2 DEF Follows
  <2> QED BY <2>1, <1>1 DEF Sorted
<1> QED BY <1>2 DEF Sorted, t

(* the appending of a list that comes after it,                             *)
LEMMA SortedConcat ==
  ASSUME NEW X, NEW s \in Seq(X), NEW t \in Seq(X), NEW R,
         Sorted(s, R), Sorted(t, R), In(s) \X In(t) \subseteq R
  PROVE  Sorted(s \o t, R)
<1> DEFINE u == s \o t
<1>1. \A i \in DOMAIN u : i \in Nat /\ \/ i <= Len(s) /\ i \in DOMAIN s /\ u[i] = s[i]
                                       \/ /\ i > Len(s) /\ i - Len(s) \in DOMAIN t
                                          /\ u[i] = t[i - Len(s)]
  OBVIOUS
<1>2. Len(s) \in Nat
  OBVIOUS
<1> HIDE DEF u
<1>3. ASSUME NEW i \in DOMAIN u, NEW j \in DOMAIN u, i < j
      PROVE  <<u[i], u[j]>> \in R
  <2>1. CASE j <= Len(s)
    <3>1. i \in DOMAIN s /\ j \in DOMAIN s /\ u[i] = s[i] /\ u[j] = s[j]
      BY <1>1, <1>2, <1>3, <2>1
    <3> QED BY <3>1, <1>3 DEF Sorted
  <2>2. CASE i > Len(s)
    <3>1. /\ i - Len(s) \in DOMAIN t /\ u[i] = t[i - Len(s)]
          /\ j - Len(s) \in DOMAIN t /\ u[j] = t[j - Len(s)]
          /\ i - Len(s) < j - Len(s)
      BY <1>1, <1>2, <1>3, <2>2
    <3> QED BY <3>1 DEF Sorted
  <2>3. CASE i <= Len(s) /\ j > Len(s)
    <3>1. /\ i \in DOMAIN s /\ u[i] = s[i]
          /\ j - Len(s) \in DOMAIN t /\ u[j] = t[j - Len(s)]
      BY <1>1, <1>2, <2>3
    <3>2. u[i] \in In(s) /\ u[j] \in In(t)
      BY <3>1 DEF In
    <3> QED BY <3>2
  <2> QED BY <2>1, <2>2, <2>3, <1>1, <1>2
<1> QED BY <1>3 DEF Sorted, u

(* the linking of a member that comes before it,                            *)
LEMMA SortedCons ==
  ASSUME NEW X, NEW s \in Seq(X), NEW e \in X, NEW R,
         Sorted(s, R), {e} \X In(s) \subseteq R
  PROVE  Sorted(<<e>> \o s, R)
<1> DEFINE o == <<e>>
<1>1. o \in Seq(X) /\ In(o) = {e} /\ Sorted(o, R)
  BY DEF In, Sorted
<1> HIDE DEF o
<1>2. Sorted(o \o s, R)
  BY <1>1, SortedConcat
<1> QED BY <1>2 DEF o

(* the unlinking of its head,                                               *)
LEMMA SortedTail ==
  ASSUME NEW X, NEW s \in Seq(X), s # << >>, NEW R, Sorted(s, R)
  PROVE  Sorted(Tail(s), R) /\ {Head(s)} \X In(Tail(s)) \subseteq R
<1> DEFINE u == Tail(s)
<1>1. \A i \in DOMAIN u : i \in Nat /\ i + 1 > 1 /\ i + 1 \in DOMAIN s /\ u[i] = s[i + 1]
  OBVIOUS
<1>2. 1 \in DOMAIN s /\ s[1] = Head(s)
  OBVIOUS
<1> HIDE DEF u
<1>3. Sorted(u, R)
  BY <1>1 DEF Sorted
<1>4. \A i \in DOMAIN u : <<s[1], u[i]>> \in R
  BY <1>1, <1>2 DEF Sorted
<1>5. \A x \in In(u) : <<Head(s), x>> \in R
  BY <1>2, <1>4 DEF In
<1> QED BY <1>3, <1>5 DEF u

(* and a change of the order that leaves its members' order alone.          *)
LEMMA SortedChange ==
  ASSUME NEW s, NEW R, NEW Q, Sorted(s, R),
         \A x, y \in In(s) : <<x, y>> \in R => <<x, y>> \in Q
  PROVE  Sorted(s, Q)
  BY DEF Sorted, In

(* What is sorted by a strict order holds nothing twice.                    *)
LEMMA SortedOnce ==
  ASSUME NEW X, NEW s \in Seq(X), NEW R, Sorted(s, R), \A x : <<x, x>> \notin R
  PROVE  \A i, j \in DOMAIN s : s[i] = s[j] => i = j
<1> SUFFICES ASSUME NEW i \in DOMAIN s, NEW j \in DOMAIN s, s[i] = s[j], i # j
             PROVE  FALSE
  OBVIOUS
<1>1. i < j \/ j < i
  OBVIOUS
<1>2. <<s[i], s[j]>> \in R \/ <<s[j], s[i]>> \in R
  BY <1>1 DEF Sorted
<1> QED BY <1>2
=============================================================================
