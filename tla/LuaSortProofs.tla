----------------------------- MODULE LuaSortProofs -----------------------------
(***************************************************************************)
(* The invariant of table.sort (LuaSort), proved for arrays of any size and *)
(* any integers, and for every answer of the order function.                *)
(***************************************************************************)
EXTENDS LuaSort, ListLemmas, FiniteSetTheorems

(*------------------------------ the invariant ---------------------------*)

(* What a state of the sort is made of.                                     *)
CallType(n) == [lo : 1..n, up : 1..n, rnd : BOOLEAN, n : Nat]
StateType(n) ==
  [pc : {"ends", "low", "high", "right", "left", "done", "invalid"},
   lo : 0..n, up : 0..n, p : 0..n, i : 0..n, j : 0..n, rnd : BOOLEAN,
   calls : Seq(CallType(n))]
SortTypes ==
  /\ array \in Seq(Int) /\ fair \in BOOLEAN
  /\ a \in Seq(Int) /\ Len(a) = Len(array)
  /\ s \in StateType(Len(array))

(* Where the interval, the pivot and the indices of partition are.          *)
Bounds ==
  /\ Sorting => 1 <= s.lo /\ s.lo < s.up
  /\ s.pc = "done" => s.calls = << >> /\ s.lo = 0 /\ s.up = 0
  /\ s.pc \in {"low", "high"} => s.lo < s.p /\ s.p < s.up
  /\ s.pc \in {"right", "left"} => s.lo + 3 <= s.up
  /\ s.pc = "right" => s.lo < s.i /\ s.i < s.up /\ s.lo < s.j /\ s.j < s.up
  /\ s.pc = "left" => s.lo < s.i /\ s.i < s.up /\ s.lo <= s.j /\ s.j < s.up - 1

(* Of a state t: the intervals still to be sorted are apart.                *)
Apart(c, d) == c.up < d.lo \/ d.up < c.lo
AllApart(t) ==
  /\ \A k \in DOMAIN t.calls : /\ t.calls[k].lo <= t.calls[k].up
                               /\ Apart(t, t.calls[k])
  /\ \A k, l \in DOMAIN t.calls : k # l => Apart(t.calls[k], t.calls[l])

(* Each call has at most half of the interval of the one it is in; k calls  *)
(* deep, an interval is k shorter than the array.                           *)
Nested(t, n) ==
  /\ Len(t.calls) + (t.up - t.lo + 1) <= n
  /\ t.up - t.lo + 1 <= Halved(n)[Len(t.calls)]
  /\ \A k \in DOMAIN t.calls :
       /\ k - 1 + (t.calls[k].up - t.calls[k].lo + 1) <= n
       /\ t.calls[k].up - t.calls[k].lo + 1 <= Halved(n)[k - 1]

(* Elements that are not in one interval still to be sorted are in order.   *)
Within(c, x, y) == c.lo <= x /\ y <= c.up
Together(t, x, y) ==
  Within(t, x, y) \/ \E k \in DOMAIN t.calls : Within(t.calls[k], x, y)
Ordered(b, t) ==
  \A x, y \in 1..Len(b) : x < y => b[x] <= b[y] \/ Together(t, x, y)

(* What the comparisons of this interval have shown.                        *)
Compared ==
  /\ s.pc = "low" => a[s.lo] <= a[s.up]
  /\ s.pc = "high" => a[s.lo] <= a[s.up] /\ a[s.lo] <= a[s.p]
  /\ s.pc \in {"right", "left"} =>
       /\ \A x \in s.lo..(s.i - 1) : a[x] <= a[s.up - 1]
       /\ \A x \in (IF s.pc = "right" THEN s.j ELSE s.j + 1)..s.up : a[s.up - 1] <= a[x]
  /\ s.pc = "left" => a[s.up - 1] <= a[s.i]

SameElements == \A x \in Int : Count(a, x) = Count(array, x)

SortInv ==
  /\ SortTypes /\ Bounds /\ SameElements
  /\ Sorting => AllApart(s) /\ Nested(s, Len(array))
  /\ fair => s.pc # "invalid" /\ Compared /\ Ordered(a, s)

-----------------------------------------------------------------------------
(* What halving gives.                                                      *)
LEMMA HalvedFacts ==
  ASSUME NEW n \in Nat
  PROVE  /\ Halved(n) \in [0..n -> Nat] /\ Halved(n)[0] = n
         /\ \A d \in 1..n : Halved(n)[d] = Halved(n)[d - 1] \div 2
<1> DEFINE G == [p \in (1..n) \X Nat |-> p[2] \div 2]
           Rec(f) == [d \in 0..n |-> IF d = 0 THEN n ELSE f[d - 1] \div 2]
<1>1. G \in [(1..n) \X Nat -> Nat]
  OBVIOUS
<1>2. \E f \in [0..n -> Nat] : Recursive(f, n, n, G)
  <2> HIDE DEF G
  <2> QED BY <1>1, RecursiveFunction
<1>3. PICK f \in [0..n -> Nat] : Recursive(f, n, n, G)
  BY <1>2
<1>4. f = Rec(f)
  <2>1. ASSUME NEW i \in 0..n PROVE f[i] = Rec(f)[i]
    <3>1. CASE i = 0
      BY <3>1, <1>3 DEF Recursive
    <3>2. CASE i \in 1..n
      <4>1. f[i - 1] \in Nat /\ <<i, f[i - 1]>> \in (1..n) \X Nat
        BY <3>2
      <4>2. f[i] = G[<<i, f[i - 1]>>]
        BY <3>2, <1>3 DEF Recursive
      <4> QED BY <4>1, <4>2, <3>2
    <3> QED BY <3>1, <3>2
  <2> QED BY <2>1
<1> DEFINE g == CHOOSE h : h = Rec(h)
<1>5. g = Rec(g)
  <2> HIDE DEF Rec
  <2> QED BY <1>4, Zenon
<1>6. Halved(n) = g
  BY Zenon DEF Halved
<1> HIDE DEF g
<1>7. g[0] = n /\ DOMAIN g = 0..n
  BY <1>5
<1>8. \A d \in 1..n : g[d] = g[d - 1] \div 2
  BY <1>5
<1> DEFINE S == {i \in 0..n : g[i] \in Nat}
<1>9. 0 \in S
  BY <1>7
<1>10. \A i \in 0..(n - 1) : i \in S => i + 1 \in S
  <2> TAKE i \in 0..(n - 1)
  <2> HAVE i \in S
  <2>1. g[i + 1] = g[i] \div 2
    BY <1>8
  <2> QED BY <2>1
<1>11. 0..n \subseteq S
  <2> HIDE DEF S
  <2> QED BY <1>9, <1>10, BoundedInduction
<1>12. g = [d \in 0..n |-> g[d]]
  BY <1>5
<1>13. g \in [0..n -> Nat]
  BY <1>11, <1>12
<1> QED BY <1>6, <1>7, <1>8, <1>13

(* The innermost call with an interval left is the greatest.                *)
LEMMA Innermost ==
  ASSUME NEW N \in Nat, NEW S \in SUBSET (1..N), S # {}
  PROVE  Max(S) \in S /\ \A y \in S : Max(S) >= y
<1>1. S \in SUBSET (0..N)
  OBVIOUS
<1> QED BY <1>1, GreatestNumber DEF Max

(* The loop goes on within an interval that was pending, or is done.        *)
LEMMA LoopGoesOn ==
  ASSUME NEW n \in Nat, NEW t \in StateType(n), NEW u \in Loop(t),
         t.lo < t.up => 1 <= t.lo, AllApart(t), Nested(t, n)
  PROVE  /\ u \in StateType(n)
         /\ \/ u = Idle
            \/ /\ u.pc = "ends" /\ 1 <= u.lo /\ u.lo < u.up
               /\ AllApart(u) /\ Nested(u, n)
         /\ \A x, y \in 1..n : x < y /\ Together(t, x, y) => Together(u, x, y)
<1> DEFINE open == { k \in DOMAIN t.calls : t.calls[k].lo < t.calls[k].up }
<1>0. /\ t.calls \in Seq(CallType(n)) /\ Len(t.calls) \in Nat
      /\ DOMAIN t.calls = 1..Len(t.calls)
      /\ \A k \in 1..Len(t.calls) : t.calls[k] \in CallType(n)
  BY DEF StateType
<1>1. CASE t.lo < t.up
  <2>1. u = [t EXCEPT !.pc = "ends"]
    BY <1>1 DEF Loop
  <2>2. /\ u \in StateType(n) /\ u.pc = "ends"
        /\ u.lo = t.lo /\ u.up = t.up /\ u.calls = t.calls
    BY <2>1 DEF StateType
  <2> QED BY <2>2, <1>1 DEF AllApart, Apart, Nested, Together, Within
<1>2. CASE ~(t.lo < t.up) /\ open = {}
  <2>1. u = Idle
    BY <1>2, Zenon DEF Loop
  <2>2. u \in StateType(n)
    BY <2>1 DEF StateType, Idle
  <2>3. ASSUME NEW x \in 1..n, NEW y \in 1..n, x < y, Together(t, x, y)
        PROVE  FALSE
    <3>1. ~Within(t, x, y)
      BY <2>3, <1>2 DEF Within, StateType
    <3>2. PICK k \in DOMAIN t.calls : Within(t.calls[k], x, y)
      BY <3>1, <2>3 DEF Together
    <3>3. ~(t.calls[k].lo < t.calls[k].up) /\ t.calls[k] \in CallType(n)
      BY <1>2, <1>0
    <3> QED BY <3>2, <3>3, <2>3 DEF Within, CallType
  <2> QED BY <2>1, <2>2, <2>3
<1>3. CASE ~(t.lo < t.up) /\ open # {}
  <2>1. open \in SUBSET (1..Len(t.calls))
    BY <1>0
  <2> DEFINE k == Max(open)
  <2>2. k \in open /\ \A y \in open : k >= y
    <3> HIDE DEF open
    <3> QED BY <2>1, <1>3, <1>0, Innermost
  <2>3. \E r \in BOOLEAN :
          u = [t EXCEPT !.pc = "ends", !.lo = t.calls[k].lo, !.up = t.calls[k].up,
                        !.rnd = r, !.calls = SubSeq(t.calls, 1, k - 1)]
    <3>1. t.calls[k].rnd \in BOOLEAN
      BY <1>0, <2>1, <2>2 DEF CallType
    <3> QED BY <1>3, <3>1, Zenon DEF Loop
  <2> HIDE DEF k
  <2>4. PICK r \in BOOLEAN :
          u = [t EXCEPT !.pc = "ends", !.lo = t.calls[k].lo, !.up = t.calls[k].up,
                        !.rnd = r, !.calls = SubSeq(t.calls, 1, k - 1)]
    BY <2>3
  <2>5. k \in 1..Len(t.calls) /\ t.calls[k] \in CallType(n) /\ t.calls[k].lo < t.calls[k].up
    BY <2>1, <2>2, <1>0
  <2> DEFINE cs == SubSeq(t.calls, 1, k - 1)
  <2>6. /\ k - 1 \in 0..Len(t.calls) /\ cs \in Seq(CallType(n)) /\ Len(cs) = k - 1
        /\ DOMAIN cs = 1..(k - 1) /\ \A i \in 1..(k - 1) : cs[i] = t.calls[i]
    BY <2>5, <1>0, PrefixSeq
  <2> HIDE DEF cs
  <2>7. /\ u.pc = "ends" /\ u.lo = t.calls[k].lo /\ u.up = t.calls[k].up /\ u.calls = cs
    BY <2>4 DEF StateType, cs
  <2>8. u \in StateType(n)
    <3>1. t.calls[k].lo \in 0..n /\ t.calls[k].up \in 0..n
      BY <2>5 DEF CallType
    <3> QED BY <2>4, <2>6, <3>1 DEF StateType, cs
  <2>9. AllApart(u)
    <3>1. ASSUME NEW i \in 1..(k - 1)
          PROVE  /\ i \in DOMAIN t.calls /\ k \in DOMAIN t.calls /\ i # k
                 /\ cs[i] = t.calls[i]
      BY <2>5, <2>6, <1>0
    <3>2. \A i \in 1..(k - 1) : Apart(u, cs[i]) /\ cs[i].lo <= cs[i].up
      BY <3>1, <2>7 DEF AllApart, Apart
    <3>3. \A i, l \in 1..(k - 1) : i # l => Apart(cs[i], cs[l])
      BY <3>1 DEF AllApart
    <3> QED BY <3>2, <3>3, <2>6, <2>7 DEF AllApart
  <2>10. Nested(u, n)
    <3>1. k \in DOMAIN t.calls /\ Len(u.calls) = k - 1 /\ DOMAIN u.calls = 1..(k - 1)
      BY <2>5, <2>6, <2>7, <1>0
    <3>2. /\ Len(u.calls) + (u.up - u.lo + 1) <= n
          /\ u.up - u.lo + 1 <= Halved(n)[Len(u.calls)]
      BY <3>1, <2>7 DEF Nested
    <3>3. \A i \in 1..(k - 1) : i \in DOMAIN t.calls /\ u.calls[i] = t.calls[i]
      BY <2>5, <2>6, <2>7, <1>0
    <3> QED BY <3>1, <3>2, <3>3 DEF Nested
  <2>11. ASSUME NEW x \in 1..n, NEW y \in 1..n, x < y, Together(t, x, y)
         PROVE  Together(u, x, y)
    <3>1. ~Within(t, x, y)
      BY <2>11, <1>3 DEF Within, StateType
    <3>2. PICK l \in DOMAIN t.calls : Within(t.calls[l], x, y)
      BY <3>1, <2>11 DEF Together
    <3>3. t.calls[l] \in CallType(n) /\ t.calls[l].lo < t.calls[l].up /\ l \in 1..Len(t.calls)
      <4>1. l \in 1..Len(t.calls) /\ t.calls[l] \in CallType(n)
        BY <1>0
      <4>2. t.calls[l].lo \in 1..n /\ t.calls[l].up \in 1..n
        BY <4>1 DEF CallType
      <4>3. t.calls[l].lo <= x /\ y <= t.calls[l].up
        BY <3>2 DEF Within
      <4> QED BY <4>1, <4>2, <4>3, <2>11, <1>0
    <3>4. l \in open /\ k >= l
      BY <2>2, <3>3, <1>0
    <3>5. CASE l = k
      BY <3>5, <3>2, <2>7 DEF Together, Within
    <3>6. CASE l # k
      <4>1. l \in 1..(k - 1) /\ l \in DOMAIN u.calls /\ u.calls[l] = t.calls[l]
        BY <3>6, <3>4, <3>3, <2>5, <2>6, <2>7
      <4> QED BY <4>1, <3>2 DEF Together
    <3> QED BY <3>5, <3>6
  <2> QED BY <2>5, <2>7, <2>8, <2>9, <2>10, <2>11 DEF CallType
<1> QED BY <1>1, <1>2, <1>3

-----------------------------------------------------------------------------
(* Two elements of b in each other's place.                                 *)
Exchanged(b, p, q) == [b EXCEPT ![p] = b[q], ![q] = b[p]]

(* What an exchange is.                                                     *)
LEMMA ExchangedFacts ==
  ASSUME NEW b \in Seq(Int), NEW p \in 1..Len(b), NEW q \in 1..Len(b)
  PROVE  /\ Exchanged(b, p, q) \in Seq(Int) /\ Len(Exchanged(b, p, q)) = Len(b)
         /\ Exchanged(b, p, q)[p] = b[q] /\ Exchanged(b, p, q)[q] = b[p]
         /\ \A k \in 1..Len(b) : k # p /\ k # q => Exchanged(b, p, q)[k] = b[k]
  BY DEF Exchanged

(* An exchange loses and doubles no element: its places are those of b, two *)
(* of them exchanged.                                                       *)
LEMMA ExchangedCount ==
  ASSUME NEW b \in Seq(Int), NEW p \in 1..Len(b), NEW q \in 1..Len(b), NEW x
  PROVE  Count(Exchanged(b, p, q), x) = Count(b, x)
<1> DEFINE c == Exchanged(b, p, q)
           S == { i \in 1..Len(b) : b[i] = x }
           T == { i \in 1..Len(b) : c[i] = x }
           f == [i \in S |-> IF i = p THEN q ELSE IF i = q THEN p ELSE i]
<1>1. /\ c \in Seq(Int) /\ Len(c) = Len(b) /\ c[p] = b[q] /\ c[q] = b[p]
      /\ \A k \in 1..Len(b) : k # p /\ k # q => c[k] = b[k]
  BY ExchangedFacts
<1> HIDE DEF c
<1>2. /\ Count(b, x) = Cardinality(S) /\ Count(c, x) = Cardinality(T)
  <2>1. DOMAIN b = 1..Len(b) /\ DOMAIN c = 1..Len(b)
    BY <1>1
  <2> QED BY <2>1, Zenon DEF Count
<1>3. f \in Bijection(S, T)
  <2>1. f \in [S -> T]
    BY <1>1
  <2>2. \A i, j \in S : f[i] = f[j] => i = j
    OBVIOUS
  <2>3. ASSUME NEW j \in T PROVE \E i \in S : f[i] = j
    <3> DEFINE i == IF j = p THEN q ELSE IF j = q THEN p ELSE j
    <3>1. i \in S /\ f[i] = j
      BY <1>1, <2>3
    <3> QED BY <3>1
  <2> HIDE DEF f, S, T
  <2> QED BY <2>1, <2>2, <2>3, Zenon DEF Bijection, Injection, Surjection, IsInjective
<1>4. IsFiniteSet(S)
  <2>1. IsFiniteSet(1..Len(b))
    BY FS_Interval
  <2>2. S \subseteq 1..Len(b)
    OBVIOUS
  <2> HIDE DEF S
  <2> QED BY <2>1, <2>2, FS_Subset
<1>5. ExistsBijection(S, T)
  <2> HIDE DEF S, T, f
  <2> QED BY <1>3 DEF ExistsBijection
<1>6. Cardinality(T) = Cardinality(S)
  <2> HIDE DEF S, T, f
  <2> QED BY <1>4, <1>5, FS_Bijection
<1> QED BY <1>2, <1>6 DEF c

(* An exchange within the interval keeps the order of what is not in one.   *)
LEMMA ExchangedOrdered ==
  ASSUME NEW b \in Seq(Int), NEW t \in StateType(Len(b)), 1 <= t.lo,
         NEW p \in t.lo..t.up, NEW q \in t.lo..t.up, AllApart(t), Ordered(b, t)
  PROVE  Ordered(Exchanged(b, p, q), t)
<1> DEFINE n == Len(b)
           c == Exchanged(b, p, q)
           at(x) == IF x = p THEN q ELSE IF x = q THEN p ELSE x
<1>1. t.lo \in 1..n /\ t.up \in 0..n /\ p \in 1..n /\ q \in 1..n /\ n \in Nat
  BY DEF StateType
<1>2. /\ c \in Seq(Int) /\ Len(c) = n /\ c[p] = b[q] /\ c[q] = b[p]
      /\ \A k \in 1..n : k # p /\ k # q => c[k] = b[k]
  BY <1>1, ExchangedFacts
<1> HIDE DEF c, n
<1> SUFFICES ASSUME NEW x \in 1..n, NEW y \in 1..n, x < y, ~Together(t, x, y)
             PROVE  c[x] <= c[y]
  BY <1>2, Zenon DEF Ordered, c, n
<1>3. at(x) \in 1..n /\ at(y) \in 1..n /\ c[x] = b[at(x)] /\ c[y] = b[at(y)]
  BY <1>1, <1>2
<1>4. ~Within(t, x, y)
  BY DEF Together
<1>a. /\ IF x \in t.lo..t.up THEN at(x) \in t.lo..t.up ELSE at(x) = x
      /\ IF y \in t.lo..t.up THEN at(y) \in t.lo..t.up ELSE at(y) = y
  BY <1>1
<1> HIDE DEF at
<1>5. at(x) < at(y) /\ ~Within(t, at(x), at(y))
  <2>1. t.lo \in Int /\ t.up \in Int /\ x \in Int /\ y \in Int /\ at(x) \in Int /\ at(y) \in Int
    BY <1>1, <1>3
  <2>2. ~(t.lo <= x /\ y <= t.up)
    BY <1>4 DEF Within
  <2>3. at(x) < at(y)
    BY <2>1, <2>2, <1>a, SMTT(30)
  <2>4. ~(t.lo <= at(x) /\ at(y) <= t.up)
    BY <2>1, <2>2, <1>a, SMTT(30)
  <2> QED BY <2>3, <2>4 DEF Within
<1>6. ASSUME NEW k \in DOMAIN t.calls, Within(t.calls[k], at(x), at(y)) PROVE FALSE
  <2>1. ~Within(t.calls[k], x, y)
    BY DEF Together
  <2>2. Apart(t, t.calls[k])
    BY DEF AllApart
  <2>3. t.calls[k] \in CallType(n)
    BY DEF StateType, n
  <2>4. t.calls[k].lo \in 1..n /\ t.calls[k].up \in 1..n
    BY <2>3 DEF CallType
  <2>5. /\ t.lo \in Int /\ t.up \in Int /\ x \in Int /\ y \in Int /\ at(x) \in Int /\ at(y) \in Int
        /\ t.calls[k].lo \in Int /\ t.calls[k].up \in Int
    <3>1. t.lo \in Int /\ t.up \in Int /\ x \in Int /\ y \in Int
      BY <1>1
    <3>2. at(x) \in Int /\ at(y) \in Int
      BY <1>1, <1>3
    <3>3. t.calls[k].lo \in Int /\ t.calls[k].up \in Int
      BY <1>1, <2>4
    <3> QED BY <3>1, <3>2, <3>3
  <2>6. t.calls[k].lo <= at(x) /\ at(y) <= t.calls[k].up
    BY <1>6 DEF Within
  <2>7. ~(t.calls[k].lo <= x /\ y <= t.calls[k].up) /\ ~(t.lo <= x /\ y <= t.up)
    BY <1>4, <2>1 DEF Within
  <2>8. t.up < t.calls[k].lo \/ t.calls[k].up < t.lo
    BY <2>2 DEF Apart
  <2> QED BY <1>a, <2>5, <2>6, <2>7, <2>8, SMTT(30)
<1>7. ~Together(t, at(x), at(y))
  BY <1>5, <1>6 DEF Together
<1>8. b[at(x)] <= b[at(y)]
  <2> QED BY <1>3, <1>5, <1>7 DEF Ordered, n
<1> QED BY <1>3, <1>8

(* When the interval is sorted, the loop goes on with what else is pending. *)
LEMMA ReturnGoesOn ==
  ASSUME NEW n \in Nat, NEW t \in StateType(n), NEW u \in Return(t),
         1 <= t.lo, t.lo < t.up, AllApart(t), Nested(t, n)
  PROVE  /\ u \in StateType(n)
         /\ \/ u = Idle
            \/ /\ u.pc = "ends" /\ 1 <= u.lo /\ u.lo < u.up
               /\ AllApart(u) /\ Nested(u, n)
         /\ \A x, y \in 1..n :
              x < y /\ Together(t, x, y) => Together(u, x, y) \/ Within(t, x, y)
<1> DEFINE r == [t EXCEPT !.lo = t.up]
<1>0. /\ t.calls \in Seq(CallType(n)) /\ Len(t.calls) \in Nat
      /\ DOMAIN t.calls = 1..Len(t.calls)
      /\ \A k \in 1..Len(t.calls) : t.calls[k] \in CallType(n)
  BY DEF StateType
<1>1. /\ r \in StateType(n) /\ r.lo = t.up /\ r.up = t.up /\ r.calls = t.calls
  BY DEF StateType
<1>2. u \in Loop(r)
  BY Zenon DEF Return
<1> HIDE DEF r
<1>3. AllApart(r)
  <2>1. t.lo \in 0..n /\ t.up \in 0..n
    BY DEF StateType
  <2>2. ASSUME NEW k \in DOMAIN t.calls
        PROVE  t.calls[k].lo <= t.calls[k].up /\ Apart(r, t.calls[k])
    <3>1. t.calls[k].lo \in 1..n /\ t.calls[k].up \in 1..n
      BY <1>0 DEF CallType
    <3>2. t.calls[k].lo <= t.calls[k].up /\ Apart(t, t.calls[k])
      BY DEF AllApart
    <3> QED BY <2>1, <3>1, <3>2, <1>1 DEF Apart
  <2> QED BY <2>2, <1>1 DEF AllApart
<1>4. Nested(r, n)
  <2>1. Len(t.calls) + (t.up - t.lo + 1) <= n
    BY DEF Nested
  <2>2. t.lo \in 0..n /\ t.up \in 0..n
    BY DEF StateType
  <2>3. Len(t.calls) \in 0..n
    BY <2>1, <2>2, <1>0
  <2>4. Halved(n)[Len(t.calls)] \in Nat
    BY <2>3, HalvedFacts
  <2>5. t.up - t.lo + 1 <= Halved(n)[Len(t.calls)]
    BY DEF Nested
  <2>6. Len(t.calls) + (t.up - t.up + 1) <= n /\ t.up - t.up + 1 <= Halved(n)[Len(t.calls)]
    BY <2>1, <2>2, <2>4, <2>5, <1>0
  <2> QED BY <2>6, <1>1 DEF Nested
<1>5. ASSUME NEW x \in 1..n, NEW y \in 1..n, x < y, Together(t, x, y)
      PROVE  Together(r, x, y) \/ Within(t, x, y)
  BY <1>1, <1>5 DEF Together
<1>6. r.lo < r.up => 1 <= r.lo
  BY <1>1 DEF StateType
<1> QED BY <1>1, <1>2, <1>3, <1>4, <1>5, <1>6, LoopGoesOn

(* After a partition the loop goes on with the smaller of its two parts; the *)
(* pivot is in order with everything.                                       *)
LEMMA RecurseFacts ==
  ASSUME NEW n \in Nat, NEW t \in StateType(n), 1 <= t.lo,
         NEW p \in (t.lo + 1)..(t.up - 1), AllApart(t), Nested(t, n)
  PROVE  /\ Recurse(t, p) \in StateType(n) /\ 1 <= Recurse(t, p).lo
         /\ AllApart(Recurse(t, p)) /\ Nested(Recurse(t, p), n)
         /\ \A x, y \in 1..n :
              x < y /\ Together(t, x, y) =>
                Together(Recurse(t, p), x, y) \/ (Within(t, x, y) /\ x <= p /\ p <= y)
<1> DEFINE low == [lo |-> t.lo, up |-> p - 1]
           high == [lo |-> p + 1, up |-> t.up]
           c == IF p - t.lo < t.up - p THEN low ELSE high
           d == IF p - t.lo < t.up - p THEN high ELSE low
           m == Len(t.calls)
           e == [lo |-> d.lo, up |-> d.up, rnd |-> t.rnd, n |-> c.up - c.lo + 1]
           u == Recurse(t, p)
<1>0. /\ t.calls \in Seq(CallType(n)) /\ m \in Nat
      /\ DOMAIN t.calls = 1..m /\ t.rnd \in BOOLEAN
      /\ \A k \in 1..m : t.calls[k] \in CallType(n)
  BY DEF StateType
<1>a. t.lo \in 1..n /\ t.up \in 1..n /\ p \in Int /\ t.lo < p /\ p < t.up
  <2>1. t.lo \in 0..n /\ t.up \in 0..n
    BY DEF StateType
  <2> QED BY <2>1
<1>1. /\ c.lo \in 1..n /\ c.up \in 1..n /\ d.lo \in 1..n /\ d.up \in 1..n
      /\ c.lo <= c.up /\ d.lo <= d.up
      /\ 2 * (c.up - c.lo + 1) <= t.up - t.lo + 1
      /\ c.up - c.lo + 1 <= t.up - t.lo /\ d.up - d.lo + 1 <= t.up - t.lo
      /\ Apart(c, d) /\ t.lo <= c.lo /\ c.up <= t.up /\ t.lo <= d.lo /\ d.up <= t.up
  <2>1. CASE p - t.lo < t.up - p
    <3>1. c = low /\ d = high
      BY <2>1
    <3> HIDE DEF c, d
    <3> QED BY <1>a, <2>1, <3>1 DEF Apart
  <2>2. CASE ~(p - t.lo < t.up - p)
    <3>1. c = high /\ d = low
      BY <2>2
    <3> HIDE DEF c, d
    <3> QED BY <1>a, <2>2, <3>1 DEF Apart
  <2> QED BY <2>1, <2>2
<1>2. u = [t EXCEPT !.lo = c.lo, !.up = c.up, !.calls = Append(t.calls, e)]
  BY Zenon DEF Recurse
<1>3. \A x, y \in 1..n :
        Within(t, x, y) => Within(c, x, y) \/ Within(d, x, y) \/ (x <= p /\ p <= y)
  BY <1>a DEF Within
<1> HIDE DEF c, d, low, high
<1>4. e \in CallType(n) /\ e.lo = d.lo /\ e.up = d.up
  BY <1>0, <1>1 DEF CallType
<1> HIDE DEF e
<1> DEFINE cs == Append(t.calls, e)
<1>5. /\ cs \in Seq(CallType(n)) /\ Len(cs) = m + 1 /\ DOMAIN cs = 1..(m + 1)
      /\ cs[m + 1] = e /\ \A i \in 1..m : cs[i] = t.calls[i]
  BY <1>0, <1>4, PushSeq
<1>6. u = [t EXCEPT !.lo = c.lo, !.up = c.up, !.calls = cs]
  BY <1>2
<1> HIDE DEF cs, u
<1>7. u \in StateType(n) /\ u.lo = c.lo /\ u.up = c.up /\ u.calls = cs
  <2>1. c.lo \in 0..n /\ c.up \in 0..n /\ cs \in Seq(CallType(n))
    BY <1>1, <1>5
  <2> QED BY <1>6, <2>1 DEF StateType
<1>8. AllApart(u)
  <2>1. ASSUME NEW k \in 1..m
        PROVE  /\ t.calls[k].lo <= t.calls[k].up /\ Apart(c, t.calls[k])
               /\ Apart(d, t.calls[k])
    <3>1. k \in DOMAIN t.calls /\ t.calls[k] \in CallType(n)
      BY <1>0
    <3>2. t.calls[k].lo <= t.calls[k].up /\ Apart(t, t.calls[k])
      BY <3>1 DEF AllApart
    <3>3. t.calls[k].lo \in 1..n /\ t.calls[k].up \in 1..n
      BY <3>1 DEF CallType
    <3> HIDE DEF m
    <3>4. /\ t.calls[k].lo \in Int /\ t.calls[k].up \in Int /\ c.lo \in Int /\ c.up \in Int
          /\ d.lo \in Int /\ d.up \in Int /\ t.lo \in Int /\ t.up \in Int
      BY <3>3, <1>a, <1>1
    <3>5. t.lo <= c.lo /\ c.up <= t.up /\ t.lo <= d.lo /\ d.up <= t.up
      BY <1>1
    <3> QED BY <3>2, <3>4, <3>5 DEF Apart
  <2>2. ASSUME NEW k \in 1..(m + 1)
        PROVE  cs[k].lo <= cs[k].up /\ Apart(u, cs[k])
    <3>1. CASE k = m + 1
      BY <3>1, <1>1, <1>4, <1>5, <1>7 DEF Apart
    <3>2. CASE k \in 1..m
      BY <3>2, <2>1, <1>5, <1>7 DEF Apart
    <3> QED BY <3>1, <3>2
  <2>3. ASSUME NEW k \in 1..(m + 1), NEW l \in 1..(m + 1), k # l
        PROVE  Apart(cs[k], cs[l])
    <3>1. CASE k = m + 1
      BY <3>1, <2>1, <2>3, <1>4, <1>5, <1>0 DEF Apart
    <3>2. CASE l = m + 1
      <4>1. k \in 1..m
        BY <3>2, <2>3, <1>0
      <4> QED BY <3>2, <4>1, <2>1, <1>4, <1>5 DEF Apart
    <3>3. CASE k \in 1..m /\ l \in 1..m
      BY <3>3, <2>3, <1>5, <1>0 DEF AllApart
    <3> QED BY <3>1, <3>2, <3>3
  <2> QED BY <2>2, <2>3, <1>5, <1>7 DEF AllApart
<1>9. Nested(u, n)
  <2>1. m + (t.up - t.lo + 1) <= n /\ t.up - t.lo + 1 <= Halved(n)[m]
    BY DEF Nested
  <2>2. m \in 0..n /\ m + 1 \in 1..n
    <3>1. m \in Nat
      BY <1>0
    <3> QED BY <2>1, <3>1, <1>a
  <2>3. Halved(n)[m] \in Nat /\ Halved(n)[m + 1] = Halved(n)[m] \div 2
    <3>1. Halved(n)[m] \in Nat /\ Halved(n)[m + 1] = Halved(n)[m + 1 - 1] \div 2
      <4>1. \A k \in 1..n : Halved(n)[k] = Halved(n)[k - 1] \div 2
        BY HalvedFacts
      <4>2. Halved(n)[m] \in Nat
        BY <2>2, HalvedFacts
      <4> HIDE DEF m
      <4> QED BY <2>2, <4>1, <4>2
    <3>2. m + 1 - 1 = m
      BY <2>2
    <3> QED BY <3>1, <3>2
  <2>4. /\ m + 1 + (c.up - c.lo + 1) <= n
        /\ c.up - c.lo + 1 <= Halved(n)[m + 1]
        /\ m + (d.up - d.lo + 1) <= n
        /\ d.up - d.lo + 1 <= Halved(n)[m]
    <3>1. m \in Nat
      BY <1>0
    <3> HIDE DEF m
    <3> QED BY <2>1, <2>3, <3>1, <1>a, <1>1
  <2>5. ASSUME NEW k \in 1..(m + 1)
        PROVE  /\ k - 1 + (cs[k].up - cs[k].lo + 1) <= n
               /\ cs[k].up - cs[k].lo + 1 <= Halved(n)[k - 1]
    <3>1. CASE k = m + 1
      BY <3>1, <2>4, <1>4, <1>5, <1>0
    <3>2. CASE k \in 1..m
      BY <3>2, <1>5, <1>0 DEF Nested
    <3> QED BY <3>1, <3>2
  <2> QED BY <2>4, <2>5, <1>5, <1>7 DEF Nested
<1>10. ASSUME NEW x \in 1..n, NEW y \in 1..n, x < y, Together(t, x, y)
       PROVE  Together(u, x, y) \/ (Within(t, x, y) /\ x <= p /\ p <= y)
  <2>1. CASE Within(t, x, y)
    <3>1. Within(d, x, y) => Within(u.calls[m + 1], x, y) /\ m + 1 \in DOMAIN u.calls
      BY <1>4, <1>5, <1>7, <1>0 DEF Within
    <3>2. Within(c, x, y) => Within(u, x, y)
      BY <1>7 DEF Within
    <3> QED BY <2>1, <3>1, <3>2, <1>3 DEF Together
  <2>2. CASE ~Within(t, x, y)
    <3>1. PICK k \in DOMAIN t.calls : Within(t.calls[k], x, y)
      BY <2>2, <1>10 DEF Together
    <3>2. k \in DOMAIN u.calls /\ u.calls[k] = t.calls[k]
      BY <1>5, <1>7, <1>0
    <3> QED BY <3>1, <3>2 DEF Together
  <2> QED BY <2>1, <2>2
<1>11. 1 <= u.lo
  BY <1>1, <1>7
<1> QED BY <1>7, <1>8, <1>9, <1>10, <1>11 DEF u

-----------------------------------------------------------------------------
(* An array that can take the place of a while the interval is s's.         *)
Keeps(b) ==
  /\ b \in Seq(Int) /\ Len(b) = Len(array)
  /\ \A x \in Int : Count(b, x) = Count(array, x)
  /\ fair => Ordered(b, s)

(* What the invariant says while the sort goes on.                          *)
LEMMA SortingFacts ==
  ASSUME SortInv, Sorting
  PROVE  /\ Len(array) \in Nat /\ s \in StateType(Len(array)) /\ fair \in BOOLEAN
         /\ s.lo \in 1..Len(array) /\ s.up \in 1..Len(array) /\ s.lo < s.up
         /\ s.p \in Int /\ s.i \in Int /\ s.j \in Int
         /\ AllApart(s) /\ Nested(s, Len(array)) /\ Keeps(a)
<1>1. Len(array) \in Nat /\ s \in StateType(Len(array)) /\ fair \in BOOLEAN
  BY DEF SortInv, SortTypes
<1>2. 1 <= s.lo /\ s.lo < s.up
  BY DEF SortInv, Bounds
<1>3. /\ s.lo \in 0..Len(array) /\ s.up \in 0..Len(array)
      /\ s.p \in Int /\ s.i \in Int /\ s.j \in Int
  BY <1>1 DEF StateType
<1>4. Keeps(a)
  BY DEF SortInv, SortTypes, SameElements, Keeps
<1>5. s.lo \in 1..Len(array) /\ s.up \in 1..Len(array)
  BY <1>1, <1>2, <1>3
<1> QED BY <1>1, <1>2, <1>3, <1>4, <1>5 DEF SortInv

(* An exchange within the interval.                                         *)
LEMMA KeepsExchanged ==
  ASSUME SortInv, Sorting, NEW b, Keeps(b), NEW p \in s.lo..s.up, NEW q \in s.lo..s.up
  PROVE  /\ Keeps(Exchanged(b, p, q)) /\ p \in 1..Len(b) /\ q \in 1..Len(b)
         /\ Exchanged(b, p, q)[p] = b[q] /\ Exchanged(b, p, q)[q] = b[p]
         /\ \A k \in 1..Len(b) : k # p /\ k # q => Exchanged(b, p, q)[k] = b[k]
<1>1. /\ Len(array) \in Nat /\ s \in StateType(Len(array)) /\ fair \in BOOLEAN
      /\ s.lo \in 1..Len(array) /\ s.up \in 1..Len(array) /\ AllApart(s)
  BY SortingFacts
<1>2. b \in Seq(Int) /\ Len(b) = Len(array)
  BY DEF Keeps
<1>3. p \in 1..Len(b) /\ q \in 1..Len(b) /\ 1 <= s.lo
  BY <1>1, <1>2
<1>4. /\ Exchanged(b, p, q) \in Seq(Int) /\ Len(Exchanged(b, p, q)) = Len(b)
      /\ Exchanged(b, p, q)[p] = b[q] /\ Exchanged(b, p, q)[q] = b[p]
      /\ \A k \in 1..Len(b) : k # p /\ k # q => Exchanged(b, p, q)[k] = b[k]
  BY <1>2, <1>3, ExchangedFacts
<1>5. \A x \in Int : Count(Exchanged(b, p, q), x) = Count(array, x)
  BY <1>2, <1>3, ExchangedCount DEF Keeps
<1>6. ASSUME fair PROVE Ordered(Exchanged(b, p, q), s)
  <2>1. Ordered(b, s) /\ s \in StateType(Len(b))
    BY <1>1, <1>2, <1>6 DEF Keeps
  <2> QED BY <2>1, <1>1, <1>2, <1>3, ExchangedOrdered
<1> QED BY <1>2, <1>3, <1>4, <1>5, <1>6 DEF Keeps

(* The same of a, as the comparisons exchange its elements.                 *)
LEMMA KeepsSwap ==
  ASSUME SortInv, Sorting, NEW p \in s.lo..s.up, NEW q \in s.lo..s.up
  PROVE  /\ Keeps(Exchanged(a, p, q))
         /\ Exchanged(a, p, q)[p] = a[q] /\ Exchanged(a, p, q)[q] = a[p]
         /\ \A k \in 1..Len(a) : k # p /\ k # q => Exchanged(a, p, q)[k] = a[k]
<1>1. PICK b : b = a
  OBVIOUS
<1>2. Keeps(b)
  BY <1>1, SortingFacts
<1>3. /\ Keeps(Exchanged(b, p, q))
      /\ Exchanged(b, p, q)[p] = b[q] /\ Exchanged(b, p, q)[q] = b[p]
      /\ \A k \in 1..Len(b) : k # p /\ k # q => Exchanged(b, p, q)[k] = b[k]
  BY <1>2, KeepsExchanged, Zenon
<1> QED BY <1>1, <1>3, Zenon

(* What goes on from the loop, with an array in order but for what is       *)
(* pending.                                                                 *)
LEMMA GoesOn ==
  ASSUME SortInv, array' = array, fair' = fair, NEW b, Keeps(b), a' = b,
         s' \in StateType(Len(array)),
         \/ s' = Idle
         \/ /\ s'.pc = "ends" /\ 1 <= s'.lo /\ s'.lo < s'.up
            /\ AllApart(s') /\ Nested(s', Len(array)),
         fair => Ordered(b, s')
  PROVE  SortInv'
<1>1. SortTypes'
  BY DEF SortInv, SortTypes, Keeps
<1>2. SameElements'
  BY DEF Keeps, SameElements
<1>3. CASE s' = Idle
  <2>1. /\ s'.pc = "done" /\ s'.lo = 0 /\ s'.up = 0 /\ s'.calls = << >>
    BY <1>3 DEF Idle
  <2>2. Bounds' /\ ~Sorting'
    BY <2>1 DEF Bounds, Sorting
  <2>3. fair' => s'.pc # "invalid" /\ Compared' /\ Ordered(a', s')
    BY <2>1 DEF Compared
  <2> QED BY <1>1, <1>2, <2>2, <2>3 DEF SortInv
<1>4. CASE /\ s'.pc = "ends" /\ 1 <= s'.lo /\ s'.lo < s'.up
           /\ AllApart(s') /\ Nested(s', Len(array))
  <2>1. Bounds' /\ Sorting'
    BY <1>4 DEF Bounds, Sorting
  <2>2. fair' => s'.pc # "invalid" /\ Compared' /\ Ordered(a', s')
    BY <1>4 DEF Compared
  <2> QED BY <1>1, <1>2, <1>4, <2>1, <2>2 DEF SortInv
<1> QED BY <1>3, <1>4

(* The interval is sorted, and the loop goes on.                            *)
LEMMA Returns ==
  ASSUME SortInv, Sorting, array' = array, fair' = fair, NEW b, Keeps(b), a' = b,
         s' \in Return(s),
         fair => \A x, y \in s.lo..s.up : x < y => b[x] <= b[y]
  PROVE  SortInv'
<1> DEFINE n == Len(array)
<1>1. /\ n \in Nat /\ s \in StateType(n) /\ s.lo \in 1..n /\ s.up \in 1..n /\ s.lo < s.up
      /\ 1 <= s.lo /\ AllApart(s) /\ Nested(s, n)
  BY SortingFacts
<1>2. /\ s' \in StateType(n)
      /\ \/ s' = Idle
         \/ s'.pc = "ends" /\ 1 <= s'.lo /\ s'.lo < s'.up /\ AllApart(s') /\ Nested(s', n)
      /\ \A x, y \in 1..n :
           x < y /\ Together(s, x, y) => Together(s', x, y) \/ Within(s, x, y)
  BY <1>1, ReturnGoesOn
<1>3. ASSUME fair PROVE Ordered(b, s')
  <2> SUFFICES ASSUME NEW x \in 1..n, NEW y \in 1..n, x < y, ~Together(s', x, y)
               PROVE  b[x] <= b[y]
    BY DEF Ordered, Keeps
  <2>1. b[x] <= b[y] \/ Together(s, x, y)
    BY <1>3 DEF Keeps, Ordered
  <2>2. CASE Within(s, x, y)
    <3>1. x \in s.lo..s.up /\ y \in s.lo..s.up
      BY <2>2, <1>1 DEF Within
    <3> QED BY <3>1, <1>3
  <2> QED BY <2>1, <2>2, <1>2
<1> QED BY <1>2, <1>3, GoesOn

-----------------------------------------------------------------------------
(* The pivot is inside of the interval, random or not.                      *)
LEMMA PivotInside ==
  ASSUME NEW n \in Nat, s \in StateType(n), 1 <= s.lo, s.up - s.lo >= 2, NEW p \in Pivots
  PROVE  p \in 0..n /\ s.lo < p /\ p < s.up
<1>1. s.lo \in 0..n /\ s.up \in 0..n
  BY DEF StateType
<1>2. CASE s.up - s.lo < RANLIMIT \/ ~s.rnd
  <2>1. p = (s.lo + s.up) \div 2
    BY <1>2 DEF Pivots
  <2> QED BY <2>1, <1>1
<1>3. CASE ~(s.up - s.lo < RANLIMIT \/ ~s.rnd)
  <2>1. p \in (s.lo + ((s.up - s.lo) \div 4))..(s.lo + 3 * ((s.up - s.lo) \div 4) - 1)
    BY <1>3 DEF Pivots
  <2>2. s.up - s.lo >= 4
    BY <1>1, <1>3, SortAssumption
  <2> QED BY <2>1, <2>2, <1>1
<1> QED BY <1>2, <1>3

(* While it compares, the invariant needs only the new place and what has   *)
(* been compared.                                                           *)
LEMMA StaysIn ==
  ASSUME SortInv, Sorting, array' = array, fair' = fair, NEW b, Keeps(b), a' = b,
         s' \in StateType(Len(array)), s'.lo = s.lo, s'.up = s.up, s'.calls = s.calls,
         s'.pc \notin {"done", "invalid"}, Bounds', fair => Compared'
  PROVE  SortInv'
<1>1. SortTypes' /\ SameElements'
  BY DEF SortInv, SortTypes, Keeps, SameElements
<1>2. AllApart(s') /\ Nested(s', Len(array))
  <2>1. AllApart(s) /\ Nested(s, Len(array))
    BY SortingFacts
  <2> QED BY <2>1 DEF AllApart, Apart, Nested
<1>3. fair => Ordered(a', s')
  BY DEF Keeps, Ordered, Together, Within
<1> QED BY <1>1, <1>2, <1>3 DEF SortInv

(* Both ends are in order; two elements are sorted by that.                 *)
LEMMA CompareEndsInv ==
  ASSUME SortInv, CompareEnds
  PROVE  SortInv'
<1> DEFINE n == Len(array)
<1>0. s.pc = "ends" /\ Sorting /\ array' = array /\ fair' = fair
  BY DEF CompareEnds, Sorting
<1>1. /\ n \in Nat /\ s \in StateType(n) /\ s.lo \in 1..n /\ s.up \in 1..n /\ s.lo < s.up
      /\ Keeps(a) /\ fair \in BOOLEAN
  BY <1>0, SortingFacts
<1>2. PICK less \in Answers(s.up, s.lo) :
        /\ a' = IF less THEN Swap(s.lo, s.up) ELSE a
        /\ IF s.up - s.lo = 1 THEN s' \in Return(s)
           ELSE \E p \in Pivots : s' = [s EXCEPT !.pc = "low", !.p = p]
  BY DEF CompareEnds
<1>3. fair => (less <=> a[s.up] < a[s.lo])
  BY DEF Answers
<1>4. a \in Seq(Int) /\ Len(a) = n /\ a[s.lo] \in Int /\ a[s.up] \in Int
  BY <1>1 DEF Keeps
<1>5. Keeps(a') /\ (fair => a'[s.lo] <= a'[s.up])
  <2>1. CASE less
    <3>1. a' = Exchanged(a, s.lo, s.up)
      BY <2>1, <1>2 DEF Swap, Exchanged
    <3>2. s.lo \in s.lo..s.up /\ s.up \in s.lo..s.up
      BY <1>1
    <3>3. /\ Keeps(Exchanged(a, s.lo, s.up)) /\ Exchanged(a, s.lo, s.up)[s.lo] = a[s.up]
          /\ Exchanged(a, s.lo, s.up)[s.up] = a[s.lo]
      <4>1. PICK p, q : p = s.lo /\ q = s.up
        OBVIOUS
      <4>2. p \in s.lo..s.up /\ q \in s.lo..s.up
        BY <4>1, <3>2
      <4>3. /\ Keeps(Exchanged(a, p, q)) /\ Exchanged(a, p, q)[p] = a[q]
            /\ Exchanged(a, p, q)[q] = a[p]
        BY <4>2, <1>0, KeepsSwap, Zenon
      <4> QED BY <4>1, <4>3
    <3>4. Keeps(a') /\ a'[s.lo] = a[s.up] /\ a'[s.up] = a[s.lo]
      BY <3>1, <3>3
    <3> QED BY <3>4, <2>1, <1>3, <1>4
  <2>2. CASE ~less
    <3>1. a' = a
      BY <2>2, <1>2
    <3> QED BY <3>1, <2>2, <1>1, <1>3, <1>4
  <2> QED BY <2>1, <2>2
<1>6. CASE s.up - s.lo = 1
  <2>1. s' \in Return(s)
    BY <1>2, <1>6
  <2>2. \A x, y \in s.lo..s.up : x < y => x = s.lo /\ y = s.up
    BY <1>1, <1>6
  <2> QED BY <2>1, <2>2, <1>0, <1>5, Returns
<1>7. CASE s.up - s.lo # 1
  <2>1. PICK p \in Pivots : s' = [s EXCEPT !.pc = "low", !.p = p]
    BY <1>2, <1>7
  <2>2. p \in 0..n /\ s.lo < p /\ p < s.up
    BY <1>1, <1>7, PivotInside
  <2>3. /\ s' \in StateType(n) /\ s'.lo = s.lo /\ s'.up = s.up /\ s'.calls = s.calls
        /\ s'.pc = "low" /\ s'.p = p
    BY <2>1, <2>2, <1>1 DEF StateType
  <2>4. Bounds'
    BY <2>2, <2>3, <1>1 DEF Bounds
  <2>5. fair => Compared'
    BY <2>3, <1>5 DEF Compared
  <2> QED BY <2>3, <2>4, <2>5, <1>0, <1>5, StaysIn
<1> QED BY <1>6, <1>7

(* With the middle element between the ends, three are sorted; more are     *)
(* partitioned around it.                                                   *)
LEMMA MiddleInv ==
  ASSUME SortInv, s.pc \in {"low", "high"}, array' = array, fair' = fair,
         NEW b, Keeps(b), Middle(b), fair => b[s.lo] <= b[s.p] /\ b[s.p] <= b[s.up]
  PROVE  SortInv'
<1> DEFINE n == Len(array)
<1>0. Sorting /\ s.lo < s.p /\ s.p < s.up
  BY DEF Sorting, SortInv, Bounds
<1>1. /\ n \in Nat /\ s \in StateType(n) /\ s.lo \in 1..n /\ s.up \in 1..n /\ s.lo < s.up
      /\ s.p \in Int /\ fair \in BOOLEAN
  BY <1>0, SortingFacts
<1>2. b \in Seq(Int) /\ Len(b) = n
  BY DEF Keeps
<1>3. CASE s.up - s.lo = 2
  <2>1. a' = b /\ s' \in Return(s)
    BY <1>3 DEF Middle
  <2>2. s.lo..s.up = {s.lo, s.p, s.up}
    BY <1>0, <1>1, <1>3
  <2>3. b[s.lo] \in Int /\ b[s.p] \in Int /\ b[s.up] \in Int
    <3>1. s.lo \in 1..Len(b) /\ s.p \in 1..Len(b) /\ s.up \in 1..Len(b)
      BY <1>0, <1>1, <1>2
    <3> QED BY <3>1, <1>2
  <2>4. ASSUME fair, NEW x \in s.lo..s.up, NEW y \in s.lo..s.up, x < y
        PROVE  b[x] <= b[y]
    <3>1. b[s.lo] <= b[s.p] /\ b[s.p] <= b[s.up]
      BY <2>4
    <3>2. b[s.lo] <= b[s.up]
      BY <3>1, <2>3
    <3>3. \/ x = s.lo /\ (y = s.p \/ y = s.up)
          \/ x = s.p /\ y = s.up
      BY <2>2, <2>4, <1>0, <1>1
    <3> QED BY <3>1, <3>2, <3>3
  <2> QED BY <2>1, <2>4, <1>0, Returns
<1>4. CASE s.up - s.lo # 2
  <2> DEFINE c == Exchanged(b, s.p, s.up - 1)
  <2>1. a' = c /\ s' = [s EXCEPT !.pc = "right", !.i = s.lo + 1, !.j = s.up - 1]
    BY <1>4 DEF Middle, Exchanged
  <2>2. s.p \in s.lo..s.up /\ s.up - 1 \in s.lo..s.up
    BY <1>0, <1>1
  <2>3. /\ Keeps(c) /\ c[s.up - 1] = b[s.p]
        /\ \A k \in 1..Len(b) : k # s.p /\ k # s.up - 1 => c[k] = b[k]
    <3>1. PICK q \in s.lo..s.up : q = s.up - 1
      BY <2>2
    <3>2. PICK p \in s.lo..s.up : p = s.p
      BY <2>2
    <3>3. Keeps(Exchanged(b, p, q))
      BY <1>0, KeepsExchanged, Zenon
    <3>4. Exchanged(b, p, q)[q] = b[p]
      BY <1>0, KeepsExchanged, Zenon
    <3>5. ASSUME NEW k \in 1..Len(b), k # p, k # q PROVE Exchanged(b, p, q)[k] = b[k]
      BY <3>5, <1>0, KeepsExchanged, ZenonT(30)
    <3> QED BY <3>1, <3>2, <3>3, <3>4, <3>5, Zenon
  <2> HIDE DEF c
  <2>4. /\ s' \in StateType(n) /\ s'.lo = s.lo /\ s'.up = s.up /\ s'.calls = s.calls
        /\ s'.pc = "right" /\ s'.i = s.lo + 1 /\ s'.j = s.up - 1
    <3>1. s.lo + 1 \in 0..n /\ s.up - 1 \in 0..n
      BY <1>1
    <3> QED BY <3>1, <2>1, <1>1 DEF StateType
  <2>5. Bounds'
    <3>1. s.lo \in Int /\ s.up \in Int /\ 1 <= s.lo /\ s.lo + 3 <= s.up
      BY <1>0, <1>1, <1>4
    <3> QED BY <2>4, <3>1 DEF Bounds
  <2>6. c[s.lo] = b[s.lo] /\ c[s.up] = b[s.up] /\ c[s.up - 1] = b[s.p]
    <3>1. s.lo # s.p /\ s.lo # s.up - 1 /\ s.up # s.p /\ s.up # s.up - 1
      BY <1>0, <1>1, <1>4
    <3>2. s.lo \in 1..Len(b) /\ s.up \in 1..Len(b)
      BY <1>1, <1>2
    <3> QED BY <2>3, <3>1, <3>2
  <2>7. ASSUME fair PROVE Compared'
    <3>1. c[s.lo] <= c[s.up - 1] /\ c[s.up - 1] <= c[s.up]
      BY <2>6, <2>7
    <3>2. c[s.up - 1] <= c[s.up - 1]
      <4>1. s.up - 1 \in 1..Len(c) /\ c \in Seq(Int)
        <5>1. s.up - 1 \in 1..n
          BY <1>1
        <5>2. c \in Seq(Int) /\ Len(c) = n
          BY <2>3 DEF Keeps
        <5> QED BY <5>1, <5>2
      <4>2. c[s.up - 1] \in Int
        BY <4>1
      <4> QED BY <4>2
    <3>4. /\ \A x \in s'.lo..(s'.i - 1) : x = s.lo
          /\ \A x \in s'.j..s'.up : x = s.up - 1 \/ x = s.up
      BY <2>4, <1>1
    <3>5. a' = c
      BY <2>1
    <3>6. /\ s'.pc = "right" /\ s'.lo = s.lo /\ s'.up = s.up /\ s'.i = s.lo + 1
          /\ s'.j = s.up - 1
      BY <2>4
    <3>7. /\ \A x \in s'.lo..(s'.i - 1) : a'[x] <= a'[s'.up - 1]
          /\ \A x \in s'.j..s'.up : a'[s'.up - 1] <= a'[x]
      BY <3>1, <3>2, <3>4, <3>5, <3>6
    <3> QED BY <3>6, <3>7 DEF Compared
  <2> QED BY <2>1, <2>3, <2>4, <2>5, <2>7, <1>0, StaysIn
<1> QED BY <1>3, <1>4

(* The middle element is not less than the lower end.                       *)
LEMMA CompareLowInv ==
  ASSUME SortInv, CompareLow
  PROVE  SortInv'
<1> DEFINE n == Len(array)
<1>0. s.pc = "low" /\ Sorting /\ array' = array /\ fair' = fair /\ s.lo < s.p /\ s.p < s.up
  BY DEF CompareLow, Sorting, SortInv, Bounds
<1>1. /\ n \in Nat /\ s \in StateType(n) /\ s.lo \in 1..n /\ s.up \in 1..n /\ s.lo < s.up
      /\ s.p \in Int /\ Keeps(a) /\ fair \in BOOLEAN
  BY <1>0, SortingFacts
<1>2. PICK less \in Answers(s.p, s.lo) :
        IF less THEN Middle(Swap(s.p, s.lo)) ELSE a' = a /\ s' = [s EXCEPT !.pc = "high"]
  BY DEF CompareLow
<1>3. fair => (less <=> a[s.p] < a[s.lo])
  BY DEF Answers
<1>4. s.lo \in 1..Len(a) /\ s.p \in 1..Len(a) /\ s.up \in 1..Len(a) /\ a \in Seq(Int)
  BY <1>0, <1>1 DEF Keeps
<1>5. a[s.lo] \in Int /\ a[s.p] \in Int /\ a[s.up] \in Int
  BY <1>4
<1>6. fair => a[s.lo] <= a[s.up]
  BY <1>0 DEF SortInv, Compared
<1>7. CASE less
  <2> DEFINE b == Exchanged(a, s.p, s.lo)
  <2>1. Middle(b)
    BY <1>2, <1>7 DEF Swap, Exchanged
  <2>2. s.p \in s.lo..s.up /\ s.lo \in s.lo..s.up
    BY <1>0, <1>1
  <2>3. /\ Keeps(b) /\ b[s.p] = a[s.lo] /\ b[s.lo] = a[s.p]
        /\ \A k \in 1..Len(a) : k # s.p /\ k # s.lo => b[k] = a[k]
    <3>1. PICK p, q : p = s.p /\ q = s.lo
      OBVIOUS
    <3>2. p \in s.lo..s.up /\ q \in s.lo..s.up
      BY <3>1, <2>2
    <3>3. /\ Keeps(Exchanged(a, p, q)) /\ Exchanged(a, p, q)[p] = a[q]
          /\ Exchanged(a, p, q)[q] = a[p]
          /\ \A k \in 1..Len(a) : k # p /\ k # q => Exchanged(a, p, q)[k] = a[k]
      BY <3>2, <1>0, KeepsSwap, Zenon
    <3> QED BY <3>1, <3>3
  <2> HIDE DEF b
  <2>4. b[s.up] = a[s.up]
    <3>1. s.lo # s.p /\ s.lo # s.up /\ s.up # s.p
      BY <1>0, <1>1
    <3> QED BY <2>3, <3>1, <1>4
  <2>5. fair => b[s.lo] <= b[s.p] /\ b[s.p] <= b[s.up]
    BY <2>3, <2>4, <1>3, <1>5, <1>6, <1>7
  <2> QED BY <2>1, <2>3, <2>5, <1>0, MiddleInv
<1>8. CASE ~less
  <2>1. a' = a /\ s' = [s EXCEPT !.pc = "high"]
    BY <1>2, <1>8
  <2>2. /\ s' \in StateType(n) /\ s'.lo = s.lo /\ s'.up = s.up /\ s'.calls = s.calls
        /\ s'.pc = "high" /\ s'.p = s.p
    BY <2>1, <1>1 DEF StateType
  <2>3. Bounds'
    BY <2>2, <1>0, <1>1 DEF Bounds
  <2>4. fair => Compared'
    BY <2>1, <2>2, <1>3, <1>5, <1>6, <1>8 DEF Compared
  <2> QED BY <2>1, <2>2, <2>3, <2>4, <1>0, <1>1, StaysIn
<1> QED BY <1>7, <1>8

(* Nor greater than the upper one.                                          *)
LEMMA CompareHighInv ==
  ASSUME SortInv, CompareHigh
  PROVE  SortInv'
<1> DEFINE n == Len(array)
<1>0. s.pc = "high" /\ Sorting /\ array' = array /\ fair' = fair /\ s.lo < s.p /\ s.p < s.up
  BY DEF CompareHigh, Sorting, SortInv, Bounds
<1>1. /\ n \in Nat /\ s \in StateType(n) /\ s.lo \in 1..n /\ s.up \in 1..n /\ s.lo < s.up
      /\ s.p \in Int /\ Keeps(a) /\ fair \in BOOLEAN
  BY <1>0, SortingFacts
<1>2. PICK less \in Answers(s.up, s.p) : Middle(IF less THEN Swap(s.p, s.up) ELSE a)
  BY DEF CompareHigh
<1>3. fair => (less <=> a[s.up] < a[s.p])
  BY DEF Answers
<1>4. s.lo \in 1..Len(a) /\ s.p \in 1..Len(a) /\ s.up \in 1..Len(a) /\ a \in Seq(Int)
  BY <1>0, <1>1 DEF Keeps
<1>5. a[s.lo] \in Int /\ a[s.p] \in Int /\ a[s.up] \in Int
  BY <1>4
<1>6. fair => a[s.lo] <= a[s.up] /\ a[s.lo] <= a[s.p]
  BY <1>0 DEF SortInv, Compared
<1>7. CASE less
  <2> DEFINE b == Exchanged(a, s.p, s.up)
  <2>1. Middle(b)
    <3>1. Middle(Swap(s.p, s.up))
      BY <1>2, <1>7
    <3> QED BY <3>1 DEF Swap, Exchanged
  <2>2. s.p \in s.lo..s.up /\ s.up \in s.lo..s.up
    BY <1>0, <1>1
  <2>3. /\ Keeps(b) /\ b[s.p] = a[s.up] /\ b[s.up] = a[s.p]
        /\ \A k \in 1..Len(a) : k # s.p /\ k # s.up => b[k] = a[k]
    <3>1. PICK p, q : p = s.p /\ q = s.up
      OBVIOUS
    <3>2. p \in s.lo..s.up /\ q \in s.lo..s.up
      BY <3>1, <2>2
    <3>3. /\ Keeps(Exchanged(a, p, q)) /\ Exchanged(a, p, q)[p] = a[q]
          /\ Exchanged(a, p, q)[q] = a[p]
          /\ \A k \in 1..Len(a) : k # p /\ k # q => Exchanged(a, p, q)[k] = a[k]
      BY <3>2, <1>0, KeepsSwap, Zenon
    <3> QED BY <3>1, <3>3
  <2> HIDE DEF b
  <2>4. b[s.lo] = a[s.lo]
    <3>1. s.lo # s.p /\ s.lo # s.up /\ s.up # s.p
      BY <1>0, <1>1
    <3> QED BY <2>3, <3>1, <1>4
  <2>5. fair => b[s.lo] <= b[s.p] /\ b[s.p] <= b[s.up]
    BY <2>3, <2>4, <1>3, <1>5, <1>6, <1>7
  <2> QED BY <2>1, <2>3, <2>5, <1>0, MiddleInv
<1>8. CASE ~less
  <2>1. Middle(a)
    BY <1>2, <1>8
  <2>2. fair => a[s.lo] <= a[s.p] /\ a[s.p] <= a[s.up]
    BY <1>3, <1>5, <1>6, <1>8
  <2> QED BY <2>1, <2>2, <1>0, <1>1, MiddleInv
<1> QED BY <1>7, <1>8

(* partition goes up: what it passes is less than the pivot.                *)
LEMMA CompareRightInv ==
  ASSUME SortInv, CompareRight
  PROVE  SortInv'
<1> DEFINE n == Len(array)
<1>0. /\ s.pc = "right" /\ Sorting /\ array' = array /\ fair' = fair /\ a' = a
      /\ s.lo + 3 <= s.up /\ s.lo < s.i /\ s.i < s.up /\ s.lo < s.j /\ s.j < s.up
  BY DEF CompareRight, Sorting, SortInv, Bounds
<1>1. /\ n \in Nat /\ s \in StateType(n) /\ s.lo \in 1..n /\ s.up \in 1..n
      /\ s.i \in Int /\ s.j \in Int /\ Keeps(a) /\ fair \in BOOLEAN
  BY <1>0, SortingFacts
<1>2. PICK less \in Answers(s.i, s.up - 1) :
        s' = IF ~less THEN [s EXCEPT !.pc = "left", !.j = s.j - 1]
             ELSE IF s.i = s.up - 1 THEN [s EXCEPT !.pc = "invalid"]
             ELSE [s EXCEPT !.i = s.i + 1]
  BY DEF CompareRight
<1>3. fair => (less <=> a[s.i] < a[s.up - 1])
  BY DEF Answers
<1>4. a \in Seq(Int) /\ Len(a) = n
  BY <1>1 DEF Keeps
<1>5. a[s.i] \in Int /\ a[s.up - 1] \in Int
  <2>1. s.i \in 1..n /\ s.up - 1 \in 1..n
    BY <1>0, <1>1
  <2> QED BY <2>1, <1>4
<1>6. fair => /\ \A x \in s.lo..(s.i - 1) : a[x] <= a[s.up - 1]
              /\ \A x \in s.j..s.up : a[s.up - 1] <= a[x]
  BY <1>0 DEF SortInv, Compared
<1>7. CASE ~less
  <2>1. /\ s' \in StateType(n) /\ s'.lo = s.lo /\ s'.up = s.up /\ s'.calls = s.calls
        /\ s'.pc = "left" /\ s'.i = s.i /\ s'.j = s.j - 1
    <3>1. s.j - 1 \in 0..n
      BY <1>0, <1>1
    <3> QED BY <3>1, <1>1, <1>2, <1>7 DEF StateType
  <2>2. Bounds'
    BY <2>1, <1>0, <1>1 DEF Bounds
  <2>3. ASSUME fair PROVE Compared'
    <3>1. \A x \in s.lo..(s.i - 1) : a[x] <= a[s.up - 1]
      BY <2>3, <1>6
    <3>2. \A x \in (s.j - 1 + 1)..s.up : a[s.up - 1] <= a[x]
      BY <2>3, <1>6, <1>1
    <3>3. a[s.up - 1] <= a[s.i]
      BY <2>3, <1>3, <1>5, <1>7
    <3>4. /\ \A x \in s'.lo..(s'.i - 1) : a'[x] <= a'[s'.up - 1]
          /\ \A x \in (s'.j + 1)..s'.up : a'[s'.up - 1] <= a'[x]
          /\ a'[s'.up - 1] <= a'[s'.i]
      BY <3>1, <3>2, <3>3, <2>1, <1>0, Zenon
    <3> QED BY <3>4, <2>1 DEF Compared
  <2> QED BY <2>1, <2>2, <2>3, <1>0, <1>1, StaysIn
<1>8. CASE less /\ s.i = s.up - 1
  <2>1. s' = [s EXCEPT !.pc = "invalid"]
    BY <1>2, <1>8
  <2>2. s' \in StateType(n) /\ s'.pc = "invalid"
    BY <2>1, <1>1 DEF StateType
  <2>3. ~fair
    BY <1>3, <1>5, <1>8
  <2>4. SortTypes' /\ SameElements'
    BY <2>2, <1>0 DEF SortInv, SortTypes, SameElements
  <2>5. Bounds' /\ ~Sorting'
    BY <2>2 DEF Bounds, Sorting
  <2> QED BY <2>3, <2>4, <2>5, <1>0 DEF SortInv
<1>9. CASE less /\ s.i # s.up - 1
  <2>1. /\ s' \in StateType(n) /\ s'.lo = s.lo /\ s'.up = s.up /\ s'.calls = s.calls
        /\ s'.pc = "right" /\ s'.i = s.i + 1 /\ s'.j = s.j
    <3>1. s.i + 1 \in 0..n
      BY <1>0, <1>1
    <3> QED BY <3>1, <1>0, <1>1, <1>2, <1>9 DEF StateType
  <2>2. Bounds'
    BY <2>1, <1>0, <1>1, <1>9 DEF Bounds
  <2>3. ASSUME fair PROVE Compared'
    <3>1. \A x \in s'.lo..(s'.i - 1) : a[x] <= a[s.up - 1]
      <4>1. a[s.i] <= a[s.up - 1]
        BY <2>3, <1>3, <1>5, <1>9
      <4>2. \A x \in s'.lo..(s'.i - 1) : x = s.i \/ x \in s.lo..(s.i - 1)
        BY <1>1, <2>1
      <4> QED BY <4>1, <4>2, <2>3, <1>6
    <3>2. \A x \in s.j..s.up : a[s.up - 1] <= a[x]
      BY <2>3, <1>6
    <3>3. /\ \A x \in s'.lo..(s'.i - 1) : a'[x] <= a'[s'.up - 1]
          /\ \A x \in s'.j..s'.up : a'[s'.up - 1] <= a'[x]
      BY <3>1, <3>2, <2>1, <1>0, Zenon
    <3> QED BY <3>3, <2>1 DEF Compared
  <2> QED BY <2>1, <2>2, <2>3, <1>0, <1>1, StaysIn
<1> QED BY <1>7, <1>8, <1>9

(* partition goes down, and either exchanges two elements that are out of   *)
(* place or ends with the pivot in its place.                               *)
LEMMA CompareLeftInv ==
  ASSUME SortInv, CompareLeft
  PROVE  SortInv'
<1> DEFINE n == Len(array)
<1>0. /\ s.pc = "left" /\ Sorting /\ array' = array /\ fair' = fair
      /\ s.lo + 3 <= s.up /\ s.lo < s.i /\ s.i < s.up /\ s.lo <= s.j /\ s.j < s.up - 1
  BY DEF CompareLeft, Sorting, SortInv, Bounds
<1>1. /\ n \in Nat /\ s \in StateType(n) /\ s.lo \in 1..n /\ s.up \in 1..n
      /\ s.i \in Int /\ s.j \in Int /\ Keeps(a) /\ fair \in BOOLEAN
  BY <1>0, SortingFacts
<1>2. PICK less \in Answers(s.up - 1, s.j) :
        IF less
        THEN /\ s' = IF s.j < s.i THEN [s EXCEPT !.pc = "invalid"]
                     ELSE [s EXCEPT !.j = s.j - 1]
             /\ a' = a
        ELSE IF s.j < s.i
        THEN a' = Swap(s.up - 1, s.i) /\ s' \in Loop(Recurse(s, s.i))
        ELSE a' = Swap(s.i, s.j) /\ s' = [s EXCEPT !.pc = "right", !.i = s.i + 1]
  BY DEF CompareLeft
<1>3. fair => (less <=> a[s.up - 1] < a[s.j])
  BY DEF Answers
<1>4. a \in Seq(Int) /\ Len(a) = n
  BY <1>1 DEF Keeps
<1>5. /\ s.i \in 1..n /\ s.j \in 1..n /\ s.up - 1 \in 1..n
      /\ a[s.i] \in Int /\ a[s.j] \in Int /\ a[s.up - 1] \in Int
  <2>1. s.i \in 1..n /\ s.j \in 1..n /\ s.up - 1 \in 1..n
    BY <1>0, <1>1
  <2> QED BY <2>1, <1>4
<1>6. fair => /\ \A x \in s.lo..(s.i - 1) : a[x] <= a[s.up - 1]
              /\ \A x \in (s.j + 1)..s.up : a[s.up - 1] <= a[x]
              /\ a[s.up - 1] <= a[s.i]
  BY <1>0 DEF SortInv, Compared
<1>7. CASE less /\ s.j < s.i
  <2>1. s' = [s EXCEPT !.pc = "invalid"] /\ a' = a
    BY <1>2, <1>7
  <2>2. s' \in StateType(n) /\ s'.pc = "invalid"
    BY <2>1, <1>1 DEF StateType
  <2>3. ASSUME fair PROVE FALSE
    <3>1. s.j \in s.lo..(s.i - 1)
      BY <1>0, <1>1, <1>7
    <3>2. a[s.j] <= a[s.up - 1]
      BY <3>1, <2>3, <1>6
    <3> QED BY <3>2, <2>3, <1>3, <1>5, <1>7
  <2>4. SortTypes' /\ SameElements'
    BY <2>1, <2>2, <1>0 DEF SortInv, SortTypes, SameElements
  <2>5. Bounds' /\ ~Sorting'
    BY <2>2 DEF Bounds, Sorting
  <2> QED BY <2>3, <2>4, <2>5, <1>0 DEF SortInv
<1>8. CASE less /\ ~(s.j < s.i)
  <2>1. s' = [s EXCEPT !.j = s.j - 1] /\ a' = a
    BY <1>2, <1>8
  <2>2. /\ s' \in StateType(n) /\ s'.lo = s.lo /\ s'.up = s.up /\ s'.calls = s.calls
        /\ s'.pc = "left" /\ s'.i = s.i /\ s'.j = s.j - 1
    <3>1. s.j - 1 \in 0..n
      BY <1>0, <1>1
    <3> QED BY <3>1, <2>1, <1>0, <1>1 DEF StateType
  <2>3. Bounds'
    <3>1. s.lo \in Int /\ s.up \in Int /\ s.i \in Int /\ s.j \in Int
      BY <1>1, <1>5
    <3>2. /\ 1 <= s.lo /\ s.lo < s.up /\ s.lo + 3 <= s.up /\ s.lo < s.i /\ s.i < s.up
          /\ s.lo <= s.j - 1 /\ s.j - 1 < s.up - 1
      BY <1>0, <1>1, <1>8, <3>1
    <3> QED BY <2>2, <3>2 DEF Bounds
  <2>4. ASSUME fair PROVE Compared'
    <3>1. \A x \in (s'.j + 1)..s'.up : x = s.j \/ x \in (s.j + 1)..s.up
      BY <2>2, <1>1
    <3>2. a[s.up - 1] <= a[s.j]
      BY <2>4, <1>3, <1>5, <1>8
    <3>3. /\ \A x \in s'.lo..(s'.i - 1) : a'[x] <= a'[s'.up - 1]
          /\ \A x \in (s'.j + 1)..s'.up : a'[s'.up - 1] <= a'[x]
          /\ a'[s'.up - 1] <= a'[s'.i]
      BY <3>1, <3>2, <2>1, <2>2, <2>4, <1>6
    <3> QED BY <3>3, <2>2 DEF Compared
  <2> QED BY <2>1, <2>2, <2>3, <2>4, <1>0, <1>1, StaysIn
<1>9. CASE ~less /\ s.j < s.i
  <2>1. a' = Exchanged(a, s.up - 1, s.i) /\ s' \in Loop(Recurse(s, s.i))
    BY <1>2, <1>9 DEF Swap, Exchanged
  <2>2. PICK p, q : p = s.up - 1 /\ q = s.i
    OBVIOUS
  <2>3. p \in s.lo..s.up /\ q \in s.lo..s.up /\ q \in (s.lo + 1)..(s.up - 1)
    BY <2>2, <1>0, <1>1
  <2> DEFINE b == Exchanged(a, p, q)
             r == Recurse(s, q)
  <2>4. /\ Keeps(b) /\ b[p] = a[q] /\ b[q] = a[p]
        /\ \A k \in 1..Len(a) : k # p /\ k # q => b[k] = a[k]
    BY <2>3, <1>0, KeepsSwap, Zenon
  <2>5. a' = b /\ s' \in Loop(r)
    BY <2>1, <2>2
  <2> HIDE DEF b
  <2>6. AllApart(s) /\ Nested(s, n) /\ 1 <= s.lo
    BY <1>0, <1>1, SortingFacts
  <2>7. /\ r \in StateType(n) /\ 1 <= r.lo /\ AllApart(r) /\ Nested(r, n)
        /\ \A x, y \in 1..n :
             x < y /\ Together(s, x, y) =>
               Together(r, x, y) \/ (Within(s, x, y) /\ x <= q /\ q <= y)
    BY <2>3, <2>6, <1>1, RecurseFacts
  <2> HIDE DEF r
  <2>8. /\ s' \in StateType(n)
        /\ \/ s' = Idle
           \/ s'.pc = "ends" /\ 1 <= s'.lo /\ s'.lo < s'.up /\ AllApart(s') /\ Nested(s', n)
        /\ \A x, y \in 1..n : x < y /\ Together(r, x, y) => Together(s', x, y)
    BY <2>5, <2>7, <1>1, LoopGoesOn
  <2>9. ASSUME fair PROVE Ordered(b, s')
    <3>1. b[q] = a[s.up - 1]
      BY <2>2, <2>4
    <3>2. ASSUME NEW x \in s.lo..(q - 1) PROVE b[x] <= b[q]
      <4>1. x \in s.lo..(s.i - 1) /\ x \in 1..Len(a) /\ x # p /\ x # q
        <5> HIDE DEF n
        <5>1. x \in s.lo..(s.i - 1) /\ x < s.i /\ x \in 1..n
          BY <2>2, <1>0, <1>1
        <5>2. x # s.i /\ x # s.up - 1
          BY <5>1, <1>0, <1>1
        <5> QED BY <5>1, <5>2, <2>2, <1>4
      <4> QED BY <4>1, <3>1, <2>4, <2>9, <1>6
    <3>3. ASSUME NEW y \in (q + 1)..s.up PROVE b[q] <= b[y]
      <4>1. CASE y = p
        BY <4>1, <3>1, <2>2, <2>4, <2>9, <1>6
      <4>2. CASE y # p
        <5>1. y \in (s.j + 1)..s.up /\ y \in 1..Len(a) /\ y # q
          <6> HIDE DEF n
          <6>1. y \in (s.j + 1)..s.up /\ y \in 1..n /\ y # s.i
            BY <2>2, <1>0, <1>1, <1>9
          <6> QED BY <6>1, <2>2, <1>4
        <5> QED BY <5>1, <4>2, <3>1, <2>4, <2>9, <1>6
      <4> QED BY <4>1, <4>2
    <3> SUFFICES ASSUME NEW x \in 1..n, NEW y \in 1..n, x < y, ~Together(s', x, y)
                 PROVE  b[x] <= b[y]
      BY <2>4 DEF Ordered, Keeps
    <3>4. b[x] <= b[y] \/ (Within(s, x, y) /\ x <= q /\ q <= y)
      BY <2>4, <2>7, <2>8, <2>9 DEF Keeps, Ordered
    <3>5. CASE Within(s, x, y) /\ x <= q /\ q <= y
      <4>1. b[x] \in Int /\ b[y] \in Int /\ b[q] \in Int
        <5>1. b \in Seq(Int) /\ Len(b) = n /\ q \in 1..n
          BY <2>2, <2>4, <1>5 DEF Keeps
        <5> QED BY <5>1
      <4>2. x = q \/ x \in s.lo..(q - 1)
        BY <3>5, <2>3, <1>1 DEF Within
      <4>3. y = q \/ y \in (q + 1)..s.up
        BY <3>5, <2>3, <1>1 DEF Within
      <4>4. b[x] <= b[q]
        BY <4>1, <4>2, <3>2
      <4>5. b[q] <= b[y]
        BY <4>1, <4>3, <3>3
      <4> QED BY <4>1, <4>4, <4>5
    <3> QED BY <3>4, <3>5
  <2> QED BY <2>4, <2>5, <2>8, <2>9, <1>0, GoesOn
<1>10. CASE ~less /\ ~(s.j < s.i)
  <2>1. a' = Exchanged(a, s.i, s.j) /\ s' = [s EXCEPT !.pc = "right", !.i = s.i + 1]
    BY <1>2, <1>10 DEF Swap, Exchanged
  <2>2. PICK p, q : p = s.i /\ q = s.j
    OBVIOUS
  <2>3. p \in s.lo..s.up /\ q \in s.lo..s.up
    BY <2>2, <1>0, <1>1
  <2> DEFINE b == Exchanged(a, p, q)
  <2>4. /\ Keeps(b) /\ b[p] = a[q] /\ b[q] = a[p]
        /\ \A k \in 1..Len(a) : k # p /\ k # q => b[k] = a[k]
    BY <2>3, <1>0, KeepsSwap, Zenon
  <2>5. a' = b
    BY <2>1, <2>2
  <2> HIDE DEF b
  <2>6. /\ s' \in StateType(n) /\ s'.lo = s.lo /\ s'.up = s.up /\ s'.calls = s.calls
        /\ s'.pc = "right" /\ s'.i = s.i + 1 /\ s'.j = s.j
    <3>1. s.i + 1 \in 0..n
      BY <1>0, <1>1
    <3> QED BY <3>1, <2>1, <1>0, <1>1 DEF StateType
  <2>7. Bounds'
    BY <2>6, <1>0, <1>1, <1>10 DEF Bounds
  <2>8. ASSUME fair PROVE Compared'
    <3>1. s.up - 1 # p /\ s.up - 1 # q /\ b[s.up - 1] = a[s.up - 1]
      <4>1. s.up - 1 # p /\ s.up - 1 # q /\ s.up - 1 \in 1..Len(a)
        <5> HIDE DEF n
        <5>1. s.up - 1 # s.i /\ s.up - 1 # s.j /\ s.up - 1 \in 1..n
          BY <1>0, <1>1, <1>10
        <5> QED BY <5>1, <2>2, <1>4
      <4> QED BY <4>1, <2>4
    <3>2. a[q] <= a[s.up - 1] /\ a[s.up - 1] <= a[p]
      BY <2>2, <2>8, <1>3, <1>5, <1>6, <1>10
    <3>3. ASSUME NEW x \in s'.lo..(s'.i - 1) PROVE b[x] <= b[s.up - 1]
      <4>1. CASE x = p
        BY <4>1, <3>1, <3>2, <2>4
      <4>2. CASE x # p
        <5>1. x \in s.lo..(s.i - 1) /\ x \in 1..Len(a) /\ x # q
          <6> HIDE DEF n
          <6>1. x # s.i
            BY <4>2, <2>2
          <6>2. x \in s.lo..(s.i - 1) /\ x \in 1..n /\ x # s.j
            BY <6>1, <2>6, <1>0, <1>1, <1>10
          <6> QED BY <6>2, <2>2, <1>4
        <5> QED BY <5>1, <4>2, <3>1, <2>4, <2>8, <1>6
      <4> QED BY <4>1, <4>2
    <3>4. ASSUME NEW x \in s'.j..s'.up PROVE b[s.up - 1] <= b[x]
      <4>1. CASE x = q
        BY <4>1, <3>1, <3>2, <2>4
      <4>2. CASE x # q
        <5>1. x \in (s.j + 1)..s.up /\ x \in 1..Len(a) /\ x # p
          <6> HIDE DEF n
          <6>1. x # s.j
            BY <4>2, <2>2
          <6>2. x \in (s.j + 1)..s.up /\ x \in 1..n /\ x # s.i
            BY <6>1, <2>6, <1>0, <1>1, <1>10
          <6> QED BY <6>2, <2>2, <1>4
        <5> QED BY <5>1, <4>2, <3>1, <2>4, <2>8, <1>6
      <4> QED BY <4>1, <4>2
    <3>5. /\ \A x \in s'.lo..(s'.i - 1) : a'[x] <= a'[s'.up - 1]
          /\ \A x \in s'.j..s'.up : a'[s'.up - 1] <= a'[x]
      BY <3>3, <3>4, <2>5, <2>6
    <3> QED BY <3>5, <2>6 DEF Compared
  <2> QED BY <2>4, <2>5, <2>6, <2>7, <2>8, <1>0, StaysIn
<1> QED BY <1>7, <1>8, <1>9, <1>10

-----------------------------------------------------------------------------
(* The invariant of table.sort.                                             *)
THEOREM SortInvariant == SortSpec => []SortInv
<1>1. InitSort => SortInv
  <2> SUFFICES ASSUME InitSort PROVE SortInv
    OBVIOUS
  <2> DEFINE n == Len(array)
             t == [Idle EXCEPT !.lo = 1, !.up = n]
  <2>1. array \in Seq(Int) /\ fair \in BOOLEAN /\ a = array /\ s \in Loop(t)
    BY SortAssumption DEF InitSort
  <2>2. n \in Nat
    BY <2>1
  <2>3. CASE n = 0
    <3>1. t = [Idle EXCEPT !.lo = 1, !.up = 0]
      BY <2>3
    <3>2. ~(t.lo < t.up) /\ { k \in DOMAIN t.calls : t.calls[k].lo < t.calls[k].up } = {}
      <4>1. t.lo = 1 /\ t.up = 0 /\ t.calls = << >>
        BY <3>1 DEF Idle
      <4> HIDE DEF t
      <4>2. DOMAIN t.calls = {}
        BY <4>1
      <4> QED BY <4>1, <4>2
    <3>3. s = Idle
      <4> HIDE DEF t
      <4> QED BY <3>2, <2>1, Zenon DEF Loop
    <3>4. /\ s.pc = "done" /\ s.lo = 0 /\ s.up = 0 /\ s.calls = << >>
          /\ s \in StateType(n)
      BY <3>3, <2>2 DEF Idle, StateType
    <3>5. Ordered(a, s)
      BY <2>1, <2>3 DEF Ordered
    <3> QED BY <3>4, <3>5, <2>1
            DEF SortInv, SortTypes, Bounds, SameElements, Sorting, Compared
  <2>4. CASE n # 0
    <3>1. /\ t \in StateType(n) /\ t.lo = 1 /\ t.up = n /\ t.calls = << >>
      <4>1. n \in 0..n /\ 1 \in 0..n
        BY <2>2, <2>4
      <4>2. Idle \in StateType(n) /\ Idle.calls = << >>
        BY <2>2 DEF Idle, StateType
      <4> HIDE DEF n
      <4> QED BY <4>1, <4>2 DEF StateType
    <3> HIDE DEF t
    <3>2. AllApart(t)
      BY <3>1 DEF AllApart
    <3>3. Nested(t, n)
      <4>1. Halved(n)[0] = n
        BY <2>2, HalvedFacts
      <4> QED BY <4>1, <3>1, <2>2 DEF Nested
    <3>4. /\ s \in StateType(n)
          /\ \/ s = Idle
             \/ s.pc = "ends" /\ 1 <= s.lo /\ s.lo < s.up /\ AllApart(s) /\ Nested(s, n)
          /\ \A x, y \in 1..n : x < y /\ Together(t, x, y) => Together(s, x, y)
      <4>1. t.lo < t.up => 1 <= t.lo
        BY <3>1
      <4> QED BY <4>1, <3>1, <3>2, <3>3, <2>1, <2>2, LoopGoesOn
    <3>5. \A x, y \in 1..n : Together(t, x, y)
      BY <3>1, <2>2 DEF Together, Within
    <3>6. Ordered(a, s)
      BY <3>4, <3>5, <2>1 DEF Ordered
    <3>7. CASE s = Idle
      <4>1. s.pc = "done" /\ s.lo = 0 /\ s.up = 0 /\ s.calls = << >>
        BY <3>7 DEF Idle
      <4> QED BY <4>1, <3>4, <3>6, <2>1
              DEF SortInv, SortTypes, Bounds, SameElements, Sorting, Compared
    <3>8. CASE s.pc = "ends" /\ 1 <= s.lo /\ s.lo < s.up /\ AllApart(s) /\ Nested(s, n)
      BY <3>8, <3>4, <3>6, <2>1
         DEF SortInv, SortTypes, Bounds, SameElements, Sorting, Compared
    <3> QED BY <3>4, <3>7, <3>8
  <2> QED BY <2>3, <2>4
<1>2. SortInv /\ [NextSort]_sortVars => SortInv'
  <2> SUFFICES ASSUME SortInv, [NextSort]_sortVars PROVE SortInv'
    OBVIOUS
  <2>1. CASE UNCHANGED sortVars
    BY <2>1 DEF sortVars, SortInv, SortTypes, Bounds, SameElements, Sorting, Compared
  <2>2. CASE SortStep
    BY <2>2, CompareEndsInv, CompareLowInv, CompareHighInv, CompareRightInv, CompareLeftInv
       DEF SortStep
  <2> QED BY <2>1, <2>2 DEF NextSort, Stopped
<1> QED BY <1>1, <1>2, PTL DEF SortSpec

(* table.sort stays in its array and in logarithmic depth, keeps its         *)
(* elements and, with a consistent order function, sorts them.              *)
THEOREM SortCorrect == SortSpec => []SortWithinArray
<1>1. SortInv => SortWithinArray
  <2> SUFFICES ASSUME SortInv PROVE SortWithinArray
    OBVIOUS
  <2> DEFINE n == Len(array)
  <2>0. array \in Seq(Int) /\ Len(a) = n /\ a \in Seq(Int) /\ s \in StateType(n) /\ n \in Nat
    BY DEF SortInv, SortTypes
  <2>1. Sorting => /\ 1 <= s.lo /\ s.lo < s.up /\ s.up <= n
                   /\ Len(s.calls) <= n
                   /\ s.up - s.lo + 1 <= Halved(n)[Len(s.calls)]
    <3> HAVE Sorting
    <3>1. /\ s.lo \in 1..n /\ s.up \in 1..n /\ s.lo < s.up /\ Nested(s, n)
      BY SortingFacts
    <3>2. Len(s.calls) \in Nat
      BY <2>0 DEF StateType
    <3>3. Len(s.calls) <= n
      BY <3>1, <3>2, <2>0 DEF Nested
    <3> QED BY <3>1, <3>3, <2>0 DEF Nested
  <2>2. /\ s.pc \in {"low", "high"} => s.lo < s.p /\ s.p < s.up
        /\ s.pc \in {"right", "left"} => /\ s.lo < s.i /\ s.i < s.up
                                         /\ s.lo <= s.j /\ s.j < s.up
    <3>1. s.lo \in Int /\ s.up \in Int /\ s.i \in Int /\ s.j \in Int
      BY <2>0 DEF StateType
    <3> QED BY <3>1 DEF SortInv, Bounds
  <2>3. \A i \in 1..n : Count(a, array[i]) = Count(array, array[i])
    <3>1. \A i \in 1..n : array[i] \in Int
      BY <2>0
    <3> QED BY <3>1 DEF SortInv, SameElements
  <2>4. s.pc = "invalid" => ~fair
    BY DEF SortInv
  <2>5. ASSUME s.pc = "done", fair, NEW i \in 1..(n - 1)
        PROVE  a[i] <= a[i + 1]
    <3>1. s.calls = << >> /\ s.lo = 0 /\ s.up = 0 /\ Ordered(a, s)
      BY <2>5 DEF SortInv, Bounds
    <3>2. i \in 1..n /\ i + 1 \in 1..n /\ i < i + 1
      BY <2>0
    <3>3. ~Together(s, i, i + 1)
      BY <3>1, <3>2 DEF Together, Within
    <3> QED BY <3>1, <3>2, <3>3, <2>0 DEF Ordered
  <2> QED BY <2>0, <2>1, <2>2, <2>3, <2>4, <2>5 DEF SortWithinArray
<1> QED BY <1>1, SortInvariant, PTL
=============================================================================
