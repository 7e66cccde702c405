------------------------------- MODULE LuaSort -------------------------------
(***************************************************************************)
(* table.sort (ltablib.c), as a machine that advances by one comparison:    *)
(* what the order function answers is up to the program, and only a         *)
(* consistent order obliges the sort to anything but ending.                *)
(***************************************************************************)
EXTENDS Integers, Sequences, FiniteSets, FiniteSetsExt

CONSTANTS
  Sorts,         \* the calls considered: an array, and whether the order is consistent
  RANLIMIT,      \* sizes from which a pivot may be random
  IMBALANCE      \* 128: how uneven a partition asks for one

ASSUME SortAssumption ==
  /\ Sorts \subseteq [array : Seq(Int), fair : BOOLEAN]
  /\ RANLIMIT \in Nat /\ RANLIMIT >= 4 /\ IMBALANCE \in Nat \ {0}

VARIABLES
  array,   \* the array as it was
  fair,    \* whether the order function is a strict weak order
  a,       \* the array being sorted
  s        \* where auxsort is

sortVars == <<array, fair, a, s>>

(*------------------------------- auxsort -------------------------------*)
(* pc names the comparison that is next; p is the index of the pivot, then  *)
(* that of partition, i and j are partition's, calls the suspended ones.    *)

Idle == [pc |-> "done", lo |-> 0, up |-> 0, p |-> 0, i |-> 0, j |-> 0, rnd |-> FALSE,
         calls |-> <<>>]
Sorting == s.pc \notin {"done", "invalid"}
Swap(i, j) == [a EXCEPT ![i] = a[j], ![j] = a[i]]

\* The loop of auxsort goes on with an interval of two elements or more; otherwise
\* the call returns to the innermost caller with such an interval left, which looks
\* at how even its partition was.
Loop(t) ==
  LET open == { k \in DOMAIN t.calls : t.calls[k].lo < t.calls[k].up }
      back(k) == LET c == t.calls[k]
                     uneven == (c.up - c.lo) \div IMBALANCE > c.n
                 IN  { [t EXCEPT !.pc = "ends", !.lo = c.lo, !.up = c.up, !.rnd = r,
                                 !.calls = SubSeq(@, 1, k - 1)] :
                       r \in IF uneven THEN BOOLEAN ELSE {c.rnd} }
  IN  IF t.lo < t.up THEN { [t EXCEPT !.pc = "ends"] }
      ELSE IF open = {} THEN {Idle}
      ELSE back(Max(open))
\* The interval is sorted.
\* Mutant: it is not left.
ReturnAgain(t) == Loop(t)
Return(t) == Loop([t EXCEPT !.lo = t.up])

\* What the order function may answer to a[i] < a[j].
Answers(i, j) == IF fair THEN {a[i] < a[j]} ELSE BOOLEAN

\* choosePivot, for whatever random number.
Pivots ==
  LET r4 == (s.up - s.lo) \div 4
  IN  IF s.up - s.lo < RANLIMIT \/ ~s.rnd THEN {(s.lo + s.up) \div 2}
      ELSE (s.lo + r4)..(s.lo + 3 * r4 - 1)

\* a[up] < a[lo]?
CompareEnds ==
  /\ s.pc = "ends"
  /\ \E less \in Answers(s.up, s.lo) :
       /\ a' = IF less THEN Swap(s.lo, s.up) ELSE a
       /\ IF s.up - s.lo = 1 THEN s' \in Return(s)
          ELSE \E p \in Pivots : s' = [s EXCEPT !.pc = "low", !.p = p]
  /\ UNCHANGED <<array, fair>>

\* The middle element is in place: three elements are sorted, more are partitioned
\* around it, from a[up - 1].
Middle(b) ==
  IF s.up - s.lo = 2 THEN a' = b /\ s' \in Return(s)
  ELSE /\ a' = [b EXCEPT ![s.p] = b[s.up - 1], ![s.up - 1] = b[s.p]]
       /\ s' = [s EXCEPT !.pc = "right", !.i = s.lo + 1, !.j = s.up - 1]
\* a[p] < a[lo]?
CompareLow ==
  /\ s.pc = "low"
  /\ \E less \in Answers(s.p, s.lo) :
       IF less THEN Middle(Swap(s.p, s.lo)) ELSE a' = a /\ s' = [s EXCEPT !.pc = "high"]
  /\ UNCHANGED <<array, fair>>
\* a[up] < a[p]?
CompareHigh ==
  /\ s.pc = "high"
  /\ \E less \in Answers(s.up, s.p) : Middle(IF less THEN Swap(s.p, s.up) ELSE a)
  /\ UNCHANGED <<array, fair>>

\* partition: a[i] < P?  The pivot P is a[up - 1].
CompareRight ==
  /\ s.pc = "right"
  /\ \E less \in Answers(s.i, s.up - 1) :
       s' = IF ~less THEN [s EXCEPT !.pc = "left", !.j = @ - 1]
            ELSE IF s.i = s.up - 1 THEN [s EXCEPT !.pc = "invalid"]
            ELSE [s EXCEPT !.i = @ + 1]
  /\ UNCHANGED <<array, fair, a>>

\* Mutant: the larger interval is sorted by the recursive call.
LargerFirst(t, p) ==
  LET low == [lo |-> t.lo, up |-> p - 1]
      high == [lo |-> p + 1, up |-> t.up]
      small == IF p - t.lo < t.up - p THEN high ELSE low
      large == IF p - t.lo < t.up - p THEN low ELSE high
  IN  [t EXCEPT !.lo = small.lo, !.up = small.up,
         !.calls = Append(@, [lo |-> large.lo, up |-> large.up, rnd |-> t.rnd,
                              n |-> small.up - small.lo + 1])]
\* The recursive call is for the smaller interval; the caller keeps the larger.
Recurse(t, p) ==
  LET low == [lo |-> t.lo, up |-> p - 1]
      high == [lo |-> p + 1, up |-> t.up]
      small == IF p - t.lo < t.up - p THEN low ELSE high
      large == IF p - t.lo < t.up - p THEN high ELSE low
  IN  [t EXCEPT !.lo = small.lo, !.up = small.up,
         !.calls = Append(@, [lo |-> large.lo, up |-> large.up, rnd |-> t.rnd,
                              n |-> small.up - small.lo + 1])]
\* partition: P < a[j]?
CompareLeft ==
  /\ s.pc = "left"
  /\ \E less \in Answers(s.up - 1, s.j) :
       IF less
       THEN /\ s' = IF s.j < s.i THEN [s EXCEPT !.pc = "invalid"] ELSE [s EXCEPT !.j = @ - 1]
            /\ UNCHANGED a
       ELSE IF s.j < s.i
       THEN a' = Swap(s.up - 1, s.i) /\ s' \in Loop(Recurse(s, s.i))
       ELSE a' = Swap(s.i, s.j) /\ s' = [s EXCEPT !.pc = "right", !.i = @ + 1]
  /\ UNCHANGED <<array, fair>>

\* sort: arrays of less than two elements are left alone.
InitSort ==
  /\ \E c \in Sorts : array = c.array /\ fair = c.fair
  /\ a = array
  /\ s \in Loop([Idle EXCEPT !.lo = 1, !.up = Len(array)])
SortStep == CompareEnds \/ CompareLow \/ CompareHigh \/ CompareRight \/ CompareLeft
Stopped == ~Sorting /\ UNCHANGED sortVars
NextSort == SortStep \/ Stopped
\* Nothing but the order function, which answers, keeps a sort from going on.
SortSpec == InitSort /\ [][NextSort]_sortVars /\ WF_sortVars(SortStep)

-----------------------------------------------------------------------------
\* How many places of t hold x.
Count(t, x) == Cardinality({ i \in DOMAIN t : t[i] = x })
\* n, halved d times.
Halved(n) ==
  LET half[d \in 0..n] == IF d = 0 THEN n ELSE half[d - 1] \div 2
  IN  half

\* Whatever the order function answers, the indices of the interval and of the
\* partition stay within the array, an interval gets half as long with each call
\* (so that they nest as deep as the logarithm of the array's size), and no element
\* is lost or doubled; only an order that is invalid is called so, and a consistent
\* one ends with a sorted array (auxsort and partition in ltablib.c).
SortWithinArray ==
  LET n == Len(array)
  IN  /\ Sorting => /\ 1 <= s.lo /\ s.lo < s.up /\ s.up <= n
                    /\ Len(s.calls) <= n
                    /\ s.up - s.lo + 1 <= Halved(n)[Len(s.calls)]
      /\ s.pc \in {"low", "high"} => s.lo < s.p /\ s.p < s.up
      /\ s.pc \in {"right", "left"} => /\ s.lo < s.i /\ s.i < s.up
                                       /\ s.lo <= s.j /\ s.j < s.up
      /\ Len(a) = n /\ \A i \in 1..n : Count(a, array[i]) = Count(array, array[i])
      /\ s.pc = "invalid" => ~fair
      /\ s.pc = "done" /\ fair => \A i \in 1..(n - 1) : a[i] <= a[i + 1]

\* table.sort ends, however its order function answers: partition ends its loops
\* by the places it has reached (partition and auxsort in ltablib.c).
SortReturns == <>(~Sorting)
=============================================================================
