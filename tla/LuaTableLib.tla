------------------------------- MODULE LuaTableLib -----------------------------
(***************************************************************************)
(* The functions of the table library (ltablib.c) that move elements, as    *)
(* operators over integers of limited width.  table.sort is LuaSort.        *)
(***************************************************************************)
EXTENDS Integers, Sequences, FiniteSets, SequencesExt, FiniteSetsExt

CONSTANTS
  MAXINTEGER,    \* LUA_MAXINTEGER
  INT_MAX        \* largest number of results

(* A table t is a function from the integers in use; others hold Nil.       *)

Nil == "nil"
MININTEGER == -MAXINTEGER - 1
WrapInt(n) == ((n - MININTEGER) % (2 * MAXINTEGER + 2)) + MININTEGER
Unsigned(n) == n % (2 * MAXINTEGER + 2)
Geti(t, k) == IF k \in DOMAIN t THEN t[k] ELSE Nil
Seti(t, k, v) == [x \in DOMAIN t \cup {k} |-> IF x = k THEN v ELSE t[x]]
Error(what) == [err |-> what]
Table(t) == [err |-> "", t |-> t]

\* Copies t[k] to u[k + d] for the keys in the order of a sequence; u may be t.
Copied(t, u, same, keys, d) ==
  FoldLeft(LAMBDA r, k : Seti(r, k + d, Geti(IF same THEN r ELSE t, k)), u, keys)
Upwards(lo, hi) == [i \in 1..Max({hi - lo + 1, 0}) |-> lo + i - 1]

\* The order in which table.move copies f..e to d and on.
\* Mutant: always increasing.
MoveUpwards(same, f, e, d) == Upwards(f, e)
MoveOrder(same, f, e, d) ==
  IF d > e \/ d <= f \/ ~same THEN Upwards(f, e) ELSE Reverse(Upwards(f, e))
\* table.move; u is the destination, the same table when 'same'.
TMove(t, u, same, f, e, d) ==
  IF e < f THEN Table(u)
  ELSE IF ~(f > 0 \/ e < MAXINTEGER + f) THEN Error("too many elements to move")
  ELSE IF ~(d <= MAXINTEGER - (e - f + 1) + 1) THEN Error("destination wrap around")
  ELSE Table(Copied(t, u, same, MoveOrder(same, f, e, d), d - f))

\* The first empty position, after n elements; it wraps around.
Empty(n) == WrapInt(n + 1)
\* table.insert of v at a position, in a table of n elements; and at the end.
TInsert(t, n, pos, v) ==
  LET moving == Reverse(Upwards(pos, Empty(n) - 1))
  IN  IF ~(Unsigned(pos - 1) < Unsigned(Empty(n))) THEN Error("position out of bounds")
      ELSE Table(Seti(Copied(t, t, TRUE, moving, 1), pos, v))
TInsertLast(t, n, v) == Table(Seti(t, Empty(n), v))
\* table.remove; without a position it is n. It returns the element removed.
TRemove(t, n, pos) ==
  LET moved == Copied(t, t, TRUE, Upwards(pos + 1, n), -1)
  IN  IF pos # n /\ ~(Unsigned(pos - 1) <= Unsigned(n)) THEN Error("position out of bounds")
      ELSE [err |-> "", t |-> Seti(moved, Max({pos, n}), Nil), val |-> Geti(t, pos)]
\* table.unpack
TUnpack(t, i, e) ==
  IF i > e THEN [err |-> "", vals |-> <<>>]
  ELSE IF Unsigned(e - i) >= INT_MAX THEN Error("too many results to unpack")
  ELSE [err |-> "", vals |-> [k \in 1..(e - i + 1) |-> Geti(t, i + k - 1)]]
=============================================================================
