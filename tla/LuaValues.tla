------------------------------- MODULE LuaValues -------------------------------
(***************************************************************************)
(* Values of the compiled language and the operations whose result needs no *)
(* metamethod (lobject.c, lvm.c, ltm.c).  Integers have W bits; floats are  *)
(* the integral ones.  What a table, a function or a host object does is    *)
(* not here: those are names.                                               *)
(***************************************************************************)
EXTENDS Integers, Sequences, FiniteSets, TLC

CONSTANT W      \* bits of an integer

Integer(n) == <<"int", n>>
Flt(n) == <<"flt", n>>
Str(s) == <<"str", s>>
Nil == <<"nil">>
True == <<"true">>
False == <<"false">>
Object(name) == <<"obj", name>>

Bool(b) == IF b THEN True ELSE False
Falsy(v) == v \in {Nil, False}
IsNum(v) == v[1] \in {"int", "flt"}
IsInt(v) == v[1] = "int"
IsStr(v) == v[1] = "str"

Modulus == 2^W
\* l_castU2S
Wrap(n) == LET u == n % Modulus IN IF u < 2^(W - 1) THEN u ELSE u - Modulus

ArithOps == {"ADD", "SUB", "MUL", "IDIV", "BAND", "SHL", "SHR"}
BitwiseOps == {"BAND", "SHL", "SHR"}

Bit(n, i) == (n \div 2^i) % 2
BitAnd(m, n) ==
  Wrap(LET sum[i \in 0..W] ==
             IF i = 0 THEN 0
             ELSE sum[i - 1] + 2^(i - 1) * Bit(m % Modulus, i - 1) * Bit(n % Modulus, i - 1)
       IN  sum[W])
\* luaV_shiftl: a negative count shifts to the right, in zeros.
ShiftLeft(n, s) ==
  IF s <= -W \/ s >= W THEN 0
  ELSE IF s >= 0 THEN Wrap(n * 2^s) ELSE Wrap((n % Modulus) \div 2^(-s))
\* luaV_idiv rounds to minus infinity.
FloorDiv(m, n) == IF n > 0 THEN m \div n ELSE (-m) \div (-n)

\* luaO_rawarith, intarith and numarith: the operation on numbers.
Calc(op, m, n) ==
  CASE op = "ADD" -> m + n [] op = "SUB" -> m - n [] op = "MUL" -> m * n
    [] op = "UNM" -> -m [] op = "IDIV" -> FloorDiv(m, n) [] op = "BAND" -> BitAnd(m, n)
    [] op = "SHL" -> ShiftLeft(m, n) [] op = "SHR" -> ShiftLeft(m, -n)
Computable(op, v1, v2) ==
  /\ IsNum(v1) /\ IsNum(v2)
  /\ op = "IDIV" => v2[2] # 0
  /\ op \in BitwiseOps => \A v \in {v1, v2} : v[2] \in -(2^(W - 1))..(2^(W - 1) - 1)
Arith(op, v1, v2) ==
  IF op \in BitwiseOps \/ (IsInt(v1) /\ IsInt(v2)) THEN Integer(Wrap(Calc(op, v1[2], v2[2])))
  ELSE Flt(Calc(op, v1[2], v2[2]))

\* luaV_lessthan and luaV_lessequal on numbers, GT and GE by swapped operands.
Orders(op, v1, v2) ==
  CASE op = "LT" -> v1[2] < v2[2] [] op = "LE" -> v1[2] <= v2[2]
    [] op = "GT" -> v1[2] > v2[2] [] op = "GE" -> v1[2] >= v2[2]
\* luaV_rawequalobj: an integer equals the float of its value.
RawEqual(v1, v2) == IF IsNum(v1) /\ IsNum(v2) THEN v1[2] = v2[2] ELSE v1 = v2

\* tostring, of what luaV_concat joins without a metamethod.
Piece(v) ==
  IF IsStr(v) THEN v[2]
  ELSE <<ToString(v[2]) \o (IF IsInt(v) THEN "" ELSE ".0")>>
Joins(v1, v2) == (IsStr(v1) \/ IsNum(v1)) /\ (IsStr(v2) \/ IsNum(v2))

(*--------------------------- the world outside -------------------------*)
(* A world w has the tables made so far and the log of the events: what the *)
(* program asked of an object it knows nothing about.  The answer to the    *)
(* n-th event is new, or settled by n.                                      *)

Answer(n, i) == <<"res", n, i>>
Event(w, what, args) == [w EXCEPT !.log = Append(@, <<what, args>>)]
\* A value, and the world after it; a truth.
Ans(w, v) == [w |-> w, v |-> v]
Ask(w, what, args) == Ans(Event(w, what, args), Answer(Len(w.log) + 1, 1))
AskTruth(w, what, args) == Ans(Event(w, what, args), Len(w.log) % 2 = 0)
\* A call gives two values, or a nil.
AskCall(w, f, args) ==
  LET n == Len(w.log) + 1
  IN  Ans(Event(w, "CALL", <<f>> \o args),
          IF n % 4 = 0 THEN <<Nil>> ELSE <<Answer(n, 1), Answer(n, 2)>>)

\* luaT_trybinTM, where the operation is not on numbers.
DoArith(w, op, v1, v2) ==
  IF Computable(op, v1, v2) THEN Ans(w, Arith(op, v1, v2)) ELSE Ask(w, op, <<v1, v2>>)
DoConcat(w, v1, v2) ==
  IF Joins(v1, v2) THEN Ans(w, Str(Piece(v1) \o Piece(v2))) ELSE Ask(w, "CONCAT", <<v1, v2>>)

IsTable(v) == v[1] = "table"
NewTable(w) == Ans([w EXCEPT !.tables = Append(@, <<>>)], <<"table", Len(w.tables) + 1>>)
\* luaV_flttointns: a float key with an integral value is that integer.
AsKey(k) == IF k[1] = "flt" THEN Integer(k[2]) ELSE k
PutKey(t, k, v) ==
  IF v = Nil THEN [x \in DOMAIN t \ {AsKey(k)} |-> t[x]] ELSE (AsKey(k) :> v) @@ t
\* luaV_finishget and luaV_finishset.
DoIndex(w, t, k) ==
  IF ~IsTable(t) THEN Ask(w, "INDEX", <<t, k>>)
  ELSE Ans(w, IF AsKey(k) \in DOMAIN w.tables[t[2]] THEN w.tables[t[2]][AsKey(k)] ELSE Nil)
DoSetIndex(w, t, k, v) ==
  IF IsTable(t) THEN [w EXCEPT !.tables[t[2]] = PutKey(@, k, v)]
  ELSE Event(w, "NEWINDEX", <<t, k, v>>)
\* luaV_objlen
Border(t) == CHOOSE n \in 0..Cardinality(DOMAIN t) :
               /\ \A i \in 1..n : Integer(i) \in DOMAIN t
               /\ Integer(n + 1) \notin DOMAIN t
DoLen(w, v) ==
  CASE IsTable(v) -> Ans(w, Integer(Border(w.tables[v[2]])))
    [] IsStr(v) -> Ans(w, Integer(Len(v[2])))
    [] OTHER -> Ask(w, "LEN", <<v>>)
\* luaV_equalobj: only two objects have a metamethod.
DoEqual(w, v1, v2) ==
  IF v1 # v2 /\ v1[1] \in {"obj", "res"} /\ v2[1] \in {"obj", "res"}
  THEN AskTruth(w, "EQ", <<v1, v2>>) ELSE Ans(w, RawEqual(v1, v2))
\* luaV_lessthan, luaV_lessequal: op is LT or LE.
DoOrder(w, op, v1, v2) ==
  IF IsNum(v1) /\ IsNum(v2) THEN Ans(w, Orders(op, v1, v2)) ELSE AskTruth(w, op, <<v1, v2>>)

(* A numeric for over integers: the number of iterations after the first,   *)
(* an unsigned number, or -1 for none.                                      *)
MAXINT == 2^(W - 1) - 1
MININT == -(2^(W - 1))
\* forlimit: a float limit is cut to the integers.
ForLimit(limit, step) == IF step > 0 THEN (IF limit > MAXINT THEN MAXINT ELSE limit)
                         ELSE (IF limit < MININT THEN MININT ELSE limit)
\* forprep
ForCount(init, limit0, step) ==
  LET limit == ForLimit(limit0, step)
      up == (limit - init) % Modulus
      down == (init - limit) % Modulus
  IN  IF (step > 0 /\ init > limit) \/ (step < 0 /\ init < limit) THEN -1
      ELSE IF step > 0 THEN up \div step ELSE down \div (((-(step + 1)) % Modulus) + 1)

(* A table stands for its contents, so that its identity does not matter,   *)
(* nor does that of a function.                                             *)
RECURSIVE View(_, _)
View(w, v) ==
  IF v[1] = "fn" THEN <<"fn">>
  ELSE IF ~IsTable(v) THEN v
  ELSE <<"table", { <<k, View(w, w.tables[v[2]][k])>> : k \in DOMAIN w.tables[v[2]] }>>
Views(w, vals) == [i \in DOMAIN vals |-> View(w, vals[i])]
Observed(w, vals) ==
  [log |-> [i \in DOMAIN w.log |-> <<w.log[i][1], Views(w, w.log[i][2])>>],
   returned |-> Views(w, vals)]
=============================================================================
