--------------------------------- MODULE LuaVM ---------------------------------
(***************************************************************************)
(* The interpreter of compiled code (lvm.c), one action per kind of          *)
(* instruction.  Each frame has its own registers, those beyond what it     *)
(* wrote hold junk; upvalues are open, and read a register, or closed.      *)
(* A metamethod or a function that is not Lua's is an event of the world:   *)
(* it answers at once and never calls back.                                 *)
(***************************************************************************)
EXTENDS LuaValues, SequencesExt

VARIABLES
  proto,    \* the prototype of the main function
  vm,       \* the world, frames, closures (fns), upvalues (cells)
  result    \* "running", or "returned" and the values

vmvars == <<proto, vm, result>>
Junk == <<"junk">>
Running == result = <<"running">>

(*----------------------------- the machine -----------------------------*)

ProtoOf(path) == FoldLeft(LAMBDA p, i : p.protos[i], proto, path)
Depth == Len(vm.frames)
Fr == vm.frames[Depth]
P == ProtoOf(vm.fns[Fr.fn].path)
I == P.code[Fr.pc]
RegOfFrame(f, r) == IF r < Len(f.regs) THEN f.regs[r + 1] ELSE Junk
R(r) == RegOfFrame(Fr, r)
K(n) == P.k[n]
\* The registers from first to last, if any.
Regs(first, last) == [j \in 1..(last - first + 1) |-> R(first + j - 1)]
RK(c, k) == IF k THEN K(c) ELSE R(c)

Several(n, v) == [j \in 1..Max({n, 0}) |-> v]
WithReg(regs, r) == regs \o Several(r + 1 - Len(regs), Junk)
SetRegOf(f, r, v) == [f EXCEPT !.regs = [WithReg(@, r) EXCEPT ![r + 1] = v]]
Top(w) == w.frames[Len(w.frames)]
OnTop(w, f) == [w EXCEPT !.frames[Len(w.frames)] = f]
SetReg(w, r, v) == OnTop(w, SetRegOf(Top(w), r, v))
SetRegs(w, r, vals) ==
  FoldLeft(LAMBDA x, j : SetReg(x, r + j - 1, vals[j]), w, [j \in 1..Len(vals) |-> j])
\* The value of an operation goes to register r.
Into(r, a) == SetReg(a.w, r, a.v)

Goto(w, pc) == OnTop(w, [Top(w) EXCEPT !.pc = pc])
Skip(w, n) == Goto(w, Top(w).pc + n)
\* The instruction of these opcodes gives the next state of the machine.
Execute(ops, next) ==
  /\ Running
  /\ I.op \in ops
  /\ vm' = next
  /\ UNCHANGED <<proto, result>>

(*------------------------------- upvalues ------------------------------*)

Cell == vm.fns[Fr.fn].ups
UpValue(u) ==
  LET c == vm.cells[Cell[u]]
  IN  IF c.depth = 0 THEN c.val ELSE RegOfFrame(vm.frames[c.depth], c.reg)
SetUpValue(u, v) ==
  LET c == vm.cells[Cell[u]]
  IN  IF c.depth = 0 THEN [vm EXCEPT !.cells[Cell[u]].val = v]
      ELSE [vm EXCEPT !.frames[c.depth] = SetRegOf(@, c.reg, v)]

\* luaF_closeupval
CloseUpvals(w, level) ==
  [w EXCEPT !.cells = [c \in DOMAIN @ |->
     IF @[c].depth = Len(w.frames) /\ @[c].reg >= level
     THEN [depth |-> 0, reg |-> 0, val |-> RegOfFrame(Top(w), @[c].reg)] ELSE @[c]]]
\* luaF_close: the upvalues, then the variables to be closed, the last one first.
RECURSIVE CloseVars(_, _)
CloseVars(w, level) ==
  LET f == Top(w)
      last == f.tbc[Len(f.tbc)]
      popped == OnTop(w, [f EXCEPT !.tbc = SubSeq(@, 1, Len(@) - 1)])
  IN  IF f.tbc = <<>> \/ last < level THEN w
      ELSE CloseVars(Event(popped, "CLOSE", <<RegOfFrame(f, last)>>), level)
CloseFrom(w, level) == CloseVars(CloseUpvals(w, level), level)
\* luaF_newtbcupval
NewTbc(w, r) ==
  LET f == Top(w)
  IN  IF Falsy(RegOfFrame(f, r)) THEN w ELSE OnTop(w, [f EXCEPT !.tbc = Append(@, r)])

\* luaF_findupval, for each upvalue in the enclosing function's registers; the
\* closure goes to register a.
FindUpval(w, r) ==
  { c \in DOMAIN w.cells : w.cells[c].depth = Len(w.frames) /\ w.cells[c].reg = r }
Captured(w, r) ==
  IF FindUpval(w, r) # {} THEN w
  ELSE [w EXCEPT !.cells = Append(@, [depth |-> Len(w.frames), reg |-> r, val |-> Nil])]
PushClosure(w0, a, path, ups) ==
  LET w == FoldLeft(LAMBDA x, u : IF u.instack THEN Captured(x, u.idx) ELSE x, w0, ups)
      cell(u) == IF u.instack THEN CHOOSE c \in FindUpval(w, u.idx) : TRUE ELSE Cell[u.idx]
      fn == [path |-> path, ups |-> [u \in DOMAIN ups |-> cell(ups[u])]]
  IN  SetReg([w EXCEPT !.fns = Append(@, fn)], a, <<"fn", Len(w.fns) + 1>>)

(*-------------------------------- calls --------------------------------*)

\* n values to register r, or all of them when n is -1.
MoveResults(w, r, vals, n) ==
  LET v == IF n = -1 THEN vals
           ELSE [j \in 1..n |-> IF j <= Len(vals) THEN vals[j] ELSE Nil]
      moved == SetRegs(w, r, v)
  IN  OnTop(moved, [Top(moved) EXCEPT !.top = r + Len(v)])
\* The values of an operand list from register first, open when n is -1.
Values(first, n) == Regs(first, IF n = -1 THEN Fr.top - 1 ELSE first + n - 1)

IsFn(v) == v[1] = "fn"
\* A frame for a call; its results go to register r of the one below, n of them.
NewFrame(w, f, args, r, n) ==
  LET p == ProtoOf(w.fns[f].path)
  IN  [fn |-> f, pc |-> 1, tbc |-> <<>>, extra |-> <<>>, top |-> Len(args), dest |-> r,
       wanted |-> n, nargs |-> Len(args),
       regs |-> args \o Several(p.nparams - Len(args), Nil)]
\* luaD_precall: the caller goes on after the call.
Precall(w, f, args, r, n) ==
  LET a == AskCall(w, f, args)
  IN  IF IsFn(f) THEN [w EXCEPT !.frames = Append(@, NewFrame(w, f[2], args, r, n))]
      ELSE MoveResults(a.w, r, a.v, n)
\* luaD_poscall: the frame on top returns.
Poscall(w, vals) ==
  LET below == [w EXCEPT !.frames = SubSeq(@, 1, Len(@) - 1)]
  IN  MoveResults(below, Top(w).dest, vals, Top(w).wanted)

Returned(w, vals) ==
  /\ result' = IF Depth = 1 THEN <<"returned", vals>> ELSE result
  /\ vm' = IF Depth = 1 THEN w ELSE Poscall(w, vals)
  /\ UNCHANGED proto

(*----------------------------- instructions ----------------------------*)

Move ==
  LET v == CASE I.op = "MOVE" -> R(I.b)
             [] I.op = "LOADI" -> <<I.o, I.b>>
             [] I.op = "LOADK" -> K(I.b)
             [] I.op = "LOADTRUE" -> True
             [] I.op \in {"LOADFALSE", "LFALSESKIP"} -> False
             [] I.op = "GETUPVAL" -> UpValue(I.b)
  IN  Execute({"MOVE", "LOADI", "LOADK", "LOADTRUE", "LOADFALSE", "LFALSESKIP", "GETUPVAL"},
              Skip(SetReg(vm, I.a, v), IF I.op = "LFALSESKIP" THEN 2 ELSE 1))
LoadNilOp ==
  Execute({"LOADNIL"}, Skip(SetRegs(vm, I.a, [j \in 1..(I.b + 1) |-> Nil]), 1))
SetUpval == Execute({"SETUPVAL"}, Skip(SetUpValue(I.b, R(I.a)), 1))

GetVararg(k) ==
  CASE k[1] = "int" /\ k[2] \in DOMAIN Fr.extra -> Fr.extra[k[2]]
    [] k = Str(<<"n">>) -> Integer(Len(Fr.extra))
    [] OTHER -> Nil
GetTable ==
  LET key == CASE I.op \in {"GETTABUP", "GETFIELD"} -> K(I.c)
               [] I.op = "GETI" -> Integer(I.c)
               [] OTHER -> R(I.c)
      t == IF I.op = "GETTABUP" THEN UpValue(I.b) ELSE R(I.b)
      got == IF I.op = "GETVARG" THEN Ans(vm, GetVararg(AsKey(key))) ELSE DoIndex(vm, t, key)
  IN  Execute({"GETTABUP", "GETFIELD", "GETI", "GETTABLE", "GETVARG"},
              Skip(Into(I.a, got), 1))
SelfCall ==
  Execute({"SELF"},
          Skip(Into(I.a, DoIndex(SetReg(vm, I.a + 1, R(I.b)), R(I.b), K(I.c))), 1))
SetTable ==
  LET key == CASE I.op \in {"SETTABUP", "SETFIELD"} -> K(I.b)
               [] I.op = "SETI" -> Integer(I.b)
               [] OTHER -> R(I.b)
      t == IF I.op = "SETTABUP" THEN UpValue(I.a) ELSE R(I.a)
  IN  Execute({"SETTABUP", "SETFIELD", "SETI", "SETTABLE"},
              Skip(DoSetIndex(vm, t, key, RK(I.c, I.k)), 1))
NewTableOp == Execute({"NEWTABLE"}, Skip(Into(I.a, NewTable(vm)), 1))
SetListOp ==
  LET vals == Values(I.a + 1, I.b)
      put(w, j) == DoSetIndex(w, R(I.a), Integer(I.c + j), vals[j])
  IN  Execute({"SETLIST"}, Skip(FoldLeft(put, vm, [j \in 1..Len(vals) |-> j]), 1))

\* op_arith and its variants: on success the metamethod's instruction is skipped.
Arithmetic ==
  LET imm == Integer(I.c)
      first == IF I.o = "SHLI" THEN imm ELSE R(I.b)
      second == CASE I.op = "BIN" -> R(I.c) [] I.op = "BINK" -> K(I.c)
                  [] I.o = "SHLI" -> R(I.b) [] OTHER -> imm
      op == CASE I.o = "ADDI" -> "ADD" [] I.o = "SHLI" -> "SHL" [] I.o = "SHRI" -> "SHR"
              [] OTHER -> I.o
  IN  Execute({"BIN", "BINK", "BINI"},
              IF Computable(op, first, second)
              THEN Skip(SetReg(vm, I.a, Arith(op, first, second)), 2)
              ELSE Skip(vm, 1))
\* OP_MMBIN, OP_MMBINI, OP_MMBINK: the result goes where the operation's would.
Metamethod ==
  LET other == CASE I.op = "MMBIN" -> R(I.b) [] I.op = "MMBINI" -> Integer(I.b)
                 [] OTHER -> K(I.b)
      args == IF I.k THEN <<other, R(I.a)>> ELSE <<R(I.a), other>>
  IN  Execute({"MMBIN", "MMBINI", "MMBINK"},
              Skip(Into(P.code[Fr.pc - 1].a, Ask(vm, I.o, args)), 1))
Unary ==
  LET v == R(I.b)
      res == CASE I.op = "NOT" -> Ans(vm, Bool(Falsy(v)))
               [] I.o = "LEN" -> DoLen(vm, v)
               [] OTHER -> DoArith(vm, "UNM", v, v)
  IN  Execute({"UN", "NOT"}, Skip(Into(I.a, res), 1))
ConcatOp ==
  LET join(j, a) == DoConcat(a.w, R(I.a + j - 1), a.v)
  IN  Execute({"CONCAT"},
              Skip(Into(I.a, FoldRight(join, [j \in 1..(I.b - 1) |-> j],
                                       Ans(vm, R(I.a + I.b - 1)))), 1))

\* docondjump: the next instruction is the jump taken when the test is k.
NextJump(a, k) == IF a.v # k THEN Skip(a.w, 2) ELSE Goto(a.w, P.code[Fr.pc + 1].a)
Test ==
  LET imm == IF I.c = 1 THEN Flt(I.b) ELSE Integer(I.b)
      order == CASE I.op = "ORDER" -> DoOrder(vm, I.o, R(I.a), R(I.b))
                 [] I.o \in {"LT", "LE"} -> DoOrder(vm, I.o, R(I.a), imm)
                 [] I.o = "GT" -> DoOrder(vm, "LT", imm, R(I.a))
                 [] I.o = "GE" -> DoOrder(vm, "LE", imm, R(I.a))
      a == CASE I.op = "EQ" -> DoEqual(vm, R(I.a), R(I.b))
             [] I.op = "EQK" -> Ans(vm, RawEqual(R(I.a), K(I.b)))
             [] I.op = "EQI" -> Ans(vm, RawEqual(R(I.a), Integer(I.b)))
             [] I.op = "TEST" -> Ans(vm, ~Falsy(R(I.a)))
             [] OTHER -> order
  IN  Execute({"EQ", "EQK", "EQI", "TEST", "ORDER", "ORDERI"}, NextJump(a, I.k))
TestSet ==
  Execute({"TESTSET"},
          IF Falsy(R(I.b)) = I.k THEN Skip(vm, 2)
          ELSE Goto(SetReg(vm, I.a, R(I.b)), P.code[Fr.pc + 1].a))
JumpOp == Execute({"JMP"}, Goto(vm, I.a))
OpClose == Execute({"CLOSE"}, Skip(CloseFrom(vm, I.a), 1))
Tbc == Execute({"TBC"}, Skip(NewTbc(vm, I.a), 1))
\* luaG_errnnil; the error is an event like the others.
ErrNNil ==
  Execute({"ERRNNIL"}, Skip(IF R(I.a) = Nil THEN vm ELSE Event(vm, "DEFINED", <<R(I.a)>>), 1))

Call == Execute({"CALL"}, Precall(Skip(vm, 1), R(I.a), Values(I.a + 1, I.b), I.a, I.c))
\* luaD_pretailcall: a Lua function takes the frame, the results of another are
\* those of the frame.
PretailCall(w, f, args) ==
  IF IsFn(f)
  THEN /\ vm' = OnTop(w, NewFrame(w, f[2], args, Fr.dest, Fr.wanted))
       /\ UNCHANGED <<proto, result>>
  ELSE LET a == AskCall(w, f, args) IN Returned(a.w, a.v)
TailCall ==
  /\ Running
  /\ I.op = "TAILCALL"
  /\ PretailCall(IF I.k THEN CloseUpvals(vm, 0) ELSE vm, R(I.a), Values(I.a + 1, I.b))
OpReturn ==
  LET n == CASE I.op = "RETURN0" -> 0 [] I.op = "RETURN1" -> 1 [] OTHER -> I.b
  IN  /\ Running
      /\ I.op \in {"RETURN", "RETURN0", "RETURN1"}
      /\ Returned(IF I.op = "RETURN" /\ I.k THEN CloseFrom(vm, 0) ELSE vm, Values(I.a, n))

\* forprep: integers when the initial value and the step are.
ForPrep ==
  LET init == R(I.a)
      limit == R(I.a + 1)
      step == R(I.a + 2)
      ints == IsInt(init) /\ IsInt(step)
      count == ForCount(init[2], limit[2], step[2])
      none == IF step[2] > 0 THEN limit[2] < init[2] ELSE init[2] < limit[2]
  IN  Execute({"FORPREP"},
              IF ints
              THEN IF count = -1 THEN Goto(vm, I.b + 1)
                   ELSE Skip(SetRegs(vm, I.a, <<Integer(count), step, init>>), 1)
              ELSE IF none THEN Goto(vm, I.b + 1)
                   ELSE Skip(SetRegs(vm, I.a, <<Flt(limit[2]), Flt(step[2]), Flt(init[2])>>), 1))
\* floatforloop: whether the index after this one is within the limit.
FloatForLoop(limit, idx, step) ==
  IF step > 0 THEN idx + step <= limit ELSE limit <= idx + step
ForLoop ==
  LET step == R(I.a + 1)
      idx == R(I.a + 2)
      more == IF IsInt(step) THEN R(I.a)[2] > 0
              ELSE FloatForLoop(R(I.a)[2], idx[2], step[2])
      count == IF IsInt(step) THEN Integer(R(I.a)[2] - 1) ELSE R(I.a)
  IN  Execute({"FORLOOP"},
              IF more
              THEN Goto(SetRegs(vm, I.a, <<count, step, Arith("ADD", idx, step)>>), I.b)
              ELSE Skip(vm, 1))
\* OP_TFORPREP: the control and closing variables change places.
TForPrep ==
  LET swapped == SetRegs(vm, I.a + 2, <<R(I.a + 3), R(I.a + 2)>>)
  IN  Execute({"TFORPREP"}, Goto(NewTbc(swapped, I.a + 2), I.b))
TForCall ==
  LET copied == SetRegs(vm, I.a + 3, <<R(I.a), R(I.a + 1), R(I.a + 3)>>)
  IN  Execute({"TFORCALL"},
              Precall(Skip(copied, 1), R(I.a), <<R(I.a + 1), R(I.a + 3)>>, I.a + 3, I.c))
TForLoop ==
  Execute({"TFORLOOP"}, IF R(I.a + 3) # Nil THEN Goto(vm, I.b) ELSE Skip(vm, 1))

Closure ==
  Execute({"CLOSURE"},
          Skip(PushClosure(vm, I.a, Append(vm.fns[Fr.fn].path, I.b), P.protos[I.b].ups), 1))

\* createvarargtab
VarargTable(w, extra) ==
  LET t == NewTable(w)
      present == { j \in DOMAIN extra : extra[j] # Nil }
      fields == [k \in { Integer(j) : j \in present } |-> extra[k[2]]]
  IN  Ans([t.w EXCEPT !.tables[t.v[2]] = (Str(<<"n">>) :> Integer(Len(extra))) @@ fields], t.v)
\* buildhiddenargs: the extra arguments are kept aside.
HiddenArgs(w, extra) ==
  OnTop(w, [Top(w) EXCEPT !.regs = SubSeq(@, 1, P.nparams), !.extra = extra])
\* luaT_adjustvarargs
VarargPrep ==
  LET extra == SubSeq(Fr.regs, P.nparams + 1, Fr.nargs)
      t == VarargTable(vm, extra)
  IN  Execute({"VARARGPREP"},
              Skip(IF P.vatab THEN SetReg(HiddenArgs(t.w, extra), P.nparams, t.v)
                   ELSE SetReg(HiddenArgs(vm, extra), P.nparams, Nil), 1))
\* luaT_getvarargs: from the table of register b, when there is one.
GetVarargs(tabled, r) ==
  LET t == vm.tables[R(r)[2]]
      at(j) == IF Integer(j) \in DOMAIN t THEN t[Integer(j)] ELSE Nil
  IN  IF tabled THEN [j \in 1..t[Str(<<"n">>)][2] |-> at(j)] ELSE Fr.extra
Vararg == Execute({"VARARG"}, Skip(MoveResults(vm, I.a, GetVarargs(I.k, I.b), I.c), 1))

(* The start: the main function has one upvalue, the environment.           *)
Started(args) ==
  [log |-> <<>>, tables |-> <<>>, fns |-> <<[path |-> <<>>, ups |-> <<1>>]>>,
   cells |-> <<[depth |-> 0, reg |-> 0, val |-> Object("env")]>>,
   frames |-> <<[fn |-> 1, pc |-> 1, tbc |-> <<>>, extra |-> <<>>, top |-> Len(args),
                 dest |-> 0, wanted |-> -1, nargs |-> Len(args), regs |-> args]>>]

Step ==
  \/ Move \/ LoadNilOp \/ SetUpval \/ GetTable \/ SelfCall \/ SetTable \/ NewTableOp
  \/ SetListOp \/ Arithmetic \/ Metamethod \/ Unary \/ ConcatOp \/ Test \/ TestSet
  \/ JumpOp \/ OpClose \/ Tbc \/ ErrNNil \/ Call \/ TailCall \/ OpReturn \/ ForPrep
  \/ ForLoop \/ TForPrep \/ TForCall \/ TForLoop \/ Closure \/ VarargPrep \/ Vararg
=============================================================================
