-------------------------------- MODULE LuaCode --------------------------------
(***************************************************************************)
(* The code generator (lcode.c): expressions that are not yet in a register *)
(* or have jumps pending, the registers they use, and the instructions that *)
(* put their values there.                                                  *)
(*                                                                          *)
(* An operator takes the state fs of the function being compiled and gives  *)
(* the new one, with the expression it is about where that changes.         *)
(* Positions in the code are indices from 1; a jump holds its destination,  *)
(* NO_JUMP at the end of a list.  An instruction names its opcode 'op' with *)
(* the operator 'o' of the opcodes that come in a family.                   *)
(***************************************************************************)
EXTENDS LuaValues, FiniteSetsExt

CONSTANTS
  MAXARG_C, MAXARG_Bx,   \* largest operands
  MAXINDEXRK             \* largest index of a constant as an operand

NO_JUMP == 0
NO_REG == -1
OFFSET_sC == MAXARG_C \div 2
OFFSET_sBx == MAXARG_Bx \div 2

Instr(op, o, a, b, c, k) == [op |-> op, o |-> o, a |-> a, b |-> b, c |-> c, k |-> k]
ABC(op, a, b, c) == Instr(op, "", a, b, c, FALSE)

(* Expression descriptors: v is the value, register, position or index of   *)
(* the kind k, x the key of an indexed one, ro whether it is read-only.     *)
Exp(k, v) == [k |-> k, v |-> v, x |-> 0, t |-> NO_JUMP, f |-> NO_JUMP,
              ro |-> FALSE]
Void == Exp("VVOID", 0)
At(fs, e) == [fs |-> fs, e |-> e]

ConstKinds == {"VNIL", "VTRUE", "VFALSE", "VKINT", "VKFLT", "VKSTR"}
IndexedKinds == {"VINDEXED", "VVARGIND", "VINDEXUP", "VINDEXI", "VINDEXSTR"}
HasMultRet(e) == e.k \in {"VCALL", "VVARARG"}
HasJumps(e) == e.t # e.f
KindOf(v) ==
  CASE v[1] = "nil" -> "VNIL" [] v[1] = "true" -> "VTRUE" [] v[1] = "false" -> "VFALSE"
    [] v[1] = "int" -> "VKINT" [] v[1] = "flt" -> "VKFLT" [] OTHER -> "VKSTR"
\* const2exp
Const(v) == Exp(KindOf(v), v)
IsNumeral(e) == ~HasJumps(e) /\ e.k \in {"VKINT", "VKFLT"}
\* luaK_exp2const; the v of a VCONST is its value.
IsConst(e) == ~HasJumps(e) /\ e.k \in ConstKinds \cup {"VCONST"}

(*----------------------------- registers -------------------------------*)

InReg(var) == var.kind \in {"VDKREG", "RDKCONST", "RDKVAVAR", "RDKTOCLOSE"}
RegLevel(fs, nvar) ==
  LET inreg == { i \in 1..nvar : InReg(fs.actvar[i]) }
  IN  IF inreg = {} THEN 0 ELSE fs.actvar[Max(inreg)].ridx + 1
NVarStack(fs) == RegLevel(fs, fs.nactvar)

\* Mutant: one register short.
CheckStackShort(fs, n) == [fs EXCEPT !.maxstack = Max({@, fs.freereg + n - 1})]
CheckStack(fs, n) == [fs EXCEPT !.maxstack = Max({@, fs.freereg + n})]
ReserveRegs(fs, n) == [CheckStack(fs, n) EXCEPT !.freereg = @ + n]

\* freereg, with its assertion that registers are freed as a stack.
FreeReg(fs, reg) ==
  IF reg < NVarStack(fs) THEN fs
  ELSE [fs EXCEPT !.freereg = @ - 1, !.asserts = @ /\ reg = fs.freereg - 1]
FreeRegs(fs, r1, r2) == FreeReg(FreeReg(fs, Max({r1, r2})), Min({r1, r2}))
RegOf(e) == IF e.k = "VNONRELOC" THEN e.v ELSE NO_REG
FreeExp(fs, e) == FreeReg(fs, RegOf(e))
\* Mutant: the lower register is freed first.
FreeExpsInOrder(fs, e1, e2) == FreeReg(FreeReg(fs, RegOf(e1)), RegOf(e2))
FreeExps(fs, e1, e2) == FreeRegs(fs, RegOf(e1), RegOf(e2))

(*-------------------------------- code ---------------------------------*)

PC(fs) == Len(fs.code) + 1
Code(fs, i) == [fs EXCEPT !.code = Append(@, i)]
\* The position of the instruction coded last.
Here(fs) == Len(fs.code)
GetLabel(fs) == [fs EXCEPT !.lasttarget = PC(fs)]
PreviousIs(fs, op) == PC(fs) > fs.lasttarget /\ fs.code[Here(fs)].op = op

\* luaK_nil: one instruction for two ranges that touch.
LoadNil(fs, from, n) ==
  LET l == from + n - 1
      p == fs.code[Here(fs)]
      joins == /\ PreviousIs(fs, "LOADNIL")
               /\ \/ p.a <= from /\ from <= p.a + p.b + 1
                  \/ from <= p.a /\ p.a <= l + 1
      a == Min({from, p.a})
  IN  IF joins
      THEN [fs EXCEPT !.code[Here(fs)] =
                        ABC("LOADNIL", a, Max({l, p.a + p.b}) - a, 0)]
      ELSE Code(fs, ABC("LOADNIL", from, n - 1, 0))

Jump(fs) == Code(fs, ABC("JMP", NO_JUMP, 0, 0))
FixJump(fs, pc, dest) == [fs EXCEPT !.code[pc].a = dest]

\* The jumps of a list.
RECURSIVE Jumps(_, _)
Jumps(fs, list) ==
  IF list = NO_JUMP THEN {} ELSE {list} \cup Jumps(fs, fs.code[list].a)
LastJump(fs, list) ==
  CHOOSE j \in Jumps(fs, list) : fs.code[j].a = NO_JUMP

\* luaK_concat: the state and the list.
Concat(fs, l1, l2) ==
  IF l2 = NO_JUMP THEN At(fs, l1)
  ELSE IF l1 = NO_JUMP THEN At(fs, l2)
  ELSE At(FixJump(fs, LastJump(fs, l1), l2), l1)

TestOps == {"EQ", "ORDER", "EQK", "EQI", "ORDERI", "TEST", "TESTSET"}
CondJump(fs, i) == Jump(Code(fs, i))
\* getjumpcontrol
Control(fs, pc) ==
  IF pc > 1 /\ fs.code[pc - 1].op \in TestOps THEN pc - 1 ELSE pc
ProducesValue(fs, pc) == fs.code[Control(fs, pc)].op = "TESTSET"

\* patchtestreg, for the instructions that test and set.
PatchTestReg(i, reg) ==
  IF reg # NO_REG /\ reg # i.b THEN [i EXCEPT !.a = reg]
  ELSE Instr("TEST", "", i.b, 0, 0, i.k)
PatchTests(fs, pcs, reg) ==
  [fs EXCEPT !.code = [i \in 1..Len(@) |->
     IF i + 1 \in pcs /\ @[i].op = "TESTSET" THEN PatchTestReg(@[i], reg) ELSE @[i]]]
RemoveValues(fs, list) == PatchTests(fs, Jumps(fs, list), NO_REG)

\* patchlistaux: jumps with a value go to vtarget, the others to dtarget.
PatchListAux(fs, list, vtarget, reg, dtarget) ==
  LET pcs == Jumps(fs, list)
      to == [fs EXCEPT !.code = [i \in 1..Len(@) |->
               IF i \notin pcs THEN @[i]
               ELSE [@[i] EXCEPT !.a = IF ProducesValue(fs, i) THEN vtarget
                                       ELSE dtarget]]]
  IN  PatchTests(to, pcs, reg)
PatchList(fs, list, target) == PatchListAux(fs, list, target, NO_REG, target)
PatchToHere(fs, list) == PatchList(GetLabel(fs), list, PC(fs))

(*------------------------------ constants ------------------------------*)

\* k2proto: the index of a constant, and the state that has it.
AddK(fs, v) ==
  LET known == { i \in DOMAIN fs.k : fs.k[i] = v }
  IN  IF known # {} THEN At(fs, Min(known))
      ELSE At([fs EXCEPT !.k = Append(@, v)], Len(fs.k) + 1)
FitsC(i) == i + OFFSET_sC \in 0..MAXARG_C
FitsBx(i) == i \in -OFFSET_sBx..(MAXARG_Bx - OFFSET_sBx)
\* luaK_int, luaK_float and luaK_codek; LOADKX is part of LOADK.
LoadConst(fs, reg, v) ==
  LET added == AddK(fs, v)
  IN  IF v[1] \in {"int", "flt"} /\ FitsBx(v[2])
      THEN Code(fs, Instr("LOADI", v[1], reg, v[2], 0, FALSE))
      ELSE Code(added.fs, ABC("LOADK", reg, added.e, 0))

(*----------------------- discharging expressions -----------------------*)

\* luaK_setreturns and luaK_setoneret; n is -1 for all the results.
SetReturns(fs, e, n) ==
  IF e.k = "VCALL" THEN [fs EXCEPT !.code[e.v].c = n]
  ELSE ReserveRegs([fs EXCEPT !.code[e.v].c = n, !.code[e.v].a = fs.freereg], 1)
SetOneRet(fs, e) ==
  CASE e.k = "VCALL" -> At(fs, [e EXCEPT !.k = "VNONRELOC", !.v = fs.code[e.v].a])
    [] e.k = "VVARARG" -> At([fs EXCEPT !.code[e.v].c = 1], [e EXCEPT !.k = "VRELOC"])
    [] OTHER -> At(fs, e)

\* An instruction for e whose register comes later.
Relocatable(fs, e, i) == At(Code(fs, i), [e EXCEPT !.k = "VRELOC", !.v = PC(fs)])
Get(op, e) == ABC(op, 0, e.v, e.x)

\* luaK_dischargevars
DischargeVars(fs, e) ==
  CASE e.k = "VCONST" -> At(fs, [Const(e.v) EXCEPT !.t = e.t, !.f = e.f])
    [] e.k = "VVARGVAR" -> At([fs EXCEPT !.vatab = TRUE], [e EXCEPT !.k = "VNONRELOC"])
    [] e.k = "VLOCAL" -> At(fs, [e EXCEPT !.k = "VNONRELOC"])
    [] e.k = "VUPVAL" -> Relocatable(fs, e, ABC("GETUPVAL", 0, e.v, 0))
    [] e.k = "VINDEXUP" -> Relocatable(fs, e, Get("GETTABUP", e))
    [] e.k = "VINDEXI" -> Relocatable(FreeReg(fs, e.v), e, Get("GETI", e))
    [] e.k = "VINDEXSTR" -> Relocatable(FreeReg(fs, e.v), e, Get("GETFIELD", e))
    [] e.k = "VINDEXED" -> Relocatable(FreeRegs(fs, e.v, e.x), e, Get("GETTABLE", e))
    [] e.k = "VVARGIND" -> Relocatable(FreeRegs(fs, e.v, e.x), e, Get("GETVARG", e))
    [] OTHER -> SetOneRet(fs, e)

\* discharge2reg
Discharge2Reg(fs0, e0, reg) ==
  LET d == DischargeVars(fs0, e0)
      fs == d.fs
      e == d.e
      new == CASE e.k = "VNIL" -> LoadNil(fs, reg, 1)
               [] e.k = "VFALSE" -> Code(fs, ABC("LOADFALSE", reg, 0, 0))
               [] e.k = "VTRUE" -> Code(fs, ABC("LOADTRUE", reg, 0, 0))
               [] e.k = "VK" -> Code(fs, ABC("LOADK", reg, e.v, 0))
               [] e.k \in {"VKSTR", "VKFLT", "VKINT"} -> LoadConst(fs, reg, e.v)
               [] e.k = "VRELOC" -> [fs EXCEPT !.code[e.v].a = reg]
               [] e.k = "VNONRELOC" -> IF reg = e.v THEN fs
                                       ELSE Code(fs, ABC("MOVE", reg, e.v, 0))
               [] OTHER -> fs
  IN  At(new, IF e.k = "VJMP" THEN e ELSE [e EXCEPT !.k = "VNONRELOC", !.v = reg])
Discharge2AnyReg(fs, e) ==
  IF e.k = "VNONRELOC" THEN At(fs, e)
  ELSE Discharge2Reg(ReserveRegs(fs, 1), e, fs.freereg)

NeedValue(fs, list) == \E j \in Jumps(fs, list) : ~ProducesValue(fs, j)

\* exp2reg: the jumps of e go behind it, or to loads of their booleans.
Exp2Reg(fs0, e0, reg) ==
  LET d == Discharge2Reg(fs0, e0, reg)
      isjmp == d.e.k = "VJMP"
      c == IF isjmp THEN Concat(d.fs, d.e.t, d.e.v) ELSE At(d.fs, d.e.t)
      fs == c.fs
      t == c.e
      f == d.e.f
      need == NeedValue(fs, t) \/ NeedValue(fs, f)
      over == IF isjmp THEN fs ELSE Jump(fs)
      p_f == PC(over)
      loads == Code(GetLabel(Code(GetLabel(over), ABC("LFALSESKIP", reg, 0, 0))),
                    ABC("LOADTRUE", reg, 0, 0))
      ready == IF ~need THEN fs
               ELSE IF isjmp THEN PatchToHere(loads, NO_JUMP)
               ELSE PatchToHere(loads, Here(over))
      final == PC(ready)
      onf == PatchListAux(GetLabel(ready), f, final, reg, p_f)
      ont == PatchListAux(onf, t, final, reg, p_f + 1)
  IN  At(IF t = f THEN fs ELSE ont, Exp("VNONRELOC", reg))

Exp2NextReg(fs, e) ==
  LET d == DischargeVars(fs, e)
      free == FreeExp(d.fs, d.e)
  IN  Exp2Reg(ReserveRegs(free, 1), d.e, free.freereg)
Exp2AnyReg(fs, e) ==
  LET d == DischargeVars(fs, e)
      inreg == d.e.k = "VNONRELOC"
  IN  IF inreg /\ ~HasJumps(d.e) THEN d
      ELSE IF inreg /\ d.e.v >= NVarStack(d.fs) THEN Exp2Reg(d.fs, d.e, d.e.v)
      ELSE Exp2NextReg(d.fs, d.e)
Exp2AnyRegUp(fs, e) ==
  IF e.k \notin {"VUPVAL", "VVARGVAR"} \/ HasJumps(e) THEN Exp2AnyReg(fs, e)
  ELSE At(fs, e)
Exp2Val(fs, e) ==
  IF e.k = "VJMP" \/ HasJumps(e) THEN Exp2AnyReg(fs, e) ELSE DischargeVars(fs, e)

\* luaK_exp2K: a constant whose index fits an operand; if it does not fit, the
\* constant has been added.
Exp2K(fs, e) ==
  LET c == IF e.k = "VK" THEN At(fs, e.v) ELSE AddK(fs, e.v)
  IN  IF HasJumps(e) \/ e.k \notin ConstKinds \cup {"VK"} THEN At(fs, e)
      ELSE IF c.e > MAXINDEXRK THEN At(c.fs, e)
      ELSE At(c.fs, [e EXCEPT !.k = "VK", !.v = c.e])
\* exp2RK: a constant, or a register.
Exp2RK(fs, e) ==
  LET c == Exp2K(fs, e) IN IF c.e.k = "VK" THEN c ELSE Exp2AnyReg(c.fs, c.e)

\* codeABRK
CodeABRK(fs, op, a, b, e) ==
  LET c == Exp2RK(fs, e)
  IN  At(Code(c.fs, Instr(op, "", a, b, c.e.v, c.e.k = "VK")), c.e)

\* luaK_storevar
StoreVar(fs, var, ex) ==
  LET done(c) == FreeExp(c.fs, c.e)
      up == Exp2AnyReg(fs, ex)
      into(op) == done(CodeABRK(fs, op, var.v, var.x, ex))
  IN  CASE var.k = "VLOCAL" -> Exp2Reg(FreeExp(fs, ex), ex, var.v).fs
        [] var.k = "VUPVAL" ->
             done(At(Code(up.fs, ABC("SETUPVAL", up.e.v, var.v, 0)), up.e))
        [] var.k = "VINDEXUP" -> into("SETTABUP")
        [] var.k = "VINDEXI" -> into("SETI")
        [] var.k = "VINDEXSTR" -> into("SETFIELD")
        [] OTHER -> into("SETTABLE")

(*------------------------------ conditions -----------------------------*)

NegateCondition(fs, e) == [fs EXCEPT !.code[Control(fs, e.v)].k = ~@]

\* jumponcond: the jump is the last instruction.
JumpOnCond(fs, e, cond) ==
  LET i == fs.code[e.v]
      d == Discharge2AnyReg(fs, e)
  IN  IF e.k = "VRELOC" /\ i.op = "NOT"
      THEN CondJump([fs EXCEPT !.code = SubSeq(@, 1, Len(@) - 1)],
                    Instr("TEST", "", i.b, 0, 0, ~cond))
      ELSE CondJump(FreeExp(d.fs, d.e),
                    Instr("TESTSET", "", NO_REG, d.e.v, 0, cond))

AlwaysTrue == {"VK", "VKFLT", "VKINT", "VKSTR", "VTRUE"}
GoIfTrue(fs, e0) ==
  LET d == DischargeVars(fs, e0)
      j == CASE d.e.k = "VJMP" -> At(NegateCondition(d.fs, d.e), d.e.v)
             [] d.e.k \in AlwaysTrue -> At(d.fs, NO_JUMP)
             [] OTHER -> LET jump == JumpOnCond(d.fs, d.e, FALSE)
                         IN  At(jump, Here(jump))
      c == Concat(j.fs, d.e.f, j.e)
  IN  At(PatchToHere(c.fs, d.e.t), [d.e EXCEPT !.f = c.e, !.t = NO_JUMP])
GoIfFalse(fs, e0) ==
  LET d == DischargeVars(fs, e0)
      j == CASE d.e.k = "VJMP" -> At(d.fs, d.e.v)
             [] d.e.k \in {"VNIL", "VFALSE"} -> At(d.fs, NO_JUMP)
             [] OTHER -> LET jump == JumpOnCond(d.fs, d.e, TRUE)
                         IN  At(jump, Here(jump))
      c == Concat(j.fs, d.e.t, j.e)
  IN  At(PatchToHere(c.fs, d.e.f), [d.e EXCEPT !.t = c.e, !.f = NO_JUMP])

\* codenot
CodeNot(fs, e) ==
  LET d == Discharge2AnyReg(fs, e)
      n == CASE e.k \in {"VNIL", "VFALSE"} -> At(fs, [e EXCEPT !.k = "VTRUE", !.v = True])
             [] e.k \in AlwaysTrue -> At(fs, [e EXCEPT !.k = "VFALSE", !.v = False])
             [] e.k = "VJMP" -> At(NegateCondition(fs, e), e)
             [] OTHER -> Relocatable(FreeExp(d.fs, d.e), d.e, ABC("NOT", 0, d.e.v, 0))
  IN  At(RemoveValues(RemoveValues(n.fs, n.e.t), n.e.f),
         [n.e EXCEPT !.t = n.e.f, !.f = n.e.t])

(*------------------------------ operators ------------------------------*)

IsKstr(fs, e) == e.k = "VK" /\ ~HasJumps(e) /\ e.v <= MAXINDEXRK /\ fs.k[e.v][1] = "str"
IsKint(e) == e.k = "VKINT" /\ ~HasJumps(e)
IsCint(e) == IsKint(e) /\ e.v[2] \in 0..MAXARG_C
IsSCint(e) == IsKint(e) /\ FitsC(e.v[2])
IsSCnumber(e) == e.k \in {"VKINT", "VKFLT"} /\ ~HasJumps(e) /\ FitsC(e.v[2])

\* luaK_indexed
Indexed(fs0, t0, k0) ==
  LET s == IF k0.k = "VKSTR" THEN AddK(fs0, k0.v) ELSE At(fs0, 0)
      k == IF k0.k = "VKSTR" THEN [k0 EXCEPT !.k = "VK", !.v = s.e] ELSE k0
      u == IF t0.k = "VUPVAL" /\ ~IsKstr(s.fs, k) THEN Exp2AnyReg(s.fs, t0)
           ELSE At(s.fs, t0)
      t == u.e
      kreg == Exp2AnyReg(u.fs, k)
      is(kind, x) == [t EXCEPT !.k = kind, !.x = x]
  IN  IF t.k = "VUPVAL" THEN At(u.fs, is("VINDEXUP", k.v))
      ELSE IF t.k = "VVARGVAR" THEN At(kreg.fs, is("VVARGIND", kreg.e.v))
      ELSE IF IsKstr(u.fs, k) THEN At(u.fs, is("VINDEXSTR", k.v))
      ELSE IF IsCint(k) THEN At(u.fs, is("VINDEXI", k.v[2]))
      ELSE At(kreg.fs, is("VINDEXED", kreg.e.v))

\* luaK_self
Self(fs, e, key) ==
  LET r == Exp2AnyReg(fs, e)
      free == FreeExp(r.fs, r.e)
      base == free.freereg
      two == ReserveRegs(free, 2)
      c == Exp2K(two, key)
      kr == Exp2AnyReg(c.fs, c.e)
      moved == Code(Code(kr.fs, ABC("MOVE", base + 1, r.e.v, 0)),
                    ABC("GETTABLE", base, r.e.v, kr.e.v))
  IN  At(IF c.e.k = "VK" THEN Code(c.fs, ABC("SELF", base, r.e.v, c.e.v))
         ELSE FreeExp(moved, kr.e),
         Exp("VNONRELOC", base))

\* constfolding: neither what may raise an error nor a float zero is folded.
ValidOp(op, v1, v2) == op = "IDIV" => v2[2] # 0
CanFold(op, e1, e2) ==
  /\ IsNumeral(e1) /\ IsNumeral(e2) /\ ValidOp(op, e1.v, e2.v)
  /\ Arith(op, e1.v, e2.v) # <<"flt", 0>>
Fold(op, e1, e2) == Const(Arith(op, e1.v, e2.v))

\* finishbinexpval: the operation, then the call of its metamethod.
FinishBinExpVal(fs, e1, e2, i, mm, event, flip) ==
  LET r == Exp2AnyReg(fs, e1)
      coded == Code(r.fs, [i EXCEPT !.b = r.e.v])
      free == FreeExps(coded, r.e, e2)
  IN  At(Code(free, Instr(mm, event, r.e.v, i.c, 0, flip)),
         Exp("VRELOC", Here(coded)))
CodeBinExpVal(fs, op, e1, e2) ==
  LET r == Exp2AnyReg(fs, e2)
  IN  FinishBinExpVal(r.fs, e1, r.e, Instr("BIN", op, 0, 0, r.e.v, FALSE),
                      "MMBIN", op, FALSE)
CodeBinI(fs, op, e1, e2, event, flip) ==
  FinishBinExpVal(fs, e1, e2, Instr("BINI", op, 0, 0, e2.v[2], FALSE),
                  "MMBINI", event, flip)
\* finishbinexpneg: the metamethod gets the operand that was written.
FinishBinExpNeg(fs, e1, e2, op, event) ==
  LET c == CodeBinI(fs, op, e1, [e2 EXCEPT !.v[2] = -@], event, FALSE)
  IN  At([c.fs EXCEPT !.code[Here(c.fs)].b = e2.v[2]], c.e)
Negatable(e) == IsSCint(e) /\ FitsC(-e.v[2])

\* codearith, codebitwise: a constant operand where one fits.
CodeArith(fs, op, e1, e2, flip, constant) ==
  LET c == IF constant THEN Exp2K(fs, e2) ELSE At(fs, e2)
      bin == IF flip THEN CodeBinExpVal(c.fs, op, c.e, e1)
                     ELSE CodeBinExpVal(c.fs, op, e1, c.e)
  IN  IF c.e.k = "VK"
      THEN FinishBinExpVal(c.fs, e1, c.e, Instr("BINK", op, 0, 0, c.e.v, FALSE),
                           "MMBINK", op, flip)
      ELSE bin
CodeCommutative(fs, op, e1, e2) ==
  LET flip == IsNumeral(e1)
      a == IF flip THEN e2 ELSE e1
      b == IF flip THEN e1 ELSE e2
  IN  IF op = "ADD" /\ IsSCint(b) THEN CodeBinI(fs, "ADDI", a, b, "ADD", flip)
      ELSE CodeArith(fs, op, a, b, flip, IsNumeral(b))
CodeBitwise(fs, op, e1, e2) ==
  LET flip == e1.k = "VKINT"
      a == IF flip THEN e2 ELSE e1
      b == IF flip THEN e1 ELSE e2
  IN  CodeArith(fs, op, a, b, flip, b.k = "VKINT")

\* What isSCnumber stores in *isfloat, also for a float it refuses.
SetsFloat(e) == e.k = "VKFLT" /\ e.v[2] \in MININT..MAXINT

\* codeorder: nothing resets the mark a refused second operand left.
CodeOrder(fs, op, e1, e2) ==
  LET c2 == IsSCnumber(e2)
      c1 == ~c2 /\ IsSCnumber(e1)
      r1 == Exp2AnyReg(fs, IF c1 THEN e2 ELSE e1)
      r2 == IF c1 \/ c2 THEN At(r1.fs, IF c1 THEN e1 ELSE e2) ELSE Exp2AnyReg(r1.fs, e2)
      free == FreeExps(r2.fs, r1.e, r2.e)
      isfloat == IF SetsFloat(e2) \/ (~c2 /\ SetsFloat(e1)) THEN 1 ELSE 0
      i == IF c2 THEN Instr("ORDERI", op, r1.e.v, e2.v[2], isfloat, TRUE)
           ELSE IF c1
           THEN Instr("ORDERI", IF op = "LT" THEN "GT" ELSE "GE", r1.e.v, e1.v[2],
                      isfloat, TRUE)
           ELSE Instr("ORDER", op, r1.e.v, r2.e.v, isfloat, TRUE)
      jump == CondJump(free, i)
  IN  At(jump, Exp("VJMP", Here(jump)))

\* codeeq
CodeEq(fs, op, e1, e2) ==
  LET swap == e1.k # "VNONRELOC"
      b == IF swap THEN e1 ELSE e2
      r1 == Exp2AnyReg(fs, IF swap THEN e2 ELSE e1)
      r2 == IF IsSCnumber(b) THEN At(r1.fs, b) ELSE Exp2RK(r1.fs, b)
      i == CASE IsSCnumber(b) -> Instr("EQI", "", r1.e.v, b.v[2], 0, op = "EQ")
             [] r2.e.k = "VK" -> Instr("EQK", "", r1.e.v, r2.e.v, 0, op = "EQ")
             [] OTHER -> Instr("EQ", "", r1.e.v, r2.e.v, 0, op = "EQ")
      jump == CondJump(FreeExps(r2.fs, r1.e, r2.e), i)
  IN  At(jump, Exp("VJMP", Here(jump)))

\* luaK_prefix; the fake second operand of a fold is an integer zero.
CodePrefix(fs0, op, e0) ==
  LET d == DischargeVars(fs0, e0)
      r == Exp2AnyReg(d.fs, d.e)
  IN  IF op = "NOT" THEN CodeNot(d.fs, d.e)
      ELSE IF op = "UNM" /\ CanFold(op, d.e, Const(Integer(0))) THEN At(d.fs, Fold(op, d.e, d.e))
      ELSE At(Code(FreeExp(r.fs, r.e), Instr("UN", op, 0, r.e.v, 0, FALSE)),
              Exp("VRELOC", PC(r.fs)))

\* luaK_infix: the first operand, before the second is read.
Infix(fs0, op, e0) ==
  LET d == DischargeVars(fs0, e0)
  IN  CASE op = "AND" -> GoIfTrue(d.fs, d.e)
        [] op = "OR" -> GoIfFalse(d.fs, d.e)
        [] op = "CONCAT" -> Exp2NextReg(d.fs, d.e)
        [] op \in {"EQ", "NE"} -> IF IsNumeral(d.e) THEN d ELSE Exp2RK(d.fs, d.e)
        [] op \in {"LT", "LE", "GT", "GE"} ->
             IF IsSCnumber(d.e) THEN d ELSE Exp2AnyReg(d.fs, d.e)
        [] OTHER -> IF IsNumeral(d.e) THEN d ELSE Exp2AnyReg(d.fs, d.e)

\* codeconcat: e1 .. (e2 .. e3) is one instruction.
CodeConcat(fs, e1, e2) ==
  LET merged == [fs EXCEPT !.code[Here(fs)].a = e1.v, !.code[Here(fs)].b = @ + 1]
  IN  At(IF PreviousIs(fs, "CONCAT") THEN FreeExp(merged, e2)
         ELSE FreeExp(Code(fs, ABC("CONCAT", e1.v, 2, 0)), e2), e1)

\* luaK_posfix
Posfix(fs0, op, e1, e20) ==
  LET d == DischargeVars(fs0, e20)
      fs == d.fs
      e2 == d.e
      next == Exp2NextReg(fs, e2)
      ands == Concat(fs, e2.f, e1.f)
      ors == Concat(fs, e2.t, e1.t)
  IN  IF op \in ArithOps /\ CanFold(op, e1, e2) THEN At(fs, Fold(op, e1, e2))
      ELSE CASE op = "AND" -> At(ands.fs, [e2 EXCEPT !.f = ands.e])
             [] op = "OR" -> At(ors.fs, [e2 EXCEPT !.t = ors.e])
             [] op = "CONCAT" -> CodeConcat(next.fs, e1, next.e)
             [] op \in {"ADD", "MUL"} -> CodeCommutative(fs, op, e1, e2)
             [] op = "SUB" /\ Negatable(e2) -> FinishBinExpNeg(fs, e1, e2, "ADDI", "SUB")
             [] op \in {"SUB", "IDIV"} ->
                  CodeArith(fs, op, e1, e2, FALSE, IsNumeral(e2))
             [] op = "BAND" -> CodeBitwise(fs, op, e1, e2)
             [] op = "SHL" /\ IsSCint(e1) -> CodeBinI(fs, "SHLI", e2, e1, "SHL", TRUE)
             [] op = "SHL" /\ Negatable(e2) -> FinishBinExpNeg(fs, e1, e2, "SHRI", "SHL")
             [] op = "SHR" /\ IsSCint(e2) -> CodeBinI(fs, "SHRI", e1, e2, "SHR", FALSE)
             [] op \in {"SHL", "SHR"} -> CodeBinExpVal(fs, op, e1, e2)
             [] op \in {"EQ", "NE"} -> CodeEq(fs, op, e1, e2)
             [] op = "GT" -> CodeOrder(fs, "LT", e2, e1)
             [] op = "GE" -> CodeOrder(fs, "LE", e2, e1)
             [] OTHER -> CodeOrder(fs, op, e1, e2)

(*------------------------------ functions ------------------------------*)

\* luaK_ret; nret is -1 for all the values.
Ret(fs, first, nret) ==
  LET op == CASE nret = 0 -> "RETURN0" [] nret = 1 -> "RETURN1" [] OTHER -> "RETURN"
  IN  Code(fs, ABC(op, first, nret, 0))

\* luaK_setlist; n is -1 for the values up to the top.
SetList(fs, base, nelems, n) ==
  [Code(fs, ABC("SETLIST", base, n, nelems)) EXCEPT !.freereg = base + 1]

\* The destination of a jump to jumps.
RECURSIVE FinalTarget(_, _, _)
FinalTarget(code, i, count) ==
  IF count = 0 \/ i > Len(code) \/ code[i].op # "JMP" THEN i
  ELSE FinalTarget(code, code[i].a, count - 1)

\* luaK_finish; c of a return tells whether the function hides its varargs.
Finish(fs) ==
  LET hides == fs.vararg /\ ~fs.vatab
      fix(i) ==
        CASE i.op \in {"RETURN0", "RETURN1", "RETURN", "TAILCALL"} /\ (fs.needclose \/ hides) ->
               [i EXCEPT !.op = IF @ = "TAILCALL" THEN @ ELSE "RETURN",
                         !.k = fs.needclose, !.o = IF hides THEN "vararg" ELSE ""]
          [] i.op = "GETVARG" /\ fs.vatab -> [i EXCEPT !.op = "GETTABLE"]
          [] i.op = "VARARG" -> [i EXCEPT !.k = fs.vatab]
          [] i.op = "JMP" -> [i EXCEPT !.a = FinalTarget(fs.code, i.a, 100)]
          [] OTHER -> i
  IN  [fs EXCEPT !.code = [i \in 1..Len(@) |-> fix(@[i])]]
=============================================================================
