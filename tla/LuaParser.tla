------------------------------- MODULE LuaParser -------------------------------
(***************************************************************************)
(* The parser (lparser.c): one pass over a chunk that declares variables,   *)
(* resolves names to registers, upvalues, constants and globals, and calls  *)
(* the code generator.                                                      *)
(*                                                                          *)
(* A chunk is read as a tree, so that tokens, lines and the text of errors  *)
(* are left out; a binary expression is still the row of its tokens.  The   *)
(* first semantic error is kept in fs.err and the statements after it are   *)
(* not read.  Register and index numbers are those of the code *)
(* except that positions start from 1.                                      *)
(***************************************************************************)
EXTENDS LuaCode, SequencesExt

CONSTANT MaxToStore    \* items of a constructor before a SETLIST

Fail(fs, what) == IF fs.err = "" THEN [fs EXCEPT !.err = what] ELSE fs
Claim(fs, holds) == [fs EXCEPT !.asserts = @ /\ holds]
NameKey(name) == Const(Str(<<name>>))

(*------------------------------ variables ------------------------------*)

NewVar(fs, name, kind) ==
  [fs EXCEPT !.actvar = Append(@, [name |-> name, kind |-> kind, ridx |-> 0, val |-> Nil])]
NewVars(fs, names, kind) == FoldLeft(LAMBDA f, n : NewVar(f, n, kind), fs, names)
AdjustLocalVars(fs, n) ==
  LET level == NVarStack(fs)
  IN  [fs EXCEPT !.nactvar = @ + n,
                 !.actvar = [i \in 1..Len(@) |->
                    IF i - fs.nactvar \in 1..n
                    THEN [@[i] EXCEPT !.ridx = level + i - fs.nactvar - 1] ELSE @[i]]]
LocalVar(fs, i) ==
  LET var == fs.actvar[i]
      kind == IF var.kind = "RDKVAVAR" THEN "VVARGVAR" ELSE "VLOCAL"
  IN  IF InReg(var) THEN [Exp(kind, var.ridx) EXCEPT !.x = i]
      ELSE IF var.kind = "RDKCTC" THEN Exp("VCONST", var.val) ELSE Exp("VGLOBAL", var.kind)

\* searchvar, when it finds no variable: what is known of undeclared names.  Of
\* a VGLOBAL, v is "preambular", "undeclared" or the kind of the declaration.
Undeclared(fs, info) ==
  LET active == 1..fs.nactvar
      all == { i \in active : fs.actvar[i].name = "*" }
      global == { i \in active : fs.actvar[i].kind \in {"GDKREG", "GDKCONST"} }
  IN  IF info \in {"GDKREG", "GDKCONST"} THEN info
      ELSE IF all # {} THEN fs.actvar[Max(all)].kind
      ELSE IF global # {} THEN "undeclared" ELSE info
Named(fs, name) == { i \in 1..fs.nactvar : fs.actvar[i].name = name }

\* Mutant: the innermost block is marked.
MarkInnermost(fs, level) ==
  [fs EXCEPT !.bl[Len(fs.bl)].upval = TRUE, !.needclose = TRUE]
\* markupval: the block that declared the variable closes upvalues.
MarkUpval(fs, level) ==
  LET b == Max({ i \in DOMAIN fs.bl : fs.bl[i].nactvar <= level })
  IN  [fs EXCEPT !.bl[b].upval = TRUE, !.needclose = TRUE]
MarkToBeClosed(fs) ==
  [fs EXCEPT !.bl[Len(fs.bl)].upval = TRUE, !.bl[Len(fs.bl)].tbc = TRUE,
             !.needclose = TRUE]

\* newupvalue: e is the variable in the enclosing function.
NewUpvalue(fs, name, e) ==
  LET prev == fs.prev[1]
      local == e.k = "VLOCAL"
      kind == IF local THEN prev.actvar[e.x].kind ELSE prev.ups[e.v].kind
  IN  [fs EXCEPT !.ups = Append(@, [name |-> name, instack |-> local,
                                    idx |-> e.v, kind |-> kind])]

\* singlevaraux
RECURSIVE SingleVarAux(_, _, _, _)
SingleVarAux(fs, name, info, base) ==
  LET found == Named(fs, name)
      e == LocalVar(fs, Max(found))
      table == IF e.k = "VVARGVAR" THEN [fs EXCEPT !.vatab = TRUE] ELSE fs
      captured == IF e.k \in {"VVARGVAR", "VLOCAL"}
                  THEN At(MarkUpval(table, e.x - 1), [e EXCEPT !.k = "VLOCAL"])
                  ELSE At(fs, e)
      known == { i \in DOMAIN fs.ups : fs.ups[i].name = name }
      outer == SingleVarAux(fs.prev[1], name, Undeclared(fs, info), FALSE)
      linked == [fs EXCEPT !.prev = <<outer.fs>>]
  IN  IF found # {} THEN IF base THEN At(fs, e) ELSE captured
      ELSE IF known # {} THEN At(fs, Exp("VUPVAL", Min(known)))
      ELSE IF fs.prev = <<>> THEN At(fs, Exp("VGLOBAL", Undeclared(fs, info)))
      ELSE IF outer.e.k \in {"VLOCAL", "VUPVAL"}
      THEN At(NewUpvalue(linked, name, outer.e), Exp("VUPVAL", Len(fs.ups) + 1))
      ELSE At(linked, outer.e)

\* buildglobal: _ENV may be a local variable, or a constant.
BuildGlobal(fs, name) ==
  LET env == SingleVarAux(fs, "_ENV", "preambular", TRUE)
      r == IF env.e.k = "VGLOBAL" THEN Exp2AnyRegUp(Fail(env.fs, "_ENV"), Const(Nil))
           ELSE Exp2AnyRegUp(env.fs, env.e)
  IN  Indexed(r.fs, r.e, NameKey(name))
\* buildvar
BuildVar(fs, name) ==
  LET v == SingleVarAux(fs, name, "preambular", TRUE)
      ok == IF v.e.v = "undeclared" THEN Fail(v.fs, "undeclared") ELSE v.fs
      g == BuildGlobal(ok, name)
  IN  IF v.e.k # "VGLOBAL" THEN v
      ELSE At(g.fs, [g.e EXCEPT !.ro = v.e.v = "GDKCONST"])

\* check_readonly, for what is assigned to.
CheckReadOnly(fs, e) ==
  LET fixed == \/ e.k = "VCONST"
               \/ e.k \in {"VLOCAL", "VVARGVAR"} /\ fs.actvar[e.x].kind # "VDKREG"
               \/ e.k = "VUPVAL" /\ fs.ups[e.v].kind # "VDKREG"
               \/ e.k \in IndexedKinds /\ e.ro
      checked == IF fixed THEN Fail(fs, "const") ELSE fs
  IN  IF e.k = "VVARGIND"
      THEN At([checked EXCEPT !.vatab = TRUE], [e EXCEPT !.k = "VINDEXED"])
      ELSE At(checked, e)

\* adjust_assign; e is Void when there is no expression.
AdjustAssign(fs0, nvars, nexps, e) ==
  LET needed == nvars - nexps
      fs == CheckStack(fs0, needed)
      last == Exp2NextReg(fs, e).fs
      closed == IF HasMultRet(e) THEN SetReturns(fs, e, Max({needed + 1, 0}))
                ELSE LET c == IF e.k = "VVOID" THEN fs ELSE last
                     IN  IF needed > 0 THEN LoadNil(c, c.freereg, needed) ELSE c
  IN  IF needed > 0 THEN ReserveRegs(closed, needed)
      ELSE [closed EXCEPT !.freereg = @ + needed]

(*------------------------- blocks, gotos and labels --------------------*)

EnterBlock(fs, isloop) ==
  LET tbc == fs.bl # <<>> /\ fs.bl[Len(fs.bl)].tbc
      block == [nactvar |-> fs.nactvar, firstlabel |-> Len(fs.labels),
                firstgoto |-> Len(fs.gotos), upval |-> FALSE, loop |-> isloop,
                breaks |-> FALSE, tbc |-> tbc]
  IN  Claim([fs EXCEPT !.bl = Append(@, block)], fs.freereg = NVarStack(fs))

\* newgotoentry: a jump and a dead CLOSE, which may take its place.
NewGoto(fs, name) ==
  LET coded == Code(Jump(fs), ABC("CLOSE", 0, 1, 0))
  IN  [coded EXCEPT !.gotos = Append(@, [name |-> name, pc |-> PC(fs),
                                         nactvar |-> fs.nactvar, close |-> FALSE])]
\* createlabel
CreateLabel(fs, name, last) ==
  LET level == IF last THEN fs.bl[Len(fs.bl)].nactvar ELSE fs.nactvar
  IN  [GetLabel(fs) EXCEPT !.labels =
         Append(@, [name |-> name, pc |-> PC(fs), nactvar |-> level])]

\* Mutant: no jump is refused.
NeverIntoScope(gt, label) == FALSE
JumpsIntoScope(gt, label) == gt.nactvar < label.nactvar
\* closegoto; the goto is removed by the caller.
CloseGoto(fs0, gt, label, bup) ==
  LET fs == IF JumpsIntoScope(gt, label) THEN Fail(fs0, "scope") ELSE fs0
      close == gt.close \/ (label.nactvar < gt.nactvar /\ bup)
      swapped == [fs EXCEPT !.code[gt.pc] = ABC("CLOSE", RegLevel(fs, label.nactvar), 0, 0),
                            !.code[gt.pc + 1] = fs.code[gt.pc]]
  IN  IF close THEN PatchList(swapped, gt.pc + 1, label.pc)
      ELSE PatchList(fs, gt.pc, label.pc)

\* solvegotos: the pending gotos of the block that ends, the innermost.
RECURSIVE SolveGotos(_, _)
SolveGotos(fs, i) ==
  LET bl == fs.bl[Len(fs.bl)]
      gt == fs.gotos[i]
      match == { l \in DOMAIN fs.labels : l > bl.firstlabel /\ fs.labels[l].name = gt.name }
      solved == [CloseGoto(fs, gt, fs.labels[Min(match)], bl.upval)
                   EXCEPT !.gotos = RemoveAt(@, i)]
      escapes == bl.upval /\ RegLevel(fs, gt.nactvar) > RegLevel(fs, bl.nactvar)
      exported == [fs EXCEPT !.gotos[i].close = @ \/ escapes,
                             !.gotos[i].nactvar = bl.nactvar]
  IN  IF i > Len(fs.gotos) THEN [fs EXCEPT !.labels = SubSeq(@, 1, bl.firstlabel)]
      ELSE IF match # {} THEN SolveGotos(solved, i)
      ELSE SolveGotos(exported, i + 1)

\* leaveblock
LeaveBlock(fs) ==
  LET bl == fs.bl[Len(fs.bl)]
      outermost == Len(fs.bl) = 1
      level == RegLevel(fs, bl.nactvar)
      closing == IF ~outermost /\ bl.upval THEN Code(fs, ABC("CLOSE", level, 0, 0)) ELSE fs
      left == [closing EXCEPT !.freereg = level, !.nactvar = bl.nactvar]
      marked == IF bl.breaks THEN CreateLabel(left, "break", FALSE) ELSE left
      solved == SolveGotos(marked, bl.firstgoto + 1)
      checked == IF outermost /\ Len(solved.gotos) > bl.firstgoto
                 THEN Fail(solved, "label") ELSE solved
  IN  [checked EXCEPT !.bl = SubSeq(@, 1, Len(@) - 1),
                      !.actvar = SubSeq(@, 1, Len(@) - (fs.nactvar - bl.nactvar))]

(*------------------------------ functions ------------------------------*)

OpenFunc(prev) ==
  EnterBlock([code |-> <<>>, k |-> <<>>, protos |-> <<>>, ups |-> <<>>, freereg |-> 0,
              lasttarget |-> 1, maxstack |-> 2, actvar |-> <<>>, nactvar |-> 0,
              needclose |-> FALSE, vararg |-> FALSE, vatab |-> FALSE, nparams |-> 0,
              bl |-> <<>>, gotos |-> <<>>, labels |-> <<>>, asserts |-> TRUE,
              err |-> "", prev |-> prev], FALSE)
\* close_func; an error has stopped the parser before.
CloseFunc(fs) ==
  LET left == LeaveBlock(Code(fs, ABC("RETURN0", NVarStack(fs), 0, 0)))
  IN  IF left.err = "" THEN Finish(left) ELSE left
Proto(fs) ==
  [code |-> fs.code, k |-> fs.k, protos |-> fs.protos, ups |-> fs.ups,
   maxstack |-> fs.maxstack, nparams |-> fs.nparams, vararg |-> fs.vararg,
   vatab |-> fs.vatab]

SetVararg(fs) == Code([fs EXCEPT !.vararg = TRUE], ABC("VARARGPREP", 0, 0, 0))
\* parlist; dots is "" without '...', the vararg parameter's name, or "...".
ParList(fs, names, dots) ==
  LET params == AdjustLocalVars(NewVars(fs, names, "VDKREG"), Len(names))
      counted == [params EXCEPT !.nparams = params.nactvar]
      table == NewVar(counted, dots, IF dots = "..." THEN "VDKREG" ELSE "RDKVAVAR")
      all == IF dots = "" THEN counted ELSE AdjustLocalVars(SetVararg(table), 1)
  IN  ReserveRegs(all, all.nactvar)

(*------------------------------ expressions ----------------------------*)

Left == [op \in {"MUL", "IDIV"} |-> 11] @@ [op \in {"ADD", "SUB"} |-> 10]
        @@ [op \in {"SHL", "SHR"} |-> 7] @@ [op \in {"LT", "LE", "GT", "GE", "EQ", "NE"} |-> 3]
        @@ ("CONCAT" :> 9) @@ ("BAND" :> 6) @@ ("AND" :> 2) @@ ("OR" :> 1)
\* priority[].right
Right == [Left EXCEPT !["CONCAT"] = 8]
UNARY_PRIORITY == 12
\* getunopr: '-' is one token.
UnOp(token) == IF token.o = "SUB" THEN "UNM" ELSE token.o

RECURSIVE Expr(_, _), SubExpr(_, _, _), Climb(_, _), SimpleExp(_, _),
  SuffixedExp(_, _), ExpList(_, _), Fields(_, _), Body(_, _),
  Statement(_, _), StatList(_, _, _)

\* subexpr: toks are the tokens from here; the result has those left.
SubExpr(fs, toks, limit) ==
  LET sub == SubExpr(fs, Tail(toks), UNARY_PRIORITY)
      pre == CodePrefix(sub.fs, UnOp(Head(toks)), sub.e)
      simple == SimpleExp(fs, Head(toks))
  IN  IF Head(toks).n = "op" THEN Climb([fs |-> pre.fs, e |-> pre.e, rest |-> sub.rest], limit)
      ELSE Climb([fs |-> simple.fs, e |-> simple.e, rest |-> Tail(toks)], limit)
\* The loop of subexpr over operators that bind tighter than limit.
Climb(s, limit) ==
  LET op == Head(s.rest).o
      v == Infix(s.fs, op, s.e)
      sub == SubExpr(v.fs, Tail(s.rest), Right[op])
      post == Posfix(sub.fs, op, v.e, sub.e)
  IN  IF s.rest = <<>> \/ Left[op] <= limit THEN s
      ELSE Climb([fs |-> post.fs, e |-> post.e, rest |-> sub.rest], limit)
Expr(fs, n) ==
  IF n.n = "chain" THEN LET s == SubExpr(fs, n.toks, 0) IN At(s.fs, s.e)
  ELSE SimpleExp(fs, n)

\* yindex
YIndex(fs, n) == LET k == Expr(fs, n) IN Exp2Val(k.fs, k.e)
\* fieldsel
FieldSel(at, name) ==
  LET t == Exp2AnyRegUp(at.fs, at.e) IN Indexed(t.fs, t.e, NameKey(name))

\* explist: all expressions but the last are in registers.
ExpList(fs, list) ==
  LET front == ExpList(fs, SubSeq(list, 1, Len(list) - 1))
  IN  IF list = <<>> THEN At(fs, Void)
      ELSE IF Len(list) = 1 THEN Expr(fs, list[1])
      ELSE Expr(Exp2NextReg(front.fs, front.e).fs, list[Len(list)])

\* funcargs: f is in a register.
FuncArgs(at, args) ==
  LET base == at.e.v
      list == ExpList(at.fs, args)
      open == HasMultRet(list.e)
      fs == IF open THEN SetReturns(list.fs, list.e, -1)
            ELSE IF args = <<>> THEN list.fs ELSE Exp2NextReg(list.fs, list.e).fs
      n == IF open THEN -1 ELSE fs.freereg - (base + 1)
      call == Claim(Code(fs, ABC("CALL", base, n, 1)), at.e.k = "VNONRELOC")
  IN  At([call EXCEPT !.freereg = base + 1], Exp("VCALL", PC(fs)))

(* The control of a constructor: v is the item not yet in a register, to is *)
(* the number of items in registers not yet stored, na of those stored.     *)
CloseListField(cc) ==
  LET fs == Exp2NextReg(cc.fs, cc.v).fs
      full == cc.to >= MaxToStore
  IN  IF cc.v.k = "VVOID" THEN cc
      ELSE [cc EXCEPT !.fs = IF full THEN SetList(fs, cc.t, cc.na, cc.to) ELSE fs,
                      !.v = Void, !.na = IF full THEN @ + cc.to ELSE @,
                      !.to = IF full THEN 0 ELSE @]
LastListField(cc) ==
  LET open == HasMultRet(cc.v)
      fs == IF open THEN SetReturns(cc.fs, cc.v, -1)
            ELSE IF cc.v.k = "VVOID" THEN cc.fs ELSE Exp2NextReg(cc.fs, cc.v).fs
  IN  IF cc.to = 0 THEN cc
      ELSE [cc EXCEPT !.fs = SetList(fs, cc.t, cc.na, IF open THEN -1 ELSE cc.to),
                      !.na = @ + cc.to - (IF open THEN 1 ELSE 0)]
\* recfield: its registers are free again at the end.
RecField(cc, item) ==
  LET key == YIndex(cc.fs, item.key)
      tab == Indexed(key.fs, Exp("VNONRELOC", cc.t), key.e)
      val == Expr(tab.fs, item.exp)
      fs == StoreVar(val.fs, tab.e, val.e)
  IN  [cc EXCEPT !.fs = [fs EXCEPT !.freereg = cc.fs.freereg], !.nh = @ + 1]
Fields(cc0, items) ==
  LET cc == CloseListField(cc0)
      item == Head(items)
      e == Expr(cc.fs, item.exp)
  IN  IF items = <<>> THEN LastListField(cc0)
      ELSE Fields(IF item.n = "pair" THEN RecField(cc, item)
                  ELSE [cc EXCEPT !.fs = e.fs, !.v = e.e, !.to = @ + 1], Tail(items))
Constructor(fs, items) ==
  LET t == fs.freereg
      pc == PC(fs)
      new == ReserveRegs(Code(fs, ABC("NEWTABLE", 0, 0, 0)), 1)
      cc == Fields([fs |-> new, v |-> Void, t |-> t, na |-> 0, nh |-> 0, to |-> 0], items)
  IN  At([cc.fs EXCEPT !.code[pc] = ABC("NEWTABLE", t, cc.nh, cc.na)], Exp("VNONRELOC", t))

\* body and codeclosure
Body(fs, n) ==
  LET opened == ParList(OpenFunc(<<fs>>), n.params, n.dots)
      closed == CloseFunc(StatList(opened, n.body, FALSE))
      prev == closed.prev[1]
      outer == [prev EXCEPT !.protos = Append(@, Proto(closed)),
                            !.asserts = @ /\ closed.asserts,
                            !.err = IF @ = "" THEN closed.err ELSE @]
  IN  Exp2NextReg(Code(outer, ABC("CLOSURE", 0, Len(outer.protos), 0)),
                  Exp("VRELOC", PC(outer)))

SimpleExp(fs, n) ==
  CASE n.n = "const" -> At(fs, Const(n.val))
    [] n.n = "dots" ->
         At(Code(IF fs.vararg THEN fs ELSE Fail(fs, "vararg"),
                 ABC("VARARG", 0, fs.nparams, 1)),
            Exp("VVARARG", PC(fs)))
    [] n.n = "table" -> Constructor(fs, n.items)
    [] n.n = "fn" -> Body(fs, n)
    [] OTHER -> SuffixedExp(fs, n)

\* suffixedexp and primaryexp
SuffixedExp(fs, n) ==
  LET in == Expr(fs, n.exp)
      t == SuffixedExp(fs, n.exp)
      tu == Exp2AnyRegUp(t.fs, t.e)
      key == YIndex(tu.fs, n.key)
      f == Exp2NextReg(t.fs, t.e)
  IN  CASE n.n = "name" -> BuildVar(fs, n.name)
        [] n.n = "paren" -> DischargeVars(in.fs, in.e)
        [] n.n = "field" -> FieldSel(t, n.name)
        [] n.n = "index" -> Indexed(key.fs, tu.e, key.e)
        [] n.n = "call" -> FuncArgs(f, n.args)
        [] n.n = "method" -> FuncArgs(Self(t.fs, t.e, NameKey(n.name)), n.args)

(*------------------------------- statements ----------------------------*)

Block(fs, stats) == LeaveBlock(StatList(EnterBlock(fs, FALSE), stats, FALSE))

\* check_conflict: v is assigned and lhs are the variables before it.
CheckConflict(fs, lhs, v) ==
  LET extra == fs.freereg
      up(l) == l.k = "VINDEXUP" /\ v.k = "VUPVAL" /\ l.v = v.v
      tab(l) == l.k \in IndexedKinds \ {"VINDEXUP"} /\ v.k = "VLOCAL" /\ l.v = v.v
      idx(l) == l.k = "VINDEXED" /\ v.k = "VLOCAL" /\ l.x = v.v
      safe(l) == IF up(l) THEN [l EXCEPT !.k = "VINDEXSTR", !.v = extra]
                 ELSE [l EXCEPT !.v = IF tab(l) THEN extra ELSE @,
                                !.x = IF idx(l) THEN extra ELSE @]
      copy == ABC(IF v.k = "VLOCAL" THEN "MOVE" ELSE "GETUPVAL", extra, v.v, 0)
      conflict == \E i \in DOMAIN lhs : up(lhs[i]) \/ tab(lhs[i]) \/ idx(lhs[i])
  IN  At(IF conflict THEN ReserveRegs(Code(fs, copy), 1) ELSE fs,
         [i \in DOMAIN lhs |-> safe(lhs[i])])
\* The variables of an assignment, as they are read; fs and the list.
Target(at, n) ==
  LET v == SuffixedExp(at.fs, n)
      c == IF v.e.k \in IndexedKinds \/ at.e = <<>> THEN At(v.fs, at.e)
           ELSE CheckConflict(v.fs, at.e, v.e)
      r == CheckReadOnly(c.fs, v.e)
  IN  At(r.fs, Append(c.e, r.e))
StoreVarTop(fs, var) == StoreVar(fs, var, Exp("VNONRELOC", fs.freereg - 1))
\* restassign
Assign(fs, vars, exps) ==
  LET lhs == FoldLeft(LAMBDA at, n : Target(at, n), At(fs, <<>>), vars)
      nvars == Len(vars)
      list == ExpList(lhs.fs, exps)
      one == SetOneRet(list.fs, list.e)
      last == IF Len(exps) = nvars THEN StoreVar(one.fs, lhs.e[nvars], one.e)
              ELSE StoreVarTop(AdjustAssign(list.fs, nvars, Len(exps), list.e), lhs.e[nvars])
  IN  FoldLeft(LAMBDA f, i : StoreVarTop(f, lhs.e[nvars - i]), last,
               [i \in 1..(nvars - 1) |-> i])

\* cond: the list of the jumps to take when it is false.
Cond(fs, n) ==
  LET e == Expr(fs, n)
      g == GoIfTrue(e.fs, IF e.e.k = "VNIL" THEN [e.e EXCEPT !.k = "VFALSE"] ELSE e.e)
  IN  At(g.fs, g.e.f)

WhileStat(fs, s) ==
  LET start == PC(fs)
      c == Cond(GetLabel(fs), s.cond)
      body == Block(EnterBlock(c.fs, TRUE), s.body)
      back == PatchList(Jump(body), PC(body), start)
  IN  PatchToHere(LeaveBlock(back), c.e)

RepeatStat(fs, s) ==
  LET start == PC(fs)
      scope == EnterBlock(EnterBlock(GetLabel(fs), TRUE), FALSE)
      c == Cond(StatList(scope, s.body, TRUE), s.cond)
      bl == c.fs.bl[Len(c.fs.bl)]
      left == LeaveBlock(c.fs)
      fixing == PatchToHere(Jump(left), c.e)
      again == Jump(Code(fixing, ABC("CLOSE", RegLevel(fixing, bl.nactvar), 0, 0)))
      both == PatchToHere(again, PC(left))
  IN  LeaveBlock(IF bl.upval THEN PatchList(both, Here(again), start)
                 ELSE PatchList(left, c.e, start))

\* exp1
Exp1(fs, n) == LET e == Expr(fs, n) IN Exp2NextReg(e.fs, e.e).fs
\* forbody: the prepare and loop instructions hold each other's position.
ForBody(fs, base, nvars, isgen, body) ==
  LET op(name) == IF isgen THEN "T" \o name ELSE name
      prep == PC(fs)
      ready == [Code(fs, ABC(op("FORPREP"), base, 0, 0)) EXCEPT !.freereg = @ - 1]
      scope == ReserveRegs(AdjustLocalVars(EnterBlock(ready, FALSE), nvars), nvars)
      left == GetLabel(LeaveBlock(Block(scope, body)))
      fixed == [left EXCEPT !.code[prep].b = PC(left)]
      called == IF isgen THEN Code(fixed, ABC("TFORCALL", base, 0, nvars)) ELSE fixed
  IN  Code(called, ABC(op("FORLOOP"), base, prep + 1, 0))
FORSTATE == "(for state)"
ForNum(fs0, s) ==
  LET fs == EnterBlock(fs0, TRUE)
      vars == NewVar(NewVars(fs, <<FORSTATE, FORSTATE>>, "VDKREG"), s.var, "RDKCONST")
      limits == Exp1(Exp1(vars, s.init), s.limit)
      one == ReserveRegs(LoadConst(limits, limits.freereg, Integer(1)), 1)
      step == IF s.step = <<>> THEN one ELSE Exp1(limits, s.step[1])
  IN  LeaveBlock(ForBody(AdjustLocalVars(step, 2), fs.freereg, 1, FALSE, s.body))
ForList(fs0, s) ==
  LET fs == EnterBlock(fs0, TRUE)
      first == NewVar(NewVars(fs, <<FORSTATE, FORSTATE, FORSTATE>>, "VDKREG"),
                      s.vars[1], "RDKCONST")
      vars == NewVars(first, Tail(s.vars), "VDKREG")
      list == ExpList(vars, s.exps)
      state == AdjustLocalVars(AdjustAssign(list.fs, 4, Len(s.exps), list.e), 3)
  IN  LeaveBlock(ForBody(CheckStack(MarkToBeClosed(state), 2), fs.freereg,
                         Len(s.vars), TRUE, s.body))

\* test_then_block, where e is the list of the jumps to the end.
ThenBlock(at, clause, more) ==
  LET c == Cond(at.fs, clause.cond)
      body == Block(c.fs, clause.body)
      jumped == Jump(body)
      j == IF more THEN Concat(jumped, at.e, Here(jumped)) ELSE At(body, at.e)
  IN  At(PatchToHere(j.fs, c.e), j.e)
IfStat(fs, s) ==
  LET n == Len(s.clauses)
      hasElse == s.else # <<>>
      tests == FoldLeft(LAMBDA at, i : ThenBlock(at, s.clauses[i], i < n \/ hasElse),
                        At(fs, NO_JUMP), [i \in 1..n |-> i])
      last == IF hasElse THEN Block(tests.fs, s.else[1]) ELSE tests.fs
  IN  PatchToHere(last, tests.e)

LocalFunc(fs, s) ==
  Body(AdjustLocalVars(NewVar(fs, s.name, "VDKREG"), 1), s.fn).fs
\* localstat, with checktoclose.
LocalStat(fs, s) ==
  LET nvars == Len(s.vars)
      nexps == Len(s.exps)
      vars == FoldLeft(LAMBDA f, v : NewVar(f, v.name, v.kind), fs, s.vars)
      list == ExpList(vars, s.exps)
      tbc == { i \in 1..nvars : s.vars[i].kind = "RDKTOCLOSE" }
      ctc == nvars = nexps /\ s.vars[nvars].kind = "RDKCONST" /\ IsConst(list.e)
      const == [list.fs EXCEPT !.actvar[Len(list.fs.actvar)] =
                                 [@ EXCEPT !.kind = "RDKCTC", !.val = list.e.v]]
      new == IF ctc THEN [AdjustLocalVars(const, nvars - 1) EXCEPT !.nactvar = @ + 1]
             ELSE AdjustLocalVars(AdjustAssign(list.fs, nvars, nexps, list.e), nvars)
      level == RegLevel(new, fs.nactvar + Min(tbc) - 1)
      once == IF Cardinality(tbc) > 1 THEN Fail(new, "close") ELSE new
  IN  IF tbc = {} THEN new
      ELSE Code(MarkToBeClosed(once), ABC("TBC", level, 0, 0))

\* checkglobal: an error if the global being defined is not nil.
CheckGlobal(fs, name) ==
  LET g == BuildGlobal(fs, name)
      r == Exp2AnyReg(g.fs, g.e)
  IN  FreeExp(Code(r.fs, ABC("ERRNNIL", r.e.v, 0, 0)), r.e)
\* initglobal: the tables first, then the values, then the stores.
RECURSIVE InitGlobal(_, _, _, _)
InitGlobal(fs, names, exps, n) ==
  LET list == ExpList(fs, exps)
      var == BuildGlobal(fs, names[n].name)
      rest == InitGlobal(var.fs, names, exps, n + 1)
  IN  IF n > Len(names) THEN AdjustAssign(list.fs, Len(names), Len(exps), list.e)
      ELSE StoreVarTop(CheckGlobal(rest, names[n].name), var.e)
\* globalnames and globalstat; "*" stands for all names.
GlobalStat(fs, s) ==
  LET vars == FoldLeft(LAMBDA f, v : NewVar(f, v.name, v.kind), fs, s.vars)
      init == IF s.exps = <<>> THEN vars ELSE InitGlobal(vars, s.vars, s.exps, 1)
  IN  [init EXCEPT !.nactvar = @ + Len(s.vars)]
GlobalFunc(fs, s) ==
  LET new == NewVar(fs, s.name, "GDKREG")
      var == BuildGlobal([new EXCEPT !.nactvar = @ + 1], s.name)
      b == Body(var.fs, s.fn)
  IN  StoreVar(CheckGlobal(b.fs, s.name), var.e, b.e)

\* funcstat
FuncStat(fs, s) ==
  LET name == SuffixedExp(fs, s.var)
      var == CheckReadOnly(name.fs, name.e)
      b == Body(var.fs, s.fn)
  IN  StoreVar(b.fs, var.e, b.e)
\* exprstat, of a call
CallStat(fs, s) ==
  LET v == SuffixedExp(fs, s.exp) IN [v.fs EXCEPT !.code[v.e.v].c = 0]

RetStat(fs, s) ==
  LET first == NVarStack(fs)
      n == Len(s.exps)
      e == ExpList(fs, s.exps)
      open == SetReturns(e.fs, e.e, -1)
      istail == e.e.k = "VCALL" /\ n = 1 /\ ~fs.bl[Len(fs.bl)].tbc
      tail == Claim([open EXCEPT !.code[e.e.v].op = "TAILCALL"], open.code[e.e.v].a = first)
      one == Exp2AnyReg(e.fs, e.e)
      all == Exp2NextReg(e.fs, e.e).fs
  IN  IF n = 0 THEN Ret(fs, first, 0)
      ELSE IF HasMultRet(e.e) THEN Ret(IF istail THEN tail ELSE open, first, -1)
      ELSE IF n = 1 THEN Ret(one.fs, one.e.v, 1)
      ELSE Ret(Claim(all, n = all.freereg - first), first, n)

\* breakstat: the innermost loop has breaks pending.
BreakStat(fs) ==
  LET loops == { i \in DOMAIN fs.bl : fs.bl[i].loop }
  IN  IF loops = {} THEN Fail(fs, "break")
      ELSE NewGoto([fs EXCEPT !.bl[Max(loops)].breaks = TRUE], "break")
\* labelstat, with checkrepeated.
LabelStat(fs, s, last) ==
  LET repeated == \E i \in DOMAIN fs.labels : fs.labels[i].name = s.name
  IN  CreateLabel(IF repeated THEN Fail(fs, "repeated") ELSE fs, s.name, last)

Statement(fs, s) ==
  LET new ==
        CASE s.n = "if" -> IfStat(fs, s) [] s.n = "while" -> WhileStat(fs, s)
          [] s.n = "do" -> Block(fs, s.body) [] s.n = "repeat" -> RepeatStat(fs, s)
          [] s.n = "fornum" -> ForNum(fs, s) [] s.n = "forlist" -> ForList(fs, s)
          [] s.n = "function" -> FuncStat(fs, s) [] s.n = "localfunction" -> LocalFunc(fs, s)
          [] s.n = "local" -> LocalStat(fs, s) [] s.n = "global" -> GlobalStat(fs, s)
          [] s.n = "globalfunction" -> GlobalFunc(fs, s)
          [] s.n = "return" -> RetStat(fs, s) [] s.n = "break" -> BreakStat(fs)
          [] s.n = "goto" -> NewGoto(fs, s.name)
          [] s.n = "assign" -> Assign(fs, s.vars, s.exps) [] OTHER -> CallStat(fs, s)
      level == NVarStack(new)
  IN  [Claim(new, new.maxstack >= new.freereg /\ new.freereg >= level)
         EXCEPT !.freereg = level]
\* statlist: labels that follow one another are created from the last one; the
\* variables of a block are out of scope for a label at its end, which that of
\* the body of a repeat is not.
StatList(fs, stats, until) ==
  LET others == { i \in DOMAIN stats : stats[i].n # "label" }
      n == IF others = {} THEN Len(stats) ELSE Min(others) - 1
      last == n = Len(stats) /\ ~until
      labelled == FoldRight(LAMBDA s, f : LabelStat(f, s, last), SubSeq(stats, 1, n), fs)
  IN  IF stats = <<>> \/ fs.err # "" THEN fs
      ELSE IF n > 0 THEN StatList(labelled, SubSeq(stats, n + 1, Len(stats)), until)
      ELSE StatList(Statement(fs, Head(stats)), Tail(stats), until)

\* mainfunc: a vararg function with the upvalue _ENV.
MainFunc(stats) ==
  LET fs == [SetVararg(OpenFunc(<<>>)) EXCEPT !.ups =
               <<[name |-> "_ENV", instack |-> TRUE, idx |-> 0, kind |-> "VDKREG"]>>]
      closed == CloseFunc(StatList(fs, stats, FALSE))
      finished == closed.actvar = <<>> /\ closed.labels = <<>> /\ closed.bl = <<>>
  IN  [proto |-> Proto(closed), err |-> closed.err,
       asserts |-> closed.err # "" \/ (closed.asserts /\ finished /\ closed.gotos = <<>>)]
=============================================================================
