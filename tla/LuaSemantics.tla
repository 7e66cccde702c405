------------------------------ MODULE LuaSemantics -----------------------------
(***************************************************************************)
(* What a chunk means, as the reference manual tells it: the tree is walked *)
(* with an environment of names, every local variable is a cell of its own  *)
(* each time its declaration runs, blocks end with a signal, and a binary   *)
(* expression is split at its loosest operator.  There are no registers,    *)
(* jumps, upvalues or constants here; the world and the operations on       *)
(* values are those of LuaValues.                                           *)
(***************************************************************************)
EXTENDS LuaValues, SequencesExt

(* A state s is a world with the cells and the functions made so far.  A    *)
(* context c has the environment, a row of bindings whose last is the       *)
(* innermost, the extra arguments va, and the vararg table vt or <<>>.      *)

Bind(c, name, what, at) == [c EXCEPT !.env = Append(@, [name |-> name, what |-> what, at |-> at])]
NewCell(s, v) == [s EXCEPT !.cells = Append(@, v)]
Fresh(s) == Len(s.cells) + 1
Cut(vals, n) == [i \in 1..n |-> IF i <= Len(vals) THEN vals[i] ELSE Nil]
First(a) == Ans(a.w, Cut(a.v, 1)[1])

RECURSIVE DeclareAll(_, _, _, _)
\* Cells for the variables, with their values; the state and the context.
DeclareAll(s, c, names, vals) ==
  IF names = <<>> THEN [w |-> s, c |-> c]
  ELSE DeclareAll(NewCell(s, Head(vals)), Bind(c, Head(names), "cell", Fresh(s)),
               Tail(names), Tail(vals))

Binding(c, name) ==
  LET at == { i \in DOMAIN c.env : c.env[i].name = name }
  IN  IF at = {} THEN [what |-> "global"]
      ELSE c.env[CHOOSE i \in at : \A j \in at : j <= i]

\* How tight an operator binds, and whether it groups to the right.
Precedence(op) == CASE op = "OR" -> 1 [] op = "AND" -> 2
               [] op \in {"LT", "LE", "GT", "GE", "EQ", "NE"} -> 3 [] op = "BAND" -> 4
               [] op \in {"SHL", "SHR"} -> 5 [] op = "CONCAT" -> 6
               [] op \in {"ADD", "SUB"} -> 7 [] OTHER -> 8
\* The operators of a row of tokens that have an operand before them.
Binary(toks) == { i \in 2..Len(toks) : toks[i].n = "op" /\ toks[i - 1].n # "op" }
\* The one applied last.
Split(toks) ==
  LET loosest == { i \in Binary(toks) : \A j \in Binary(toks) :
                     Precedence(toks[i].o) <= Precedence(toks[j].o) }
  IN  IF \E i \in loosest : toks[i].o = "CONCAT"
      THEN CHOOSE i \in loosest : \A j \in loosest : i <= j
      ELSE CHOOSE i \in loosest : \A j \in loosest : j <= i
Row(toks) == [n |-> "chain", toks |-> toks]

RECURSIVE Ev(_, _, _), EvAll(_, _, _), EvList(_, _, _), Fill(_, _, _, _, _),
  CallFn(_, _, _), Exec(_, _, _), Run(_, _), While(_, _, _), Repeat(_, _, _),
  Count(_, _, _, _), Iterate(_, _, _, _), Choose(_, _, _), Places(_, _, _)

RunBlock(s, c, stats) ==
  LET r == Run([w |-> s, c |-> c, sig |-> "none", v |-> <<>>, close |-> <<>>, i |-> 1,
                marks |-> <<>>], stats)
  IN  FoldRight(LAMBDA v, x : [x EXCEPT !.w = Event(@, "CLOSE", <<v>>)], r.close, r)

Operate(s, c, op, l, r) ==
  LET a == Ev(s, c, l)
      b == Ev(a.w, c, r)
      order(o, x, y) == LET t == DoOrder(b.w, o, x, y) IN Ans(t.w, Bool(t.v))
      eq == DoEqual(b.w, a.v, b.v)
  IN  CASE op = "AND" -> IF Falsy(a.v) THEN a ELSE b
        [] op = "OR" -> IF Falsy(a.v) THEN b ELSE a
        [] op = "CONCAT" -> DoConcat(b.w, a.v, b.v)
        [] op = "EQ" -> Ans(eq.w, Bool(eq.v))
        [] op = "NE" -> Ans(eq.w, Bool(~eq.v))
        [] op \in {"LT", "LE"} -> order(op, a.v, b.v)
        [] op = "GT" -> order("LT", b.v, a.v)
        [] op = "GE" -> order("LE", b.v, a.v)
        [] OTHER -> DoArith(b.w, op, a.v, b.v)
Apply(a, op) ==
  CASE op = "NOT" -> Ans(a.w, Bool(Falsy(a.v)))
    [] op = "LEN" -> DoLen(a.w, a.v)
    [] OTHER -> DoArith(a.w, "UNM", a.v, a.v)

EnvOf(s, c) ==
  LET b == Binding(c, "_ENV") IN IF b.what = "cell" THEN s.cells[b.at] ELSE b.at
Variable(s, c, name) ==
  LET b == Binding(c, name)
  IN  IF b.what = "global" THEN DoIndex(s, EnvOf(s, c), Str(<<name>>)) ELSE Ans(s, s.cells[b.at])
\* The extra arguments, in the vararg table when it has a name.
Dots(s, c) ==
  IF c.vt = <<>> THEN c.va
  ELSE LET t == s.tables[c.vt[2]]
       IN  [j \in 1..t[Str(<<"n">>)][2] |->
              IF Integer(j) \in DOMAIN t THEN t[Integer(j)] ELSE Nil]

\* The one value of an expression.
Ev(s, c, n) ==
  LET t == Ev(s, c, n.exp)
      k == Ev(t.w, c, n.key)
      at == Split(n.toks)
  IN  CASE n.n = "const" -> Ans(s, n.val)
        [] n.n = "name" -> Variable(s, c, n.name)
        [] n.n = "paren" -> t
        [] n.n = "field" -> DoIndex(t.w, t.v, Str(<<n.name>>))
        [] n.n = "index" -> DoIndex(k.w, t.v, k.v)
        [] n.n = "fn" -> Ans([s EXCEPT !.fns = Append(@, [fn |-> n, c |-> c])],
                             <<"fn", Len(s.fns) + 1>>)
        [] n.n = "table" -> LET new == NewTable(s) IN Fill(new.w, c, new.v, n.items, 1)
        [] n.n = "chain" /\ Len(n.toks) = 1 -> Ev(s, c, n.toks[1])
        [] n.n = "chain" /\ Binary(n.toks) = {} ->
             Apply(Ev(s, c, Row(Tail(n.toks))), Head(n.toks).o)
        [] n.n = "chain" ->
             Operate(s, c, n.toks[at].o, Row(SubSeq(n.toks, 1, at - 1)),
                     Row(SubSeq(n.toks, at + 1, Len(n.toks))))
        [] OTHER -> First(EvAll(s, c, n))
\* All the values of an expression.
EvAll(s, c, n) ==
  LET one == Ev(s, c, n)
      f == Ev(s, c, n.exp)
      args == EvList(f.w, c, n.args)
      m == DoIndex(f.w, f.v, Str(<<n.name>>))
      margs == EvList(m.w, c, n.args)
  IN  CASE n.n = "dots" -> Ans(s, Dots(s, c))
        [] n.n = "call" -> CallFn(args.w, f.v, args.v)
        [] n.n = "method" -> CallFn(margs.w, m.v, <<f.v>> \o margs.v)
        [] OTHER -> Ans(one.w, <<one.v>>)
EvList(s, c, list) ==
  LET one == Ev(s, c, Head(list))
      rest == EvList(one.w, c, Tail(list))
  IN  IF list = <<>> THEN Ans(s, <<>>)
      ELSE IF Len(list) = 1 THEN EvAll(s, c, Head(list))
      ELSE Ans(rest.w, <<one.v>> \o rest.v)
\* The items of a constructor; i is the index of the next one without a key.
Fill(s, c, t, items, i) ==
  LET item == Head(items)
      k == Ev(s, c, item.key)
      v == Ev(k.w, c, item.exp)
      last == EvAll(s, c, item.exp)
      one == Ev(s, c, item.exp)
      put(w, j) == DoSetIndex(w, t, Integer(i + j - 1), last.v[j])
  IN  IF items = <<>> THEN Ans(s, t)
      ELSE IF item.n = "pair" THEN Fill(DoSetIndex(v.w, t, k.v, v.v), c, t, Tail(items), i)
      ELSE IF Len(items) = 1
      THEN Ans(FoldLeft(put, last.w, [j \in 1..Len(last.v) |-> j]), t)
      ELSE Fill(DoSetIndex(one.w, t, Integer(i), one.v), c, t, Tail(items), i + 1)

CallFn(s, f, args) ==
  LET fn == s.fns[f[2]].fn
      c == s.fns[f[2]].c
      extra == SubSeq(args, Len(fn.params) + 1, Len(args))
      in == DeclareAll(s, [c EXCEPT !.va = extra, !.vt = <<>>], fn.params,
                    Cut(args, Len(fn.params)))
      t == NewTable(in.w)
      n == Str(<<"n">>)
      filled == FoldLeft(LAMBDA w, j : DoSetIndex(w, t.v, Integer(j), extra[j]),
                         DoSetIndex(t.w, t.v, n, Integer(Len(extra))),
                         [j \in 1..Len(extra) |-> j])
      named == DeclareAll(filled, [in.c EXCEPT !.vt = t.v], <<fn.dots>>, <<t.v>>)
      ready == IF fn.dots \in {"", "..."} THEN in ELSE named
      r == RunBlock(ready.w, ready.c, fn.body)
  IN  IF f[1] = "fn" THEN Ans(r.w, r.v) ELSE AskCall(s, f, args)

(* A statement gives the state, the context of the next one, a signal       *)
(* (none, break, return with values, or goto with a label), and the values  *)
(* to be closed at the end of its block.                                    *)
Sig(s, c, sig, v) == [w |-> s, c |-> c, sig |-> sig, v |-> v, close |-> <<>>]
Done(s, c) == Sig(s, c, "none", <<>>)
\* A statement with a block of its own: the context is the one before it.
Leave(r, c) == Sig(r.w, c, r.sig, r.v)
AfterLoop(r, c) == IF r.sig = "break" THEN Done(r.w, c) ELSE Leave(r, c)

\* The statements of a block from r.i.
Run(r, stats) ==
  LET st == stats[r.i]
      e == Exec(r.w, r.c, st)
      here == IF st.n = "label" THEN (r.i :> [c |-> r.c, n |-> Len(r.close)]) @@ r.marks
              ELSE r.marks
      next == [r EXCEPT !.w = e.w, !.c = e.c, !.sig = e.sig, !.v = e.v,
                        !.close = @ \o e.close, !.i = @ + 1, !.marks = here]
      labels == { i \in DOMAIN stats : stats[i].n = "label" /\ stats[i].name = e.v }
      to == CHOOSE i \in labels : TRUE
      skipped == [i \in (r.i + 1)..(to - 1) |-> [c |-> r.c, n |-> Len(r.close)]]
      old == r.marks[to]
      undone == SubSeq(r.close, old.n + 1, Len(r.close))
      again == [next EXCEPT !.c = old.c, !.i = to, !.sig = "none", !.v = <<>>,
                            !.close = SubSeq(@, 1, old.n),
                            !.w = FoldRight(LAMBDA v, w : Event(w, "CLOSE", <<v>>), undone, @)]
  IN  IF r.i > Len(stats) THEN r
      ELSE IF e.sig = "none" THEN Run(next, stats)
      ELSE IF e.sig # "goto" \/ labels = {} THEN next
      ELSE IF to < r.i THEN Run(again, stats)
      ELSE Run([next EXCEPT !.i = to, !.sig = "none", !.v = <<>>, !.c = r.c,
                            !.marks = skipped @@ @], stats)

While(s, c, st) ==
  LET cond == Ev(s, c, st.cond)
      r == RunBlock(cond.w, c, st.body)
  IN  IF Falsy(cond.v) THEN Done(cond.w, c)
      ELSE IF r.sig = "none" THEN While(r.w, c, st) ELSE AfterLoop(r, c)
\* The condition is in the scope of the body.
Repeat(s, c, st) ==
  LET r == Run([w |-> s, c |-> c, sig |-> "none", v |-> <<>>, close |-> <<>>, i |-> 1,
                marks |-> <<>>], st.body)
      cond == Ev(r.w, r.c, st.cond)
      closed(w) == FoldRight(LAMBDA v, x : Event(x, "CLOSE", <<v>>), r.close, w)
  IN  IF r.sig # "none" THEN AfterLoop([r EXCEPT !.w = closed(r.w)], c)
      ELSE IF Falsy(cond.v) THEN Repeat(closed(cond.w), c, st)
      ELSE Done(closed(cond.w), c)
\* The values of a numeric for are init, init + step, ... up to the limit.
Count(s, c, st, vals) ==
  LET v == vals[1][2]
      limit == vals[2][2]
      step == vals[3][2]
      int == IsInt(vals[1]) /\ IsInt(vals[3])
      d == DeclareAll(s, c, <<st.var>>, <<IF int THEN Integer(v) ELSE Flt(v)>>)
      r == RunBlock(d.w, d.c, st.body)
      over == \/ IF step > 0 THEN v > limit ELSE v < limit
              \/ int /\ v \notin MININT..MAXINT
      next == <<<<vals[1][1], v + step>>, vals[2], vals[3]>>
  IN  IF over THEN Done(s, c)
      ELSE IF r.sig = "none" THEN Count(r.w, c, st, next) ELSE AfterLoop(r, c)
\* state is the iterator, its state, the control and the closing value.
Iterate(s, c, st, state) ==
  LET a == CallFn(s, state[1], <<state[2], state[3]>>)
      vals == Cut(a.v, Len(st.vars))
      d == DeclareAll(a.w, c, st.vars, vals)
      r == RunBlock(d.w, d.c, st.body)
      end(x) == IF Falsy(state[4]) THEN x
                ELSE [x EXCEPT !.w = Event(@, "CLOSE", <<state[4]>>)]
  IN  IF vals[1] = Nil THEN end(Done(a.w, c))
      ELSE IF r.sig = "none" THEN Iterate(r.w, c, st, [state EXCEPT ![3] = vals[1]])
      ELSE end(AfterLoop(r, c))
\* The clauses of an if.
Choose(s, c, st) ==
  LET cond == Ev(s, c, Head(st.clauses).cond)
  IN  IF st.clauses = <<>>
      THEN IF st.else = <<>> THEN Done(s, c) ELSE Leave(RunBlock(s, c, st.else[1]), c)
      ELSE IF Falsy(cond.v) THEN Choose(cond.w, c, [st EXCEPT !.clauses = Tail(@)])
      ELSE Leave(RunBlock(cond.w, c, Head(st.clauses).body), c)

(* An assignment: the tables and keys of its variables are evaluated first, *)
(* then the values; the last variable is assigned first.                    *)
Place(s, c, var) ==
  LET t == Ev(s, c, var.exp)
      k == Ev(t.w, c, var.key)
      b == Binding(c, var.name)
  IN  CASE var.n = "index" -> Ans(k.w, <<t.v, k.v>>)
        [] var.n = "field" -> Ans(t.w, <<t.v, Str(<<var.name>>)>>)
        [] b.what = "global" -> Ans(s, <<EnvOf(s, c), Str(<<var.name>>)>>)
        [] OTHER -> Ans(s, <<b.at>>)
Places(s, c, vars) ==
  LET p == Place(s, c, Head(vars))
      rest == Places(p.w, c, Tail(vars))
  IN  IF vars = <<>> THEN Ans(s, <<>>) ELSE Ans(rest.w, <<p.v>> \o rest.v)
Put(s, place, v) ==
  IF Len(place) = 1 THEN [s EXCEPT !.cells[place[1]] = v]
  ELSE DoSetIndex(s, place[1], place[2], v)
Assigned(s, c, vars, exps) ==
  LET places == Places(s, c, vars)
      vals == EvList(places.w, c, exps)
  IN  FoldRight(LAMBDA i, w : Put(w, places.v[i], Cut(vals.v, Len(vars))[i]),
                [i \in 1..Len(vars) |-> i], vals.w)

RECURSIVE Globals(_, _, _)
\* Global variables being defined must be nil, the last one first.
Globals(s, c, i) ==
  LET var == Variable(s, c.c, c.vars[i].name)
      checked == IF var.v = Nil THEN var.w ELSE Event(var.w, "DEFINED", <<var.v>>)
  IN  IF i = 0 THEN s
      ELSE Globals(Put(checked, c.places[i], Cut(c.vals, Len(c.vars))[i]), c, i - 1)

Name(name) == [n |-> "name", name |-> name]
Exec(s, c, st) ==
  LET args == EvList(s, c, st.exps)
      vals == Cut(args.v, Len(st.vars))
      d == DeclareAll(args.w, c, [i \in DOMAIN st.vars |-> st.vars[i].name], vals)
      tbc == SelectSeq([i \in DOMAIN vals |-> i],
                       LAMBDA i : st.vars[i].kind = "RDKTOCLOSE" /\ ~Falsy(vals[i]))
      limits == EvList(s, c, <<st.init, st.limit>> \o st.step)
      iter == Cut(args.v, 4)
      own == DeclareAll(s, c, <<st.name>>, <<Nil>>)
      fn == Ev(own.w, own.c, st.fn)
      global == [c EXCEPT !.env = @ \o [i \in DOMAIN st.vars |->
                                          [name |-> st.vars[i].name, what |-> "global"]]]
      places == Places(s, c, [i \in DOMAIN st.vars |->
                                  [n |-> "field", exp |-> Name("_ENV"), name |-> st.vars[i].name]])
      init == EvList(places.w, c, st.exps)
      gf == Bind(c, st.name, "global", 0)
      gv == Ev(s, gf, st.fn)
  IN  CASE st.n = "local" ->
             [Done(d.w, d.c) EXCEPT !.close = [j \in DOMAIN tbc |-> vals[tbc[j]]]]
        [] st.n = "localfunction" -> Done(Put(fn.w, <<Fresh(s)>>, fn.v), own.c)
        [] st.n = "function" -> Done(Assigned(s, c, <<st.var>>, <<st.fn>>), c)
        [] st.n = "global" ->
             Done(IF st.exps = <<>> THEN s
                  ELSE Globals(init.w, [c |-> global, vars |-> st.vars, places |-> places.v,
                                        vals |-> init.v], Len(st.vars)),
                  [global EXCEPT !.env = SelectSeq(@, LAMBDA b : b.name # "*")])
        [] st.n = "globalfunction" ->
             Done(Globals(gv.w, [c |-> gf, vars |-> <<[name |-> st.name]>>, vals |-> <<gv.v>>,
                                 places |-> <<<<EnvOf(s, c), Str(<<st.name>>)>>>>], 1), gf)
        [] st.n = "assign" -> Done(Assigned(s, c, st.vars, st.exps), c)
        [] st.n = "callst" -> Done(EvAll(s, c, st.exp).w, c)
        [] st.n = "return" -> Sig(args.w, c, "return", args.v)
        [] st.n = "break" -> Sig(s, c, "break", <<>>)
        [] st.n = "goto" -> Sig(s, c, "goto", st.name)
        [] st.n = "label" -> Done(s, c)
        [] st.n = "do" -> Leave(RunBlock(s, c, st.body), c)
        [] st.n = "while" -> While(s, c, st)
        [] st.n = "repeat" -> Repeat(s, c, st)
        [] st.n = "if" -> Choose(s, c, st)
        [] st.n = "fornum" ->
             Count(limits.w, c, st, IF st.step = <<>> THEN limits.v \o <<Integer(1)>> ELSE limits.v)
        [] st.n = "forlist" -> Iterate(args.w, c, st, iter)

\* What a chunk called with args does and returns.
Meaning(stats, args) ==
  LET r == RunBlock([log |-> <<>>, tables |-> <<>>, cells |-> <<Object("env")>>, fns |-> <<>>],
                 [env |-> <<[name |-> "_ENV", what |-> "cell", at |-> 1]>>, va |-> args,
                  vt |-> <<>>],
                 stats)
  IN  Observed(r.w, r.v)
=============================================================================
