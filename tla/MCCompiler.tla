------------------------------- MODULE MCCompiler ------------------------------
(***************************************************************************)
(* Chunks to compile and run.                                               *)
(***************************************************************************)
EXTENDS LuaCompiler, LuaParser, LuaSemantics

X(name) == [n |-> "name", name |-> name]
C(v) == [n |-> "const", val |-> v]
N(i) == C(Integer(i))
S(s) == C(Str(<<s>>))
Op(o) == [n |-> "op", o |-> o]
Chain(toks) == [n |-> "chain", toks |-> toks]
\* The tokens of an expression without parentheses.
Toks(e) == IF e.n = "chain" THEN e.toks ELSE <<e>>
Bin(o, l, r) == Chain(Toks(l) \o <<Op(o)>> \o Toks(r))
Un(o, e) == Chain(<<Op(o)>> \o Toks(e))
Paren(e) == [n |-> "paren", exp |-> e]
Dots3 == [n |-> "dots"]
CallE(f, as) == [n |-> "call", exp |-> f, args |-> as]
Method(o, name, as) == [n |-> "method", exp |-> o, name |-> name, args |-> as]
Dot(t, name) == [n |-> "field", exp |-> t, name |-> name]
Ix(t, k) == [n |-> "index", exp |-> t, key |-> k]
Fn(params, dots, body) == [n |-> "fn", params |-> params, dots |-> dots, body |-> body]
Item(e) == [n |-> "item", exp |-> e]
Pair(k, e) == [n |-> "pair", key |-> k, exp |-> e]
Table(items) == [n |-> "table", items |-> items]

V(name) == [name |-> name, kind |-> "VDKREG"]
VK(name) == [name |-> name, kind |-> "RDKCONST"]
VC(name) == [name |-> name, kind |-> "RDKTOCLOSE"]
Local(vs, es) == [n |-> "local", vars |-> vs, exps |-> es]
Set(vs, es) == [n |-> "assign", vars |-> vs, exps |-> es]
Do(b) == [n |-> "do", body |-> b]
While_(c, b) == [n |-> "while", cond |-> c, body |-> b]
Repeat_(b, c) == [n |-> "repeat", body |-> b, cond |-> c]
If(c, b) == [n |-> "if", clauses |-> <<[cond |-> c, body |-> b]>>, else |-> <<>>]
IfS(cs, els) ==
  [n |-> "if", clauses |-> [i \in DOMAIN cs |-> [cond |-> cs[i][1], body |-> cs[i][2]]],
   else |-> els]
IfElse(c, b, e) == [n |-> "if", clauses |-> <<[cond |-> c, body |-> b]>>, else |-> <<e>>]
ForN(v, i, l, st, b) ==
  [n |-> "fornum", var |-> v, init |-> i, limit |-> l, step |-> st, body |-> b]
ForIn(vs, es, b) == [n |-> "forlist", vars |-> vs, exps |-> es, body |-> b]
LocalFn(name, f) == [n |-> "localfunction", name |-> name, fn |-> f]
FnStat(var, f) == [n |-> "function", var |-> var, fn |-> f]
Ret_(es) == [n |-> "return", exps |-> es]
BreakS == [n |-> "break"]
GotoS(l) == [n |-> "goto", name |-> l]
LabelS(l) == [n |-> "label", name |-> l]
CallS(e) == [n |-> "callst", exp |-> e]
GlobalS(vs, es) == [n |-> "global", vars |-> vs, exps |-> es]
GlobalFn(name, f) == [n |-> "globalfunction", name |-> name, fn |-> f]
GK(name) == [name |-> name, kind |-> "GDKCONST"]
G(name) == [name |-> name, kind |-> "GDKREG"]

Ok(body) == [body |-> body, err |-> ""]
Bad(body, err) == [body |-> body, err |-> err]

A == X("a")
B == X("b")
AB == Local(<<V("a"), V("b")>>, <<Dots3>>)
F(as) == CallE(X("f"), as)

\* Expressions by depth, each in several places.
Leaves == <<A, N(1), C(True), C(Nil), F(<<>>)>>
Logic == <<"AND", "OR">>
Row2(ops, ls, rs) ==
  FlattenSeq([o \in DOMAIN ops |-> FlattenSeq([i \in DOMAIN ls |->
    [j \in DOMAIN rs |-> Bin(ops[o], ls[i], rs[j])]])])
Conds == <<Bin("LT", A, N(2)), Bin("EQ", A, B), Un("NOT", A)>>
Bools == Row2(Logic, Leaves \o Conds, Leaves \o Conds)
Deep == Row2(<<"AND">>, SubSeq(Bools, 60, 75), <<B, N(2), Bin("NE", A, B)>>)
        \o Row2(<<"OR">>, SubSeq(Bools, 1, 20), <<B, C(False), Bin("GE", A, B)>>)
Nots == [i \in 1..Len(Bools) |-> Un("NOT", Paren(Bools[i]))]
Ariths == Row2(<<"ADD", "SUB", "MUL", "IDIV", "BAND", "SHL", "SHR", "LT", "LE", "GT", "GE",
                 "EQ", "NE", "CONCAT">>,
               <<A, N(3), N(9), C(Flt(2))>>, <<B, N(2), N(-3), N(20)>>)

InReturn(e) == Ok(<<AB, Ret_(<<e>>)>>)
InLocal(e) == Ok(<<AB, Local(<<V("x"), V("y")>>, <<e>>), Ret_(<<X("x"), A, X("y")>>)>>)
InIf(e) == Ok(<<AB, IfElse(e, <<CallS(F(<<N(1)>>))>>, <<CallS(F(<<N(2)>>))>>), Ret_(<<A>>)>>)
InCall(e) == Ok(<<AB, CallS(F(<<e, B, e>>)), Ret_(<<>>)>>)
InAssign(e) == Ok(<<AB, Set(<<A, B>>, <<e, A>>), Ret_(<<A, B>>)>>)
Each(places(_), es) == [i \in DOMAIN es |-> places(es[i])]

(*--- chunks, each under its source -------------------------------------*)

MCStatements == <<
  \* local i, t = 1, ... i, t[i] = i + 1, 20 return i, t
  Ok(<<Local(<<V("i"), V("t")>>, <<N(1), Dots3>>), Set(<<X("i"), Ix(X("t"), X("i"))>>,
     <<Bin("ADD", X("i"), N(1)), N(20)>>), Ret_(<<X("i"), X("t")>>)>>),
  \* local a = ... a, a.x = 1, 2 return a
  Ok(<<Local(<<V("a")>>, <<Dots3>>), Set(<<X("a"), Dot(X("a"), "x")>>, <<N(1), N(2)>>),
     Ret_(<<X("a")>>)>>),
  \* local a = ... a.x, a, a[1] = 1, 2, 3 return a
  Ok(<<Local(<<V("a")>>, <<Dots3>>), Set(<<Dot(X("a"), "x"), X("a"), Ix(X("a"), N(1))>>,
     <<N(1), N(2), N(3)>>), Ret_(<<X("a")>>)>>),
  \* local a, b = ... local function g() a, a.x, a[b] = 1, 2, 3 return a end return g(), a
  Ok(<<Local(<<V("a"), V("b")>>, <<Dots3>>), LocalFn("g", Fn(<<>>, "", <<Set(<<X("a"),
     Dot(X("a"), "x"), Ix(X("a"), X("b"))>>, <<N(1), N(2), N(3)>>), Ret_(<<X("a")>>)>>)),
     Ret_(<<CallE(X("g"), <<>>), X("a")>>)>>),
  \* local a, b = ... a, b = b, a return a, b
  Ok(<<Local(<<V("a"), V("b")>>, <<Dots3>>), Set(<<X("a"), X("b")>>, <<X("b"), X("a")>>),
     Ret_(<<X("a"), X("b")>>)>>),
  \* local a, b, c = ... a, b, c = f() return a, b, c
  Ok(<<Local(<<V("a"), V("b"), V("c")>>, <<Dots3>>), Set(<<X("a"), X("b"), X("c")>>,
     <<CallE(X("f"), <<>>)>>), Ret_(<<X("a"), X("b"), X("c")>>)>>),
  \* local a, b = ... a, b = f(), 3, g() return a, b
  Ok(<<Local(<<V("a"), V("b")>>, <<Dots3>>), Set(<<X("a"), X("b")>>, <<CallE(X("f"), <<>>),
     N(3), CallE(X("g"), <<>>)>>), Ret_(<<X("a"), X("b")>>)>>),
  \* local a, b a.x, b.y, c = 1 return a
  Ok(<<Local(<<V("a"), V("b")>>, <<>>), Set(<<Dot(X("a"), "x"), Dot(X("b"), "y"), X("c")>>,
     <<N(1)>>), Ret_(<<X("a")>>)>>),
  \* local a, b = ... a[b], b, a = b, a, f() return a, b
  Ok(<<Local(<<V("a"), V("b")>>, <<Dots3>>), Set(<<Ix(X("a"), X("b")), X("b"), X("a")>>,
     <<X("b"), X("a"), CallE(X("f"), <<>>)>>), Ret_(<<X("a"), X("b")>>)>>),
  \* local a, b = ... return {a, b, 1, 2, 3}
  Ok(<<Local(<<V("a"), V("b")>>, <<Dots3>>), Ret_(<<Table(<<Item(X("a")), Item(X("b")),
     Item(N(1)), Item(N(2)), Item(N(3))>>)>>)>>),
  \* local a, b = ... local t = {a, b, ...} return t
  Ok(<<Local(<<V("a"), V("b")>>, <<Dots3>>), Local(<<V("t")>>, <<Table(<<Item(X("a")),
     Item(X("b")), Item(Dots3)>>)>>), Ret_(<<X("t")>>)>>),
  \* local t = {1, 2, f()} return t, #t
  Ok(<<Local(<<V("t")>>, <<Table(<<Item(N(1)), Item(N(2)), Item(CallE(X("f"), <<>>))>>)>>),
     Ret_(<<X("t"), Un("LEN", X("t"))>>)>>),
  \* local t = {1, (f())} return t
  Ok(<<Local(<<V("t")>>, <<Table(<<Item(N(1)), Item(Paren(CallE(X("f"), <<>>)))>>)>>),
     Ret_(<<X("t")>>)>>),
  \* local a = ... local t = {x = a, 1, [2] = a, y = {a, {3}}} return t
  Ok(<<Local(<<V("a")>>, <<Dots3>>), Local(<<V("t")>>, <<Table(<<Pair(S("x"), X("a")),
     Item(N(1)), Pair(N(2), X("a")), Pair(S("y"), Table(<<Item(X("a")),
     Item(Table(<<Item(N(3))>>))>>))>>)>>), Ret_(<<X("t")>>)>>),
  \* return {...}, {f(), f()}
  Ok(<<Ret_(<<Table(<<Item(Dots3)>>), Table(<<Item(CallE(X("f"), <<>>)), Item(CallE(X("f"),
     <<>>))>>)>>)>>),
  \* local t = {f = function(a) return a end} return t.f(4), t["f"](5)
  Ok(<<Local(<<V("t")>>, <<Table(<<Pair(S("f"), Fn(<<"a">>, "", <<Ret_(<<X("a")>>)>>))>>)>>),
     Ret_(<<CallE(Dot(X("t"), "f"), <<N(4)>>), CallE(Ix(X("t"), S("f")), <<N(5)>>)>>)>>),
  \* local t = {} t[1] = 2 t.x, t[2.0] = 3, 4 return t, t[2], t.y
  Ok(<<Local(<<V("t")>>, <<Table(<<>>)>>), Set(<<Ix(X("t"), N(1))>>, <<N(2)>>),
     Set(<<Dot(X("t"), "x"), Ix(X("t"), C(Flt(2)))>>, <<N(3), N(4)>>), Ret_(<<X("t"),
     Ix(X("t"), N(2)), Dot(X("t"), "y")>>)>>),
  \* local a = 1 while a < 4 do f(a) a = a + 1 end return a
  Ok(<<Local(<<V("a")>>, <<N(1)>>), While_(Bin("LT", X("a"), N(4)), <<CallS(CallE(X("f"),
     <<X("a")>>)), Set(<<X("a")>>, <<Bin("ADD", X("a"), N(1))>>)>>), Ret_(<<X("a")>>)>>),
  \* local a, b = ... while a do if b then break end b = f() a = g(b) end return a, b
  Ok(<<Local(<<V("a"), V("b")>>, <<Dots3>>), While_(X("a"), <<If(X("b"), <<BreakS>>),
     Set(<<X("b")>>, <<CallE(X("f"), <<>>)>>), Set(<<X("a")>>, <<CallE(X("g"),
     <<X("b")>>)>>)>>), Ret_(<<X("a"), X("b")>>)>>),
  \* local a = 3 repeat local x = a * 2 a = a - 1 until x < 4 return a
  Ok(<<Local(<<V("a")>>, <<N(3)>>), Repeat_(<<Local(<<V("x")>>, <<Bin("MUL", X("a"), N(2))>>),
     Set(<<X("a")>>, <<Bin("SUB", X("a"), N(1))>>)>>, Bin("LT", X("x"), N(4))),
     Ret_(<<X("a")>>)>>),
  \* local t = {} local i = 1 while i < 4 do local j = i t[i] = function() j = j + 1 return j end i = i + 1 end return t[1](), t[2](), t[1]()
  Ok(<<Local(<<V("t")>>, <<Table(<<>>)>>), Local(<<V("i")>>, <<N(1)>>), While_(Bin("LT", X("i"),
     N(4)), <<Local(<<V("j")>>, <<X("i")>>), Set(<<Ix(X("t"), X("i"))>>, <<Fn(<<>>, "",
     <<Set(<<X("j")>>, <<Bin("ADD", X("j"), N(1))>>), Ret_(<<X("j")>>)>>)>>), Set(<<X("i")>>,
     <<Bin("ADD", X("i"), N(1))>>)>>), Ret_(<<CallE(Ix(X("t"), N(1)), <<>>), CallE(Ix(X("t"),
     N(2)), <<>>), CallE(Ix(X("t"), N(1)), <<>>)>>)>>),
  \* local t = {} local i = 0 repeat local j = i t[i] = function() return j end i = i + 1 until j == 2 return t[0](), t[2]()
  Ok(<<Local(<<V("t")>>, <<Table(<<>>)>>), Local(<<V("i")>>, <<N(0)>>),
     Repeat_(<<Local(<<V("j")>>, <<X("i")>>), Set(<<Ix(X("t"), X("i"))>>, <<Fn(<<>>, "",
     <<Ret_(<<X("j")>>)>>)>>), Set(<<X("i")>>, <<Bin("ADD", X("i"), N(1))>>)>>, Bin("EQ",
     X("j"), N(2))), Ret_(<<CallE(Ix(X("t"), N(0)), <<>>), CallE(Ix(X("t"), N(2)), <<>>)>>)>>),
  \* local t, i = {}, 0 repeat local j = i t[i] = function() return j end i = i + 1 if j == 1 then break end until j == 2 return t[0](), t[1]()
  Ok(<<Local(<<V("t"), V("i")>>, <<Table(<<>>), N(0)>>), Repeat_(<<Local(<<V("j")>>,
     <<X("i")>>), Set(<<Ix(X("t"), X("i"))>>, <<Fn(<<>>, "", <<Ret_(<<X("j")>>)>>)>>),
     Set(<<X("i")>>, <<Bin("ADD", X("i"), N(1))>>), If(Bin("EQ", X("j"), N(1)), <<BreakS>>)>>,
     Bin("EQ", X("j"), N(2))), Ret_(<<CallE(Ix(X("t"), N(0)), <<>>), CallE(Ix(X("t"), N(1)),
     <<>>)>>)>>),
  \* local i = 0 ::top:: i = i + 1 if i < 3 then f(i) goto top end return i
  Ok(<<Local(<<V("i")>>, <<N(0)>>), LabelS("top"), Set(<<X("i")>>, <<Bin("ADD", X("i"),
     N(1))>>), If(Bin("LT", X("i"), N(3)), <<CallS(CallE(X("f"), <<X("i")>>)), GotoS("top")>>),
     Ret_(<<X("i")>>)>>),
  \* local t, i = {}, 1 ::top:: local j = i t[i] = function() return j end i = i + 1 if i < 4 then goto top end return t[1](), t[2](), t[3]()
  Ok(<<Local(<<V("t"), V("i")>>, <<Table(<<>>), N(1)>>), LabelS("top"), Local(<<V("j")>>,
     <<X("i")>>), Set(<<Ix(X("t"), X("i"))>>, <<Fn(<<>>, "", <<Ret_(<<X("j")>>)>>)>>),
     Set(<<X("i")>>, <<Bin("ADD", X("i"), N(1))>>), If(Bin("LT", X("i"), N(4)),
     <<GotoS("top")>>), Ret_(<<CallE(Ix(X("t"), N(1)), <<>>), CallE(Ix(X("t"), N(2)), <<>>),
     CallE(Ix(X("t"), N(3)), <<>>)>>)>>),
  \* local t, i = {}, 0 while i < 4 do local j = i i = i + 1 if j == 1 then goto next end t[j] = function() j = j + 1 return j end ::next:: end return t[0](), t[0](), t[2]()
  Ok(<<Local(<<V("t"), V("i")>>, <<Table(<<>>), N(0)>>), While_(Bin("LT", X("i"), N(4)),
     <<Local(<<V("j")>>, <<X("i")>>), Set(<<X("i")>>, <<Bin("ADD", X("i"), N(1))>>),
     If(Bin("EQ", X("j"), N(1)), <<GotoS("next")>>), Set(<<Ix(X("t"), X("j"))>>, <<Fn(<<>>, "",
     <<Set(<<X("j")>>, <<Bin("ADD", X("j"), N(1))>>), Ret_(<<X("j")>>)>>)>>), LabelS("next")>>),
     Ret_(<<CallE(Ix(X("t"), N(0)), <<>>), CallE(Ix(X("t"), N(0)), <<>>), CallE(Ix(X("t"),
     N(2)), <<>>)>>)>>),
  \* do local x = 1 local g = function() return x end if f() then goto out end x = g() + 2 f(x) end ::out:: return 2
  Ok(<<Do(<<Local(<<V("x")>>, <<N(1)>>), Local(<<V("g")>>, <<Fn(<<>>, "",
     <<Ret_(<<X("x")>>)>>)>>), If(CallE(X("f"), <<>>), <<GotoS("out")>>), Set(<<X("x")>>,
     <<Bin("ADD", CallE(X("g"), <<>>), N(2))>>), CallS(CallE(X("f"), <<X("x")>>))>>),
     LabelS("out"), Ret_(<<N(2)>>)>>),
  \* local a = ... do do local x = a local g = function() return x end goto out end f() ::out:: end return a
  Ok(<<Local(<<V("a")>>, <<Dots3>>), Do(<<Do(<<Local(<<V("x")>>, <<X("a")>>), Local(<<V("g")>>,
     <<Fn(<<>>, "", <<Ret_(<<X("x")>>)>>)>>), GotoS("out")>>), CallS(CallE(X("f"), <<>>)),
     LabelS("out")>>), Ret_(<<X("a")>>)>>),
  \* while true do local x = f() if x then do local y = x f(function() return y end) break end end end return 1
  Ok(<<While_(C(True), <<Local(<<V("x")>>, <<CallE(X("f"), <<>>)>>), If(X("x"),
     <<Do(<<Local(<<V("y")>>, <<X("x")>>), CallS(CallE(X("f"), <<Fn(<<>>, "",
     <<Ret_(<<X("y")>>)>>)>>)), BreakS>>)>>)>>), Ret_(<<N(1)>>)>>),
  \* local n = 0 for i = 30, 31 do n = n + 1 f(i) end return n
  Ok(<<Local(<<V("n")>>, <<N(0)>>), ForN("i", N(30), N(31), <<>>, <<Set(<<X("n")>>, <<Bin("ADD",
     X("n"), N(1))>>), CallS(CallE(X("f"), <<X("i")>>))>>), Ret_(<<X("n")>>)>>),
  \* for i = 31, 30 do f(i) end for i = 3, 1 do f(i) end return 1
  Ok(<<ForN("i", N(31), N(30), <<>>, <<CallS(CallE(X("f"), <<X("i")>>))>>), ForN("i", N(3),
     N(1), <<>>, <<CallS(CallE(X("f"), <<X("i")>>))>>), Ret_(<<N(1)>>)>>),
  \* local n = 0 for i = -31, -32, -1 do n = n + 1 end for i = 29, 40.0, 2 do n = n + i end return n
  Ok(<<Local(<<V("n")>>, <<N(0)>>), ForN("i", Un("SUB", N(31)), Un("SUB", N(32)), <<Un("SUB",
     N(1))>>, <<Set(<<X("n")>>, <<Bin("ADD", X("n"), N(1))>>)>>), ForN("i", N(29), C(Flt(40)),
     <<N(2)>>, <<Set(<<X("n")>>, <<Bin("ADD", X("n"), X("i"))>>)>>), Ret_(<<X("n")>>)>>),
  \* local n = 0 for i = 1.0, 3 do n = n + i end for i = 3, 1, -2.0 do f(i) end return n
  Ok(<<Local(<<V("n")>>, <<N(0)>>), ForN("i", C(Flt(1)), N(3), <<>>, <<Set(<<X("n")>>,
     <<Bin("ADD", X("n"), X("i"))>>)>>), ForN("i", N(3), N(1), <<Un("SUB", C(Flt(2)))>>,
     <<CallS(CallE(X("f"), <<X("i")>>))>>), Ret_(<<X("n")>>)>>),
  \* for i = 25, 31, 5 do f(i) end for i = -32, 31, 31 do f(i) end for i = 5, -30, -31 do f(i) end return 0
  Ok(<<ForN("i", N(25), N(31), <<N(5)>>, <<CallS(CallE(X("f"), <<X("i")>>))>>), ForN("i",
     Un("SUB", N(32)), N(31), <<N(31)>>, <<CallS(CallE(X("f"), <<X("i")>>))>>), ForN("i", N(5),
     Un("SUB", N(30)), <<Un("SUB", N(31))>>, <<CallS(CallE(X("f"), <<X("i")>>))>>),
     Ret_(<<N(0)>>)>>),
  \* for i = 1, 3 do if i == 2 then goto continue end f(i) ::continue:: end return 0
  Ok(<<ForN("i", N(1), N(3), <<>>, <<If(Bin("EQ", X("i"), N(2)), <<GotoS("continue")>>),
     CallS(CallE(X("f"), <<X("i")>>)), LabelS("continue")>>), Ret_(<<N(0)>>)>>),
  \* local t = {} for i = 1, 3 do t[i] = function() return i end end return t[1](), t[2](), t[3]()
  Ok(<<Local(<<V("t")>>, <<Table(<<>>)>>), ForN("i", N(1), N(3), <<>>, <<Set(<<Ix(X("t"),
     X("i"))>>, <<Fn(<<>>, "", <<Ret_(<<X("i")>>)>>)>>)>>), Ret_(<<CallE(Ix(X("t"), N(1)),
     <<>>), CallE(Ix(X("t"), N(2)), <<>>), CallE(Ix(X("t"), N(3)), <<>>)>>)>>),
  \* for i = 1, 3 do for j = i, 2 do f(i, j) if j == 2 then break end end end return 0
  Ok(<<ForN("i", N(1), N(3), <<>>, <<ForN("j", X("i"), N(2), <<>>, <<CallS(CallE(X("f"),
     <<X("i"), X("j")>>)), If(Bin("EQ", X("j"), N(2)), <<BreakS>>)>>)>>), Ret_(<<N(0)>>)>>),
  \* for i = -32, 31, 21 do if i > 0 then return i, ... end end return 0
  Ok(<<ForN("i", Un("SUB", N(32)), N(31), <<N(21)>>, <<If(Bin("GT", X("i"), N(0)),
     <<Ret_(<<X("i"), Dots3>>)>>)>>), Ret_(<<N(0)>>)>>),
  \* for k in f() do g(k) end return 0
  Ok(<<ForIn(<<"k">>, <<CallE(X("f"), <<>>)>>, <<CallS(CallE(X("g"), <<X("k")>>))>>),
     Ret_(<<N(0)>>)>>),
  \* local t = {} for k, v, w in f, 1 do t[1] = function() return k end if v then break end end return t[1]()
  Ok(<<Local(<<V("t")>>, <<Table(<<>>)>>), ForIn(<<"k", "v", "w">>, <<X("f"), N(1)>>,
     <<Set(<<Ix(X("t"), N(1))>>, <<Fn(<<>>, "", <<Ret_(<<X("k")>>)>>)>>), If(X("v"),
     <<BreakS>>)>>), Ret_(<<CallE(Ix(X("t"), N(1)), <<>>)>>)>>),
  \* for k, v in f, 1, 2, 3 do if g(v) == 1 then break end end return 0
  Ok(<<ForIn(<<"k", "v">>, <<X("f"), N(1), N(2), N(3)>>, <<If(Bin("EQ", CallE(X("g"),
     <<X("v")>>), N(1)), <<BreakS>>)>>), Ret_(<<N(0)>>)>>),
  \* local function iter(s, c) if c < s then return c + 1, s end end for i, s in iter, 3, 0 do f(i, s) end return 0
  Ok(<<LocalFn("iter", Fn(<<"s", "c">>, "", <<If(Bin("LT", X("c"), X("s")), <<Ret_(<<Bin("ADD",
     X("c"), N(1)), X("s")>>)>>)>>)), ForIn(<<"i", "s">>, <<X("iter"), N(3), N(0)>>,
     <<CallS(CallE(X("f"), <<X("i"), X("s")>>))>>), Ret_(<<N(0)>>)>>),
  \* local function iter(s, c) if c < s then return c + 1, s end end for i, s in iter, 3, 0, f do if i == 2 then return i, s end end return 0
  Ok(<<LocalFn("iter", Fn(<<"s", "c">>, "", <<If(Bin("LT", X("c"), X("s")), <<Ret_(<<Bin("ADD",
     X("c"), N(1)), X("s")>>)>>)>>)), ForIn(<<"i", "s">>, <<X("iter"), N(3), N(0), X("f")>>,
     <<If(Bin("EQ", X("i"), N(2)), <<Ret_(<<X("i"), X("s")>>)>>)>>), Ret_(<<N(0)>>)>>),
  \* local function g(x, ...) return ..., x end return g(...), g(1), g()
  Ok(<<LocalFn("g", Fn(<<"x">>, "...", <<Ret_(<<Dots3, X("x")>>)>>)), Ret_(<<CallE(X("g"),
     <<Dots3>>), CallE(X("g"), <<N(1)>>), CallE(X("g"), <<>>)>>)>>),
  \* local function g(...) local a, b = ... return b, a, ... end return (g(...)), g(1, 2)
  Ok(<<LocalFn("g", Fn(<<>>, "...", <<Local(<<V("a"), V("b")>>, <<Dots3>>), Ret_(<<X("b"),
     X("a"), Dots3>>)>>)), Ret_(<<Paren(CallE(X("g"), <<Dots3>>)), CallE(X("g"), <<N(1),
     N(2)>>)>>)>>),
  \* local function g(...t) return t[1], t.n, t[2], t.x end return g(...), g(4, 5)
  Ok(<<LocalFn("g", Fn(<<>>, "t", <<Ret_(<<Ix(X("t"), N(1)), Dot(X("t"), "n"), Ix(X("t"),
     N(2)), Dot(X("t"), "x")>>)>>)), Ret_(<<CallE(X("g"), <<Dots3>>), CallE(X("g"), <<N(4),
     N(5)>>)>>)>>),
  \* local function g(x, ...t) local y = t return y, t[1], x end return g(1, ...)
  Ok(<<LocalFn("g", Fn(<<"x">>, "t", <<Local(<<V("y")>>, <<X("t")>>), Ret_(<<X("y"), Ix(X("t"),
     N(1)), X("x")>>)>>)), Ret_(<<CallE(X("g"), <<N(1), Dots3>>)>>)>>),
  \* local function g(...t) t[1] = 7 return ... end return g(...)
  Ok(<<LocalFn("g", Fn(<<>>, "t", <<Set(<<Ix(X("t"), N(1))>>, <<N(7)>>), Ret_(<<Dots3>>)>>)),
     Ret_(<<CallE(X("g"), <<Dots3>>)>>)>>),
  \* local function g(...t) return function() return t[1] end, ... end local h = g(...) return h()
  Ok(<<LocalFn("g", Fn(<<>>, "t", <<Ret_(<<Fn(<<>>, "", <<Ret_(<<Ix(X("t"), N(1))>>)>>),
     Dots3>>)>>)), Local(<<V("h")>>, <<CallE(X("g"), <<Dots3>>)>>), Ret_(<<CallE(X("h"),
     <<>>)>>)>>),
  \* local function g(...t) local k = 2 return t[k], t[2.0], t[k - 1], f(t.n) end return g(...)
  Ok(<<LocalFn("g", Fn(<<>>, "t", <<Local(<<V("k")>>, <<N(2)>>), Ret_(<<Ix(X("t"), X("k")),
     Ix(X("t"), C(Flt(2))), Ix(X("t"), Bin("SUB", X("k"), N(1))), CallE(X("f"), <<Dot(X("t"),
     "n")>>)>>)>>)), Ret_(<<CallE(X("g"), <<Dots3>>)>>)>>),
  \* local function fact(n) if n < 2 then return 1 end return n * fact(n - 1) end return fact(4)
  Ok(<<LocalFn("fact", Fn(<<"n">>, "", <<If(Bin("LT", X("n"), N(2)), <<Ret_(<<N(1)>>)>>),
     Ret_(<<Bin("MUL", X("n"), CallE(X("fact"), <<Bin("SUB", X("n"), N(1))>>))>>)>>)),
     Ret_(<<CallE(X("fact"), <<N(4)>>)>>)>>),
  \* local function loop(n, m) if n == 0 then return m, 1 end return loop(n - 1, m + n) end return loop(3, 0)
  Ok(<<LocalFn("loop", Fn(<<"n", "m">>, "", <<If(Bin("EQ", X("n"), N(0)), <<Ret_(<<X("m"),
     N(1)>>)>>), Ret_(<<CallE(X("loop"), <<Bin("SUB", X("n"), N(1)), Bin("ADD", X("m"),
     X("n"))>>)>>)>>)), Ret_(<<CallE(X("loop"), <<N(3), N(0)>>)>>)>>),
  \* local function g(n) local k = n local h = function() k = k + 1 return k end return f(h()) end return g(1)
  Ok(<<LocalFn("g", Fn(<<"n">>, "", <<Local(<<V("k")>>, <<X("n")>>), Local(<<V("h")>>,
     <<Fn(<<>>, "", <<Set(<<X("k")>>, <<Bin("ADD", X("k"), N(1))>>), Ret_(<<X("k")>>)>>)>>),
     Ret_(<<CallE(X("f"), <<CallE(X("h"), <<>>)>>)>>)>>)), Ret_(<<CallE(X("g"), <<N(1)>>)>>)>>),
  \* local a = {n = 1} function a:inc(k) self.n = self.n + k return self end return a:inc(2):inc(3).n
  Ok(<<Local(<<V("a")>>, <<Table(<<Pair(S("n"), N(1))>>)>>), FnStat(Dot(X("a"), "inc"),
     Fn(<<"self", "k">>, "", <<Set(<<Dot(X("self"), "n")>>, <<Bin("ADD", Dot(X("self"),
     "n"), X("k"))>>), Ret_(<<X("self")>>)>>)), Ret_(<<Dot(Method(Method(X("a"), "inc",
     <<N(2)>>), "inc", <<N(3)>>), "n")>>)>>),
  \* local a = {b = {}} function a.b.c(x) return x, 1 end return a.b.c(3)
  Ok(<<Local(<<V("a")>>, <<Table(<<Pair(S("b"), Table(<<>>))>>)>>), FnStat(Dot(Dot(X("a"),
     "b"), "c"), Fn(<<"x">>, "", <<Ret_(<<X("x"), N(1)>>)>>)), Ret_(<<CallE(Dot(Dot(X("a"),
     "b"), "c"), <<N(3)>>)>>)>>),
  \* local a = ... return a:m(1):n(), a.x.y, a[a]
  Ok(<<Local(<<V("a")>>, <<Dots3>>), Ret_(<<Method(Method(X("a"), "m", <<N(1)>>), "n", <<>>),
     Dot(Dot(X("a"), "x"), "y"), Ix(X("a"), X("a"))>>)>>),
  \* local c = 0 local function up() c = c + 1 return c end local function twice() return up() + up() end return twice(), c
  Ok(<<Local(<<V("c")>>, <<N(0)>>), LocalFn("up", Fn(<<>>, "", <<Set(<<X("c")>>, <<Bin("ADD",
     X("c"), N(1))>>), Ret_(<<X("c")>>)>>)), LocalFn("twice", Fn(<<>>, "", <<Ret_(<<Bin("ADD",
     CallE(X("up"), <<>>), CallE(X("up"), <<>>))>>)>>)), Ret_(<<CallE(X("twice"), <<>>),
     X("c")>>)>>),
  \* local x = 1 local function g() local y = x return function() x = x + y return x end end local h = g() x = 5 return h(), h(), x
  Ok(<<Local(<<V("x")>>, <<N(1)>>), LocalFn("g", Fn(<<>>, "", <<Local(<<V("y")>>, <<X("x")>>),
     Ret_(<<Fn(<<>>, "", <<Set(<<X("x")>>, <<Bin("ADD", X("x"), X("y"))>>),
     Ret_(<<X("x")>>)>>)>>)>>)), Local(<<V("h")>>, <<CallE(X("g"), <<>>)>>), Set(<<X("x")>>,
     <<N(5)>>), Ret_(<<CallE(X("h"), <<>>), CallE(X("h"), <<>>), X("x")>>)>>),
  \* f = function() return 1 end x.y.z = f return f
  Ok(<<Set(<<X("f")>>, <<Fn(<<>>, "", <<Ret_(<<N(1)>>)>>)>>), Set(<<Dot(Dot(X("x"), "y"),
     "z")>>, <<X("f")>>), Ret_(<<X("f")>>)>>),
  \* local a, b = ... return f(a, f(b, f())), f(...)
  Ok(<<Local(<<V("a"), V("b")>>, <<Dots3>>), Ret_(<<CallE(X("f"), <<X("a"), CallE(X("f"),
     <<X("b"), CallE(X("f"), <<>>)>>)>>), CallE(X("f"), <<Dots3>>)>>)>>),
  \* return f(...)
  Ok(<<Ret_(<<CallE(X("f"), <<Dots3>>)>>)>>),
  \* local function g() local a, b return b, 1, a end return g()
  Ok(<<LocalFn("g", Fn(<<>>, "", <<Local(<<V("a"), V("b")>>, <<>>), Ret_(<<X("b"), N(1),
     X("a")>>)>>)), Ret_(<<CallE(X("g"), <<>>)>>)>>),
  \* local a <const>, b = 1, ... local function g() return a + 1, b end return g(), a
  Ok(<<Local(<<VK("a"), V("b")>>, <<N(1), Dots3>>), LocalFn("g", Fn(<<>>, "",
     <<Ret_(<<Bin("ADD", X("a"), N(1)), X("b")>>)>>)), Ret_(<<CallE(X("g"), <<>>), X("a")>>)>>),
  \* local a <const>, b <const> = ... return a, b
  Ok(<<Local(<<VK("a"), VK("b")>>, <<Dots3>>), Ret_(<<X("a"), X("b")>>)>>),
  \* local k <const> = 5 local s <const> = "x" local t = {} t[s] = k t[k] = s return t.x, -k, k + k * 2, k == 5, not k, t
  Ok(<<Local(<<VK("k")>>, <<N(5)>>), Local(<<VK("s")>>, <<S("x")>>), Local(<<V("t")>>,
     <<Table(<<>>)>>), Set(<<Ix(X("t"), X("s"))>>, <<X("k")>>), Set(<<Ix(X("t"), X("k"))>>,
     <<X("s")>>), Ret_(<<Dot(X("t"), "x"), Un("SUB", X("k")), Chain(<<X("k"), Op("ADD"),
     X("k"), Op("MUL"), N(2)>>), Bin("EQ", X("k"), N(5)), Un("NOT", X("k")), X("t")>>)>>),
  \* local n <const> = nil local b <const> = false if n or b then f(1) end while b do f() end return n == b, b and 1
  Ok(<<Local(<<VK("n")>>, <<C(Nil)>>), Local(<<VK("b")>>, <<C(False)>>), If(Bin("OR", X("n"),
     X("b")), <<CallS(CallE(X("f"), <<N(1)>>))>>), While_(X("b"), <<CallS(CallE(X("f"),
     <<>>))>>), Ret_(<<Bin("EQ", X("n"), X("b")), Bin("AND", X("b"), N(1))>>)>>),
  \* local k <const> = 2 return function() return k end == nil, ({k})[1]
  Ok(<<Local(<<VK("k")>>, <<N(2)>>), Ret_(<<Bin("EQ", Fn(<<>>, "", <<Ret_(<<X("k")>>)>>),
     C(Nil)), Ix(Paren(Table(<<Item(X("k"))>>)), N(1))>>)>>),
  \* local a = ... return a + 40, a + 16, a - 17, 20 + a, 16 < a, a > 18, a << 3, 2 << a, a >> 3, a // 2, a & 7, 2.0 * a
  Ok(<<Local(<<V("a")>>, <<Dots3>>), Ret_(<<Bin("ADD", X("a"), N(40)), Bin("ADD", X("a"),
     N(16)), Bin("SUB", X("a"), N(17)), Bin("ADD", N(20), X("a")), Bin("LT", N(16), X("a")),
     Bin("GT", X("a"), N(18)), Bin("SHL", X("a"), N(3)), Bin("SHL", N(2), X("a")), Bin("SHR",
     X("a"), N(3)), Bin("IDIV", X("a"), N(2)), Bin("BAND", X("a"), N(7)), Bin("MUL", C(Flt(2)),
     X("a"))>>)>>),
  \* local a = ... return a == 17, a ~= 16, a == "s", 1 == a, a < 3.0, 3 <= a
  Ok(<<Local(<<V("a")>>, <<Dots3>>), Ret_(<<Bin("EQ", X("a"), N(17)), Bin("NE", X("a"), N(16)),
     Bin("EQ", X("a"), S("s")), Bin("EQ", N(1), X("a")), Bin("LT", X("a"), C(Flt(3))), Bin("LE",
     N(3), X("a"))>>)>>),
  \* return 3 + 4 * 5, 1 << 5, 7 // 2, -(-3), 1 .. 2 .. 3, ("a" .. 1) .. 2.0, 30 + 10, 5 // 0.0 == nil
  Ok(<<Ret_(<<Chain(<<N(3), Op("ADD"), N(4), Op("MUL"), N(5)>>), Bin("SHL", N(1), N(5)),
     Bin("IDIV", N(7), N(2)), Un("SUB", Paren(Un("SUB", N(3)))), Chain(<<N(1), Op("CONCAT"),
     N(2), Op("CONCAT"), N(3)>>), Bin("CONCAT", Paren(Bin("CONCAT", S("a"), N(1))), C(Flt(2))),
     Bin("ADD", N(30), N(10)), Chain(<<N(5), Op("IDIV"), C(Flt(0)), Op("EQ"), C(Nil)>>)>>)>>),
  \* local a, b = ... return a .. b .. "x" .. f() .. 1, #a, -b, not a, #"ab"
  Ok(<<Local(<<V("a"), V("b")>>, <<Dots3>>), Ret_(<<Chain(<<X("a"), Op("CONCAT"), X("b"),
     Op("CONCAT"), S("x"), Op("CONCAT"), CallE(X("f"), <<>>), Op("CONCAT"), N(1)>>), Un("LEN",
     X("a")), Un("SUB", X("b")), Un("NOT", X("a")), Un("LEN", S("ab"))>>)>>),
  \* return 16 .. "", 17, 40.0, -16, 15.0, 31, -32
  Ok(<<Ret_(<<Bin("CONCAT", N(16), S("")), N(17), C(Flt(40)), Un("SUB", N(16)), C(Flt(15)),
     N(31), Un("SUB", N(32))>>)>>),
  \* local t = {} t[14], t[15], t[16], t[17] = 1, 2, 3, 4 return t, t[15], t[16], t[14], t[17]
  Ok(<<Local(<<V("t")>>, <<Table(<<>>)>>), Set(<<Ix(X("t"), N(14)), Ix(X("t"), N(15)),
     Ix(X("t"), N(16)), Ix(X("t"), N(17))>>, <<N(1), N(2), N(3), N(4)>>), Ret_(<<X("t"),
     Ix(X("t"), N(15)), Ix(X("t"), N(16)), Ix(X("t"), N(14)), Ix(X("t"), N(17))>>)>>),
  \* local a = ... return a.p, a.q, a.r, a.s, a.t, a.u, a.v, a.q
  Ok(<<Local(<<V("a")>>, <<Dots3>>), Ret_(<<Dot(X("a"), "p"), Dot(X("a"), "q"),
     Dot(X("a"), "r"), Dot(X("a"), "s"), Dot(X("a"), "t"), Dot(X("a"), "u"),
     Dot(X("a"), "v"), Dot(X("a"), "q")>>)>>),
  \* g.p, g.q, g.r, g.s, g.t, g.u = 1, 2, 3, 4, 5, 6 return 0
  Ok(<<Set(<<Dot(X("g"), "p"), Dot(X("g"), "q"), Dot(X("g"), "r"), Dot(X("g"), "s"),
     Dot(X("g"), "t"), Dot(X("g"), "u")>>, <<N(1), N(2), N(3), N(4), N(5), N(6)>>),
     Ret_(<<N(0)>>)>>),
  \* local a = ... a.p, a.q, a.r, a.s = nil, true, false, "z" a[1], a["k"], a[a], a[2.0] = a, 1.0, 20, 3 return a
  Ok(<<Local(<<V("a")>>, <<Dots3>>), Set(<<Dot(X("a"), "p"), Dot(X("a"), "q"), Dot(X("a"),
     "r"), Dot(X("a"), "s")>>, <<C(Nil), C(True), C(False), S("z")>>), Set(<<Ix(X("a"), N(1)),
     Ix(X("a"), S("k")), Ix(X("a"), X("a")), Ix(X("a"), C(Flt(2)))>>, <<X("a"), C(Flt(1)),
     N(20), N(3)>>), Ret_(<<X("a")>>)>>),
  \* local a, b, c local d = ... local e, g return a, b, c, d, e, g
  Ok(<<Local(<<V("a"), V("b"), V("c")>>, <<>>), Local(<<V("d")>>, <<Dots3>>), Local(<<V("e"),
     V("g")>>, <<>>), Ret_(<<X("a"), X("b"), X("c"), X("d"), X("e"), X("g")>>)>>),
  \* local a = f() and g() or h() local b = not (a == nil) and a or 1 return a, b
  Ok(<<Local(<<V("a")>>, <<Chain(<<CallE(X("f"), <<>>), Op("AND"), CallE(X("g"), <<>>),
     Op("OR"), CallE(X("h"), <<>>)>>)>>), Local(<<V("b")>>, <<Chain(<<Op("NOT"), Paren(Bin("EQ",
     X("a"), C(Nil))), Op("AND"), X("a"), Op("OR"), N(1)>>)>>), Ret_(<<X("a"), X("b")>>)>>),
  \* local a, b = ... if a and (b or f()) and not g() then return 1 elseif a == b then return 2 elseif not a then return 3 else return 4 end
  Ok(<<Local(<<V("a"), V("b")>>, <<Dots3>>), IfS(<<<<Chain(<<X("a"), Op("AND"), Paren(Bin("OR",
     X("b"), CallE(X("f"), <<>>))), Op("AND"), Op("NOT"), CallE(X("g"), <<>>)>>),
     <<Ret_(<<N(1)>>)>>>>, <<Bin("EQ", X("a"), X("b")), <<Ret_(<<N(2)>>)>>>>, <<Un("NOT",
     X("a")), <<Ret_(<<N(3)>>)>>>>>>, <<<<Ret_(<<N(4)>>)>>>>)>>),
  \* local a, b = ... while not (a and b) do a, b = b or 1, a or 2 end return a, b
  Ok(<<Local(<<V("a"), V("b")>>, <<Dots3>>), While_(Un("NOT", Paren(Bin("AND", X("a"),
     X("b")))), <<Set(<<X("a"), X("b")>>, <<Bin("OR", X("b"), N(1)), Bin("OR", X("a"),
     N(2))>>)>>), Ret_(<<X("a"), X("b")>>)>>),
  \* local a, b = ... return (a or b) and (b or a), not a == b, a ~= nil == true
  Ok(<<Local(<<V("a"), V("b")>>, <<Dots3>>), Ret_(<<Bin("AND", Paren(Bin("OR", X("a"), X("b"))),
     Paren(Bin("OR", X("b"), X("a")))), Chain(<<Op("NOT"), X("a"), Op("EQ"), X("b")>>),
     Chain(<<X("a"), Op("NE"), C(Nil), Op("EQ"), C(True)>>)>>)>>),
  \* local x <close> = f() local y <close> = nil return x, g()
  Ok(<<Local(<<VC("x")>>, <<CallE(X("f"), <<>>)>>), Local(<<VC("y")>>, <<C(Nil)>>),
     Ret_(<<X("x"), CallE(X("g"), <<>>)>>)>>),
  \* do local x <close> = ... local y <close> = f() if g() then goto out end h() ::out:: end return 1
  Ok(<<Do(<<Local(<<VC("x")>>, <<Dots3>>), Local(<<VC("y")>>, <<CallE(X("f"), <<>>)>>),
     If(CallE(X("g"), <<>>), <<GotoS("out")>>), CallS(CallE(X("h"), <<>>)), LabelS("out")>>),
     Ret_(<<N(1)>>)>>),
  \* for i = 1, 2 do local x <close> = f(i) if i == 2 then break end end return 0
  Ok(<<ForN("i", N(1), N(2), <<>>, <<Local(<<VC("x")>>, <<CallE(X("f"), <<X("i")>>)>>),
     If(Bin("EQ", X("i"), N(2)), <<BreakS>>)>>), Ret_(<<N(0)>>)>>),
  \* local i = 0 repeat local x <close> = f() i = i + 1 until x == i or i == 2 return i
  Ok(<<Local(<<V("i")>>, <<N(0)>>), Repeat_(<<Local(<<VC("x")>>, <<CallE(X("f"), <<>>)>>),
     Set(<<X("i")>>, <<Bin("ADD", X("i"), N(1))>>)>>, Chain(<<X("x"), Op("EQ"), X("i"),
     Op("OR"), X("i"), Op("EQ"), N(2)>>)), Ret_(<<X("i")>>)>>),
  \* local function g() local x <close> = f() local y = 1 local h = function() y = y + 1 return y end return h(), y end return g()
  Ok(<<LocalFn("g", Fn(<<>>, "", <<Local(<<VC("x")>>, <<CallE(X("f"), <<>>)>>),
     Local(<<V("y")>>, <<N(1)>>), Local(<<V("h")>>, <<Fn(<<>>, "", <<Set(<<X("y")>>,
     <<Bin("ADD", X("y"), N(1))>>), Ret_(<<X("y")>>)>>)>>), Ret_(<<CallE(X("h"), <<>>),
     X("y")>>)>>)), Ret_(<<CallE(X("g"), <<>>)>>)>>),
  \* local i = 0 while i < 2 do i = i + 1 local x <close> = g(y) do local y = x f(function() return y end) goto next end ::next:: if i == 2 then break end end return 0
  Ok(<<Local(<<V("i")>>, <<N(0)>>), While_(Bin("LT", X("i"), N(2)), <<Set(<<X("i")>>,
     <<Bin("ADD", X("i"), N(1))>>), Local(<<VC("x")>>, <<CallE(X("g"), <<X("y")>>)>>),
     Do(<<Local(<<V("y")>>, <<X("x")>>), CallS(CallE(X("f"), <<Fn(<<>>, "",
     <<Ret_(<<X("y")>>)>>)>>)), GotoS("next")>>), LabelS("next"), If(Bin("EQ", X("i"), N(2)),
     <<BreakS>>)>>), Ret_(<<N(0)>>)>>),
  \* local function g(...) local x <close> = f() return ... end return g(1, 2)
  Ok(<<LocalFn("g", Fn(<<>>, "...", <<Local(<<VC("x")>>, <<CallE(X("f"), <<>>)>>),
     Ret_(<<Dots3>>)>>)), Ret_(<<CallE(X("g"), <<N(1), N(2)>>)>>)>>),
  \* local function g(...t) local x <close> = f() return h(...) end return g(1, 2)
  Ok(<<LocalFn("g", Fn(<<>>, "t", <<Local(<<VC("x")>>, <<CallE(X("f"), <<>>)>>),
     Ret_(<<CallE(X("h"), <<Dots3>>)>>)>>)), Ret_(<<CallE(X("g"), <<N(1), N(2)>>)>>)>>),
  \* global a, b global c <const> a = b return a, c
  Ok(<<GlobalS(<<G("a"), G("b")>>, <<>>), GlobalS(<<GK("c")>>, <<>>), Set(<<X("a")>>,
     <<X("b")>>), Ret_(<<X("a"), X("c")>>)>>),
  \* global a, b = 1, f() return a, b
  Ok(<<GlobalS(<<G("a"), G("b")>>, <<N(1), CallE(X("f"), <<>>)>>), Ret_(<<X("a"), X("b")>>)>>),
  \* global * x = y global y <const> = 1 return y
  Ok(<<GlobalS(<<G("*")>>, <<>>), Set(<<X("x")>>, <<X("y")>>), GlobalS(<<GK("y")>>, <<N(1)>>),
     Ret_(<<X("y")>>)>>),
  \* global f global function g(n) return f(n) end return g(1)
  Ok(<<GlobalS(<<G("f")>>, <<>>), GlobalFn("g", Fn(<<"n">>, "", <<Ret_(<<CallE(X("f"),
     <<X("n")>>)>>)>>)), Ret_(<<CallE(X("g"), <<N(1)>>)>>)>>),
  \* local _ENV = {} x = 1 y = x return _ENV
  Ok(<<Local(<<V("_ENV")>>, <<Table(<<>>)>>), Set(<<X("x")>>, <<N(1)>>), Set(<<X("y")>>,
     <<X("x")>>), Ret_(<<X("_ENV")>>)>>),
  \* local function g(_ENV) x = y + 1 return x end return g({y = 2})
  Ok(<<LocalFn("g", Fn(<<"_ENV">>, "", <<Set(<<X("x")>>, <<Bin("ADD", X("y"), N(1))>>),
     Ret_(<<X("x")>>)>>)), Ret_(<<CallE(X("g"), <<Table(<<Pair(S("y"), N(2))>>)>>)>>)>>),
  \* local e = _ENV local _ENV <const> = {f = 1} return f, e.f
  Ok(<<Local(<<V("e")>>, <<X("_ENV")>>), Local(<<VK("_ENV")>>, <<Table(<<Pair(S("f"),
     N(1))>>)>>), Ret_(<<X("f"), Dot(X("e"), "f")>>)>>),
  \* local t = {} do local _ENV = t a, b = 1, 2 end return t, a
  Ok(<<Local(<<V("t")>>, <<Table(<<>>)>>), Do(<<Local(<<V("_ENV")>>, <<X("t")>>), Set(<<X("a"),
     X("b")>>, <<N(1), N(2)>>)>>), Ret_(<<X("t"), X("a")>>)>>),
  \* do goto a ::b:: f(2) goto c ::a:: f(1) goto b ::c:: end return 0
  Ok(<<Do(<<GotoS("a"), LabelS("b"), CallS(CallE(X("f"), <<N(2)>>)), GotoS("c"), LabelS("a"),
     CallS(CallE(X("f"), <<N(1)>>)), GotoS("b"), LabelS("c")>>), Ret_(<<N(0)>>)>>),
  \* goto done do ::done:: end ::done:: return 1
  Ok(<<GotoS("done"), Do(<<LabelS("done")>>), LabelS("done"), Ret_(<<N(1)>>)>>),
  \* do local a <const> = 1 goto out local b = a ::out:: end return 0
  Ok(<<Do(<<Local(<<VK("a")>>, <<N(1)>>), GotoS("out"), Local(<<V("b")>>, <<X("a")>>),
     LabelS("out")>>), Ret_(<<N(0)>>)>>),
  \* if f() then local x = 1 goto e elseif g() then f(2) end f(3) ::e:: return 0
  Ok(<<IfS(<<<<CallE(X("f"), <<>>), <<Local(<<V("x")>>, <<N(1)>>), GotoS("e")>>>>,
     <<CallE(X("g"), <<>>), <<CallS(CallE(X("f"), <<N(2)>>))>>>>>>, <<>>), CallS(CallE(X("f"),
     <<N(3)>>)), LabelS("e"), Ret_(<<N(0)>>)>>),
  \* local i = 0 ::a:: ::b:: i = i + 1 if i == 1 then goto a elseif i == 2 then goto b end return i
  Ok(<<Local(<<V("i")>>, <<N(0)>>), LabelS("a"), LabelS("b"), Set(<<X("i")>>, <<Bin("ADD",
     X("i"), N(1))>>), IfS(<<<<Bin("EQ", X("i"), N(1)), <<GotoS("a")>>>>, <<Bin("EQ", X("i"),
     N(2)), <<GotoS("b")>>>>>>, <<>>), Ret_(<<X("i")>>)>>),
  \* ::a:: do local x = f() if x == 1 then goto a end end return 0
  Ok(<<LabelS("a"), Do(<<Local(<<V("x")>>, <<CallE(X("f"), <<>>)>>), If(Bin("EQ", X("x"), N(1)),
     <<GotoS("a")>>)>>), Ret_(<<N(0)>>)>>),
  \* for i = 1, 2 do f(y) while f() do if i == 1 then goto outer end if i == 2 then break end end f(i) ::outer:: end return 0
  Ok(<<ForN("i", N(1), N(2), <<>>, <<CallS(CallE(X("f"), <<X("y")>>)), While_(CallE(X("f"),
     <<>>), <<If(Bin("EQ", X("i"), N(1)), <<GotoS("outer")>>), If(Bin("EQ", X("i"), N(2)),
     <<BreakS>>)>>), CallS(CallE(X("f"), <<X("i")>>)), LabelS("outer")>>), Ret_(<<N(0)>>)>>),
  \* repeat local x = f() if g() then goto cont end ::cont:: until x return 0
  Ok(<<Repeat_(<<Local(<<V("x")>>, <<CallE(X("f"), <<>>)>>), If(CallE(X("g"), <<>>),
     <<GotoS("cont")>>), LabelS("cont")>>, X("x")), Ret_(<<N(0)>>)>>) >>

MCRefused == <<
  \* local x <const> = 1 x = 2
  Bad(<<Local(<<VK("x")>>, <<N(1)>>), Set(<<X("x")>>, <<N(2)>>)>>, "const"),
  \* local x <const> = f() local function g() x = 2 end
  Bad(<<Local(<<VK("x")>>, <<CallE(X("f"), <<>>)>>), LocalFn("g", Fn(<<>>, "", <<Set(<<X("x")>>,
      <<N(2)>>)>>))>>, "const"),
  \* for i = 1, 2 do i = 3 end
  Bad(<<ForN("i", N(1), N(2), <<>>, <<Set(<<X("i")>>, <<N(3)>>)>>)>>, "const"),
  \* for k in f do k = 1 end
  Bad(<<ForIn(<<"k">>, <<X("f")>>, <<Set(<<X("k")>>, <<N(1)>>)>>)>>, "const"),
  \* local function g(...t) t = 1 end
  Bad(<<LocalFn("g", Fn(<<>>, "t", <<Set(<<X("t")>>, <<N(1)>>)>>))>>, "const"),
  \* local function g(...t) return function() t = 1 end end
  Bad(<<LocalFn("g", Fn(<<>>, "t", <<Ret_(<<Fn(<<>>, "", <<Set(<<X("t")>>, <<N(1)>>)>>)>>)>>))>>, "const"),
  \* global x <const> x = 1
  Bad(<<GlobalS(<<GK("x")>>, <<>>), Set(<<X("x")>>, <<N(1)>>)>>, "const"),
  \* global c <const> function c() end
  Bad(<<GlobalS(<<GK("c")>>, <<>>), FnStat(X("c"), Fn(<<>>, "", <<>>))>>, "const"),
  \* global x y = 1
  Bad(<<GlobalS(<<G("x")>>, <<>>), Set(<<X("y")>>, <<N(1)>>)>>, "undeclared"),
  \* global x return function() return z end
  Bad(<<GlobalS(<<G("x")>>, <<>>), Ret_(<<Fn(<<>>, "", <<Ret_(<<X("z")>>)>>)>>)>>, "undeclared"),
  \* global <const> * x = 1
  Bad(<<GlobalS(<<GK("*")>>, <<>>), Set(<<X("x")>>, <<N(1)>>)>>, "const"),
  \* goto a do ::a:: end
  Bad(<<GotoS("a"), Do(<<LabelS("a")>>)>>, "label"),
  \* goto a local x ::a:: f()
  Bad(<<GotoS("a"), Local(<<V("x")>>, <<>>), LabelS("a"), CallS(CallE(X("f"), <<>>))>>, "scope"),
  \* do goto a local x ::a:: f() end return 0
  Bad(<<Do(<<GotoS("a"), Local(<<V("x")>>, <<>>), LabelS("a"), CallS(CallE(X("f"), <<>>))>>),
      Ret_(<<N(0)>>)>>, "scope"),
  \* repeat if f() then goto a end local x ::a:: until x
  Bad(<<Repeat_(<<If(CallE(X("f"), <<>>), <<GotoS("a")>>), Local(<<V("x")>>, <<>>),
      LabelS("a")>>, X("x"))>>, "scope"),
  \* break
  Bad(<<BreakS>>, "break"),
  \* while f() do g(function() break end) end
  Bad(<<While_(CallE(X("f"), <<>>), <<CallS(CallE(X("g"), <<Fn(<<>>, "", <<BreakS>>)>>))>>)>>, "break"),
  \* ::a:: do ::a:: end
  Bad(<<LabelS("a"), Do(<<LabelS("a")>>)>>, "repeated"),
  \* local function g() return ... end
  Bad(<<LocalFn("g", Fn(<<>>, "", <<Ret_(<<Dots3>>)>>))>>, "vararg"),
  \* local a <close>, b <close> = 1, 2
  Bad(<<Local(<<VC("a"), VC("b")>>, <<N(1), N(2)>>)>>, "close"),
  \* local _ENV <const> = nil return function() return 1 end
  Bad(<<Local(<<VK("_ENV")>>, <<C(Nil)>>), Ret_(<<Fn(<<>>, "", <<Ret_(<<N(1)>>)>>)>>)>>, ""),
  \* global x local _ENV_ return 1
  Bad(<<GlobalS(<<G("x")>>, <<>>), Local(<<V("_ENV_")>>, <<>>), Ret_(<<N(1)>>)>>, ""),
  \* do global _ENV, x x = 1 end
  Bad(<<Do(<<GlobalS(<<G("_ENV"), G("x")>>, <<>>), Set(<<X("x")>>, <<N(1)>>)>>)>>, "_ENV") >>

\* Comparisons with what an "or" may yield: a constant with a jump pending.
Either(e) == Paren(Bin("OR", A, e))
Orders2(l, e) == [i \in 1..4 |-> Bin(<<"LT", "LE", "GT", "GE">>[i], l, Either(e))]
Comparisons ==
  Orders2(B, C(Flt(2))) \o Orders2(N(3), N(2)) \o Orders2(C(Flt(3)), C(Flt(2)))
  \o Orders2(C(Flt(3)), N(2)) \o Orders2(N(20), C(Flt(2)))

MCPrograms == Each(InReturn, Bools) \o Each(InIf, Bools) \o Each(InLocal, Ariths)
  \o Each(InIf, Deep) \o Each(InAssign, Deep) \o Each(InCall, Nots)
  \o Each(InReturn, Comparisons) \o MCStatements \o MCRefused
\* An integer against a float with a jump pending: local a, b = ... return 3 < (a or 2.0)
MCMarked == Each(InReturn, Orders2(N(3), C(Flt(2))))
MCArguments == {<<Nil, Integer(1)>>, <<Integer(1), Integer(2)>>, <<Object("p"), Object("q")>>}
=============================================================================
