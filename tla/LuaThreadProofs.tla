--------------------------- MODULE LuaThreadProofs ---------------------------
(***************************************************************************)
(* The invariants of a coroutine, proved for stacks, call chains and        *)
(* programs of any size (ThreadSnapshot!ThreadPlainSpec).                   *)
(***************************************************************************)
EXTENDS ThreadSnapshot, ListLemmas

Kinds == {"base", "lua", "pcall", "xpcall", "yield"}
FrameType ==
  [kind : Kinds, func : Nat, top : Nat, u2 : Nat, old_errfunc : Nat,
   ypcall : BOOLEAN, recst : BOOLEAN, locals : Seq(Nat),
   doing : {"run", "block", "return"}, nres : Nat]
Variable == [slot : Nat, var : Nat]

\* The last slot of a frame that holds a variable.
Last(f) == f.func + Len(f.locals)

Proper(f) ==
  /\ f \in FrameType
  /\ f.ypcall <=> f.kind \in {"pcall", "xpcall"}
  /\ f.recst => f.ypcall
  /\ f.kind # "lua" => f.locals = << >> /\ f.doing = "run"
  /\ f.kind = "lua" => Len(f.locals) < FrameSize /\ f.u2 <= 2
  /\ f.doing = "block" => f.locals # << >>
  /\ f.ypcall => f.u2 > f.func

\* A frame further up the stack lies above the variables of f and, when f
\* is a protected call, above what f will close.
Under(f, g) == Last(f) < g.func /\ (f.ypcall => f.u2 <= g.func)

\* What a frame may call, and where.
Calls(f, g) ==
  /\ f.doing = "return" => g.func <= f.top + 1
  /\ g.kind # "lua" => f.kind = "lua" /\ f.doing = "run" /\ g.func < f.top
  /\ g.kind # "base" /\ f.kind # "yield"

Stack(fs) ==
  /\ fs \in Seq(FrameType) /\ fs # << >>
  /\ fs[1].kind = "base" /\ fs[1].func = 0
  /\ \A i \in DOMAIN fs : Proper(fs[i])
  /\ \A i, j \in DOMAIN fs : i < j => Under(fs[i], fs[j])
  /\ \A i \in DOMAIN fs : i + 1 \in DOMAIN fs => Calls(fs[i], fs[i + 1])

\* The handler of the innermost protected call among the first n frames.
HandlerAt(fs, n) ==
  LET calls == { i \in 1..n : fs[i].ypcall } IN
  IF calls = {} THEN 0
  ELSE Handler(fs[CHOOSE i \in calls : \A j \in calls : j <= i])

Handlers(fs, ef) ==
  /\ ef = HandlerAt(fs, Len(fs))
  /\ \A i \in DOMAIN fs :
       fs[i].ypcall => fs[i].old_errfunc = HandlerAt(fs, i - 1)

Status(fs, st, run, tp) ==
  LET f == fs[Len(fs)] IN
  /\ st \in {"OK", "YIELD", "ERR"} /\ run \in BOOLEAN /\ tp \in Nat
  /\ run => /\ st = "OK" /\ f.kind \notin {"yield", "base"}
            /\ f.doing = "return" => Last(f) < tp /\ tp <= f.top + 1
            /\ f.ypcall /\ ~f.recst => f.u2 <= tp
  /\ st = "OK" /\ ~run => Len(fs) = 1
  /\ st = "YIELD" => f.kind = "yield"
  /\ st = "ERR" => \A i \in DOMAIN fs : ~fs[i].ypcall

Fit(fs, st, tp, sz) ==
  /\ sz \in Nat /\ tp <= sz + ExtraStack
  /\ st = "ERR" => \A i \in DOMAIN fs : fs[i].top <= sz + ExtraStack
  /\ st # "ERR" => \A i \in DOMAIN fs :
                     /\ fs[i].top <= sz
                     /\ fs[i].kind = "lua" => fs[i].top = fs[i].func + 1 + FrameSize

LiveAt(f, slot, var) == /\ slot - f.func \in DOMAIN f.locals
                        /\ f.locals[slot - f.func] = var
LiveIn(fs, slot, var) == \E k \in DOMAIN fs : LiveAt(fs[k], slot, var)

\* Frame k is a protected call unwinding the variables from its level up.
Unwinds(fs, k, slot) ==
  /\ fs[k].recst /\ fs[k].u2 <= slot
  /\ \A j \in DOMAIN fs : k < j => slot < fs[j].func

ByslotAndVar == { p \in Variable \X Variable :
                    p[1].slot > p[2].slot /\ p[1].var > p[2].var }
Byslot == { p \in Variable \X Variable : p[1].slot > p[2].slot }

ToClose(fs, tbc) ==
  /\ tbc \in Seq(Variable) /\ Sorted(tbc, ByslotAndVar)
  /\ \A t \in In(tbc) : \/ LiveIn(fs, t.slot, t.var)
                        \/ \E k \in DOMAIN fs : Unwinds(fs, k, t.slot)

\* The values of the variables an error left behind are still there.
ValuesKept(fs, tbc, tp, sz) ==
  fs[Len(fs)].recst => \A t \in In(tbc) : t.slot < tp /\ t.slot < sz

\* The slots a frame has closed before it leaves them.
ClosedTo(f) == IF f.doing = "block" THEN Last(f) ELSE f.func + 1
Upvalues(fs, ups) ==
  /\ ups \in Seq(Variable) /\ Sorted(ups, Byslot)
  /\ \A u \in In(ups) : \/ LiveIn(fs, u.slot, u.var)
                        \/ fs[Len(fs)].recst /\ fs[Len(fs)].u2 <= u.slot
  /\ \A i \in DOMAIN fs : fs[i].doing # "run" =>
       \A u \in In(ups) : ClosedTo(fs[i]) <= u.slot => Last(fs[i]) < u.slot

Vars(tbc) == { t.var : t \in In(tbc) }
Closes(tbc, decl, mark, cl) ==
  /\ decl \in Nat /\ mark \subseteq 1..decl /\ cl \in Seq(Nat)
  /\ \A i, j \in DOMAIN cl : cl[i] = cl[j] => i = j
  /\ Vars(tbc) \cup In(cl) = mark
  /\ Vars(tbc) \cap In(cl) = {}

Chain(fs, ef, st, run, tp, sz, tbc, ups) ==
  /\ Stack(fs)
  /\ Handlers(fs, ef)
  /\ Status(fs, st, run, tp)
  /\ Fit(fs, st, tp, sz)
  /\ ToClose(fs, tbc)
  /\ ValuesKept(fs, tbc, tp, sz)
  /\ Upvalues(fs, ups)

ThreadInv ==
  /\ Chain(frames, errfunc, status, running, top, size, tbclist, openupval)
  /\ Closes(tbclist, declared, marked, taken)
-----------------------------------------------------------------------------
SetLast(fs, g) == [fs EXCEPT ![Len(fs)] = g]

\* The frames of a call chain, and its last.
LEMMA StackFacts ==
  ASSUME NEW fs, Stack(fs)
  PROVE  /\ fs \in Seq(FrameType) /\ Len(fs) \in Nat /\ Len(fs) >= 1
         /\ DOMAIN fs = 1..Len(fs) /\ fs # << >>
         /\ Len(fs) \in DOMAIN fs /\ Proper(fs[Len(fs)])
         /\ fs[Len(fs)] \in FrameType
         /\ \A i \in 1..Len(fs) : fs[i] \in FrameType /\ Proper(fs[i])
<1>1. fs \in Seq(FrameType) /\ fs # << >>
  BY DEF Stack
<1>2. Len(fs) \in Nat /\ Len(fs) >= 1 /\ DOMAIN fs = 1..Len(fs)
  BY <1>1
<1>3. \A i \in DOMAIN fs : Proper(fs[i])
  BY DEF Stack
<1>4. \A i \in DOMAIN fs : fs[i] \in FrameType
  BY <1>3 DEF Proper
<1> QED BY <1>1, <1>2, <1>3, <1>4

\* A return to an outer frame, or an error caught there, leaves a stack.
LEMMA PrefixStack ==
  ASSUME NEW fs, Stack(fs), NEW m \in 1..Len(fs)
  PROVE  Stack(SubSeq(fs, 1, m))
<1> PICK gs : gs = SubSeq(fs, 1, m)
  OBVIOUS
<1>1. /\ fs \in Seq(FrameType) /\ Len(fs) \in Nat /\ DOMAIN fs = 1..Len(fs)
  BY StackFacts
<1>2. /\ gs \in Seq(FrameType) /\ Len(gs) = m /\ DOMAIN gs = 1..m
      /\ \A i \in 1..m : gs[i] = fs[i]
  BY <1>1, PrefixSeq
<1>3. /\ fs[1].kind = "base" /\ fs[1].func = 0
      /\ \A i \in DOMAIN fs : Proper(fs[i])
      /\ \A i, j \in DOMAIN fs : i < j => Under(fs[i], fs[j])
      /\ \A i \in DOMAIN fs : i + 1 \in DOMAIN fs => Calls(fs[i], fs[i + 1])
  BY DEF Stack
<1>4. gs[1] = fs[1] /\ gs # << >>
  BY <1>2
<1>5. \A i \in DOMAIN gs : Proper(gs[i])
  BY <1>1, <1>2, <1>3
<1>6. \A i, j \in DOMAIN gs : i < j => Under(gs[i], gs[j])
  BY <1>1, <1>2, <1>3
<1>7. \A i \in DOMAIN gs : i + 1 \in DOMAIN gs => Calls(gs[i], gs[i + 1])
  BY <1>1, <1>2, <1>3
<1>8. Stack(gs)
  BY <1>2, <1>3, <1>4, <1>5, <1>6, <1>7 DEF Stack
<1> QED BY <1>8

\* So does a call of a frame that lies above the others.
LEMMA PushStack ==
  ASSUME NEW fs, Stack(fs), NEW g, Proper(g),
         \A i \in DOMAIN fs : Under(fs[i], g), Calls(fs[Len(fs)], g)
  PROVE  Stack(Append(fs, g))
<1> PICK gs : gs = Append(fs, g)
  OBVIOUS
<1>1. /\ fs \in Seq(FrameType) /\ Len(fs) \in Nat /\ DOMAIN fs = 1..Len(fs)
      /\ Len(fs) >= 1
  BY StackFacts
<1> PICK n \in Nat : n = Len(fs)
  BY <1>1
<1>2. g \in FrameType
  BY DEF Proper
<1>3. /\ gs \in Seq(FrameType) /\ DOMAIN gs = 1..(n + 1) /\ gs[n + 1] = g
      /\ \A i \in 1..n : gs[i] = fs[i]
  BY <1>1, <1>2, PushSeq
<1>4. /\ fs[1].kind = "base" /\ fs[1].func = 0
      /\ \A i \in DOMAIN fs : Proper(fs[i])
      /\ \A i, j \in DOMAIN fs : i < j => Under(fs[i], fs[j])
      /\ \A i \in DOMAIN fs : i + 1 \in DOMAIN fs => Calls(fs[i], fs[i + 1])
  BY DEF Stack
<1>5. gs[1] = fs[1] /\ gs # << >>
  BY <1>1, <1>3
<1>6. \A i \in DOMAIN gs : Proper(gs[i])
  BY <1>1, <1>3, <1>4
<1>7. \A i, j \in DOMAIN gs : i < j => Under(gs[i], gs[j])
  BY <1>1, <1>3, <1>4
<1>8. \A i \in DOMAIN gs : i + 1 \in DOMAIN gs => Calls(gs[i], gs[i + 1])
  BY <1>1, <1>3, <1>4
<1>9. Stack(gs)
  BY <1>3, <1>4, <1>5, <1>6, <1>7, <1>8 DEF Stack
<1> QED BY <1>9

\* And a change of the last frame that leaves it where it is.
LEMMA SetStack ==
  ASSUME NEW fs, Stack(fs), Len(fs) > 1, NEW g, Proper(g),
         g.func = fs[Len(fs)].func, g.kind = fs[Len(fs)].kind
  PROVE  Stack(SetLast(fs, g))
<1> PICK gs : gs = SetLast(fs, g)
  OBVIOUS
<1>1. /\ fs \in Seq(FrameType) /\ Len(fs) \in Nat /\ DOMAIN fs = 1..Len(fs)
      /\ fs # << >>
  BY StackFacts
<1> PICK n \in Nat : n = Len(fs)
  BY <1>1
<1>2. g \in FrameType
  BY DEF Proper
<1>3. /\ gs \in Seq(FrameType) /\ DOMAIN gs = 1..n /\ gs[n] = g
      /\ \A i \in 1..(n - 1) : gs[i] = fs[i]
  BY <1>1, <1>2 DEF SetLast
<1>4. /\ fs[1].kind = "base" /\ fs[1].func = 0
      /\ \A i \in DOMAIN fs : Proper(fs[i])
      /\ \A i, j \in DOMAIN fs : i < j => Under(fs[i], fs[j])
      /\ \A i \in DOMAIN fs : i + 1 \in DOMAIN fs => Calls(fs[i], fs[i + 1])
  BY DEF Stack
<1>5. gs[1] = fs[1] /\ gs # << >>
  BY <1>1, <1>3
<1>6. \A i \in DOMAIN gs : Proper(gs[i])
  BY <1>1, <1>3, <1>4
<1>7. \A i \in 1..(n - 1) : Under(fs[i], g)
  BY <1>1, <1>4 DEF Under
<1>8. \A i, j \in DOMAIN gs : i < j => Under(gs[i], gs[j])
  BY <1>1, <1>3, <1>4, <1>7
<1>9. Calls(fs[n - 1], g)
  BY <1>1, <1>4 DEF Calls
<1>10. \A i \in DOMAIN gs : i + 1 \in DOMAIN gs => Calls(gs[i], gs[i + 1])
  BY <1>1, <1>3, <1>4, <1>9
<1>11. Stack(gs)
  BY <1>3, <1>4, <1>5, <1>6, <1>8, <1>10 DEF Stack
<1> QED BY <1>11
-----------------------------------------------------------------------------
Innermost(fs, n, k) ==
  /\ k \in 1..n /\ fs[k].ypcall
  /\ \A j \in 1..n : fs[j].ypcall => j <= k

\* Of the protected calls among the first n frames one is the innermost.
LEMMA HasInnermost ==
  ASSUME NEW fs, NEW n \in Nat
  PROVE  (\A i \in 1..n : ~fs[i].ypcall) \/ (\E k \in 1..n : Innermost(fs, n, k))
<1> DEFINE S == {m \in 0..n : \/ \A i \in 1..m : ~fs[i].ypcall
                              \/ \E k \in 1..m : Innermost(fs, m, k)}
<1>1. 0 \in S
  OBVIOUS
<1>2. ASSUME NEW m \in 0..(n - 1), m \in S PROVE m + 1 \in S
  <2>1. CASE fs[m + 1].ypcall
    <3>1. Innermost(fs, m + 1, m + 1)
      BY <2>1 DEF Innermost
    <3> QED BY <3>1
  <2>2. CASE ~fs[m + 1].ypcall
    <3>1. ASSUME NEW k \in 1..m, Innermost(fs, m, k) PROVE Innermost(fs, m + 1, k)
      BY <3>1, <2>2 DEF Innermost
    <3> QED BY <3>1, <2>2, <1>2
  <2> QED BY <2>1, <2>2
<1> HIDE DEF S
<1>3. 0..n \subseteq S
  BY <1>1, <1>2, BoundedInduction
<1>4. n \in S
  BY <1>3
<1> QED BY <1>4 DEF S

\* The handler is that call's, or none when there is no call.
LEMMA HandlerFacts ==
  ASSUME NEW fs, NEW n \in Nat
  PROVE  /\ (\A i \in 1..n : ~fs[i].ypcall) => HandlerAt(fs, n) = 0
         /\ \A k \in 1..n : Innermost(fs, n, k) => HandlerAt(fs, n) = Handler(fs[k])
<1> DEFINE C == { i \in 1..n : fs[i].ypcall }
<1>1. ASSUME \A i \in 1..n : ~fs[i].ypcall PROVE HandlerAt(fs, n) = 0
  <2>1. C = {}
    BY <1>1
  <2> QED BY <2>1 DEF HandlerAt
<1>2. ASSUME NEW k \in 1..n, Innermost(fs, n, k)
      PROVE  HandlerAt(fs, n) = Handler(fs[k])
  <2>1. k \in C /\ \A j \in C : j <= k
    BY <1>2 DEF Innermost
  <2> DEFINE top0 == CHOOSE i \in C : \A j \in C : j <= i
  <2>2. top0 \in C /\ \A j \in C : j <= top0
    BY <2>1
  <2>3. top0 = k
    <3> HIDE DEF top0
    <3>1. top0 \in 1..n /\ top0 <= k /\ k <= top0
      BY <2>1, <2>2
    <3> QED BY <3>1
  <2>4. C # {} /\ HandlerAt(fs, n) = IF C = {} THEN 0 ELSE Handler(fs[top0])
    BY <2>1 DEF HandlerAt
  <2> HIDE DEF top0, C
  <2> QED BY <2>3, <2>4
<1> QED BY <1>1, <1>2

\* The handler depends on what the frames are, not on what they are doing.
LEMMA HandlerSame ==
  ASSUME NEW fs, NEW gs, NEW n \in Nat,
         \A i \in 1..n : /\ fs[i].ypcall = gs[i].ypcall /\ fs[i].kind = gs[i].kind
                         /\ fs[i].func = gs[i].func
  PROVE  HandlerAt(fs, n) = HandlerAt(gs, n)
<1>1. CASE \A i \in 1..n : ~fs[i].ypcall
  <2>1. \A i \in 1..n : ~gs[i].ypcall
    BY <1>1
  <2> QED BY <1>1, <2>1, HandlerFacts
<1>2. CASE ~ \A i \in 1..n : ~fs[i].ypcall
  <2>1. PICK k \in 1..n : Innermost(fs, n, k)
    BY <1>2, HasInnermost
  <2>2. Innermost(gs, n, k)
    BY <2>1 DEF Innermost
  <2>3. Handler(fs[k]) = Handler(gs[k])
    BY DEF Handler
  <2>4. HandlerAt(fs, n) = Handler(fs[k])
    BY <2>1, HandlerFacts
  <2>5. HandlerAt(gs, n) = Handler(gs[k])
    BY <2>2, HandlerFacts
  <2> QED BY <2>3, <2>4, <2>5
<1> QED BY <1>1, <1>2

\* A frame that is no protected call changes no handler.
LEMMA HandlerSkip ==
  ASSUME NEW fs, NEW n \in Nat, ~fs[n + 1].ypcall
  PROVE  HandlerAt(fs, n + 1) = HandlerAt(fs, n)
<1>1. CASE \A i \in 1..n : ~fs[i].ypcall
  <2>1. \A i \in 1..(n + 1) : ~fs[i].ypcall
    BY <1>1
  <2>2. HandlerAt(fs, n) = 0
    BY <1>1, HandlerFacts
  <2>3. HandlerAt(fs, n + 1) = 0
    BY <2>1, HandlerFacts
  <2> QED BY <2>2, <2>3
<1>2. CASE ~ \A i \in 1..n : ~fs[i].ypcall
  <2>1. PICK k \in 1..n : Innermost(fs, n, k)
    BY <1>2, HasInnermost
  <2>2. k \in 1..(n + 1) /\ Innermost(fs, n + 1, k)
    BY <2>1 DEF Innermost
  <2>3. HandlerAt(fs, n) = Handler(fs[k])
    BY <2>1, HandlerFacts
  <2>4. HandlerAt(fs, n + 1) = Handler(fs[k])
    BY <2>2, HandlerFacts
  <2> QED BY <2>3, <2>4
<1> QED BY <1>1, <1>2

\* The handlers of a prefix.
LEMMA PrefixHandlers ==
  ASSUME NEW fs, Stack(fs), NEW ef, Handlers(fs, ef), NEW m \in 1..Len(fs)
  PROVE  Handlers(SubSeq(fs, 1, m), HandlerAt(fs, m))
<1> PICK gs : gs = SubSeq(fs, 1, m)
  OBVIOUS
<1>1. /\ fs \in Seq(FrameType) /\ Len(fs) \in Nat /\ DOMAIN fs = 1..Len(fs)
  BY StackFacts
<1>2. /\ Len(gs) = m /\ DOMAIN gs = 1..m /\ \A i \in 1..m : gs[i] = fs[i]
  BY <1>1, PrefixSeq
<1>3. ASSUME NEW k \in 0..m PROVE HandlerAt(gs, k) = HandlerAt(fs, k)
  <2>1. \A i \in 1..k : /\ gs[i].ypcall = fs[i].ypcall
                        /\ gs[i].kind = fs[i].kind /\ gs[i].func = fs[i].func
    BY <1>2
  <2>2. k \in Nat
    BY <1>1
  <2> QED BY <2>1, <2>2, HandlerSame
<1>4. \A i \in DOMAIN fs :
        fs[i].ypcall => fs[i].old_errfunc = HandlerAt(fs, i - 1)
  BY DEF Handlers
<1>5. \A i \in DOMAIN gs :
        gs[i].ypcall => gs[i].old_errfunc = HandlerAt(gs, i - 1)
  <2> TAKE i \in DOMAIN gs
  <2>1. i \in 1..m /\ i - 1 \in 0..m /\ i \in DOMAIN fs /\ gs[i] = fs[i]
    BY <1>1, <1>2
  <2>2. HandlerAt(gs, i - 1) = HandlerAt(fs, i - 1)
    BY <2>1, <1>3
  <2> QED BY <2>1, <2>2, <1>4
<1>6. HandlerAt(gs, Len(gs)) = HandlerAt(fs, m)
  BY <1>2, <1>3
<1>7. Handlers(gs, HandlerAt(fs, m))
  BY <1>5, <1>6 DEF Handlers
<1> QED BY <1>7

\* Putting a frame on top: a protected call installs its handler and keeps
\* the one before.
LEMMA PushHandlers ==
  ASSUME NEW fs, Stack(fs), NEW ef, Handlers(fs, ef), NEW g \in FrameType,
         g.ypcall => g.old_errfunc = ef
  PROVE  Handlers(Append(fs, g), IF g.ypcall THEN Handler(g) ELSE ef)
<1> PICK gs : gs = Append(fs, g)
  OBVIOUS
<1>1. /\ fs \in Seq(FrameType) /\ Len(fs) \in Nat /\ DOMAIN fs = 1..Len(fs)
  BY StackFacts
<1> PICK n \in Nat : n = Len(fs)
  BY <1>1
<1>2. /\ Len(gs) = n + 1 /\ DOMAIN gs = 1..(n + 1) /\ gs[n + 1] = g
      /\ \A i \in 1..n : gs[i] = fs[i]
  BY <1>1, PushSeq
<1>3. ASSUME NEW k \in 0..n PROVE HandlerAt(gs, k) = HandlerAt(fs, k)
  <2>1. \A i \in 1..k : /\ gs[i].ypcall = fs[i].ypcall
                        /\ gs[i].kind = fs[i].kind /\ gs[i].func = fs[i].func
    BY <1>2
  <2>2. k \in Nat
    BY <1>1
  <2> QED BY <2>1, <2>2, HandlerSame
<1>4. /\ ef = HandlerAt(fs, n)
      /\ \A i \in DOMAIN fs :
           fs[i].ypcall => fs[i].old_errfunc = HandlerAt(fs, i - 1)
  BY DEF Handlers
<1>5. \A i \in DOMAIN gs :
        gs[i].ypcall => gs[i].old_errfunc = HandlerAt(gs, i - 1)
  <2> TAKE i \in DOMAIN gs
  <2>1. CASE i \in 1..n
    <3>1. i - 1 \in 0..n /\ i \in DOMAIN fs /\ gs[i] = fs[i]
      BY <2>1, <1>1, <1>2
    <3>2. HandlerAt(gs, i - 1) = HandlerAt(fs, i - 1)
      BY <3>1, <1>3
    <3> QED BY <3>1, <3>2, <1>4
  <2>2. CASE i = n + 1
    <3>1. HandlerAt(gs, n) = HandlerAt(fs, n)
      BY <1>3
    <3>2. i - 1 = n /\ gs[i] = g
      BY <2>2, <1>2
    <3> QED BY <3>1, <3>2, <1>4
  <2> QED BY <2>1, <2>2, <1>2
<1>6. HandlerAt(gs, n + 1) = IF g.ypcall THEN Handler(g) ELSE ef
  <2>1. CASE g.ypcall
    <3> PICK m \in Nat : m = n + 1
      OBVIOUS
    <3>1. m \in 1..m /\ Innermost(gs, m, m)
      BY <2>1, <1>2 DEF Innermost
    <3>2. HandlerAt(gs, m) = Handler(gs[m])
      BY <3>1, HandlerFacts
    <3> QED BY <3>2, <2>1, <1>2
  <2>2. CASE ~g.ypcall
    <3>1. HandlerAt(gs, n + 1) = HandlerAt(gs, n)
      BY <2>2, <1>2, HandlerSkip
    <3>2. HandlerAt(gs, n) = HandlerAt(fs, n)
      BY <1>3
    <3> QED BY <3>1, <3>2, <2>2, <1>4
  <2> QED BY <2>1, <2>2
<1>7. Handlers(gs, IF g.ypcall THEN Handler(g) ELSE ef)
  BY <1>2, <1>5, <1>6 DEF Handlers
<1> QED BY <1>7

\* Changing what the last frame is doing.
LEMMA SetHandlers ==
  ASSUME NEW fs, Stack(fs), NEW ef, Handlers(fs, ef), NEW g \in FrameType,
         g.kind = fs[Len(fs)].kind, g.func = fs[Len(fs)].func,
         g.ypcall = fs[Len(fs)].ypcall, g.old_errfunc = fs[Len(fs)].old_errfunc
  PROVE  Handlers(SetLast(fs, g), ef)
<1> PICK gs : gs = SetLast(fs, g)
  OBVIOUS
<1>1. /\ fs \in Seq(FrameType) /\ Len(fs) \in Nat /\ DOMAIN fs = 1..Len(fs)
      /\ fs # << >> /\ Len(fs) >= 1
  BY StackFacts
<1> PICK n \in Nat : n = Len(fs)
  BY <1>1
<1>2. /\ Len(gs) = n /\ DOMAIN gs = 1..n /\ gs[n] = g
      /\ \A i \in 1..(n - 1) : gs[i] = fs[i]
  BY <1>1 DEF SetLast
<1>3. \A i \in 1..n : /\ gs[i].ypcall = fs[i].ypcall /\ gs[i].kind = fs[i].kind
                      /\ gs[i].func = fs[i].func
                      /\ gs[i].old_errfunc = fs[i].old_errfunc
  BY <1>1, <1>2
<1>4. ASSUME NEW k \in 0..n PROVE HandlerAt(gs, k) = HandlerAt(fs, k)
  <2>1. \A i \in 1..k : /\ gs[i].ypcall = fs[i].ypcall /\ gs[i].kind = fs[i].kind
                        /\ gs[i].func = fs[i].func
    BY <1>3
  <2> QED BY <2>1, HandlerSame
<1>5. /\ ef = HandlerAt(fs, n)
      /\ \A i \in DOMAIN fs :
           fs[i].ypcall => fs[i].old_errfunc = HandlerAt(fs, i - 1)
  BY DEF Handlers
<1>6. \A i \in DOMAIN gs :
        gs[i].ypcall => gs[i].old_errfunc = HandlerAt(gs, i - 1)
  <2> TAKE i \in DOMAIN gs
  <2>1. i - 1 \in 0..n /\ i \in DOMAIN fs /\ i \in 1..n
    BY <1>1, <1>2
  <2>2. HandlerAt(gs, i - 1) = HandlerAt(fs, i - 1)
    BY <2>1, <1>4
  <2> QED BY <2>1, <2>2, <1>3, <1>5
<1>7. ef = HandlerAt(gs, n)
  BY <1>4, <1>5
<1>8. Handlers(gs, ef)
  BY <1>2, <1>6, <1>7 DEF Handlers
<1> QED BY <1>8
-----------------------------------------------------------------------------
\* A variable in scope lies between the function of its frame and the last
\* of its locals.
LEMMA LiveSlot ==
  ASSUME NEW f \in FrameType, NEW slot \in Nat, NEW var, LiveAt(f, slot, var)
  PROVE  f.func < slot /\ slot <= Last(f) /\ f.locals # << >>
<1>1. f.locals \in Seq(Nat) /\ f.func \in Nat
  BY DEF FrameType
<1>2. slot - f.func \in 1..Len(f.locals)
  BY <1>1 DEF LiveAt
<1> QED BY <1>1, <1>2 DEF Last

\* Frames lie above one another.
LEMMA Apart ==
  ASSUME NEW fs, Stack(fs), NEW i \in DOMAIN fs, NEW j \in DOMAIN fs, i < j
  PROVE  /\ Last(fs[i]) < fs[j].func /\ fs[i].func <= Last(fs[i])
         /\ fs[i].func \in Nat /\ fs[j].func \in Nat /\ Last(fs[i]) \in Nat
         /\ fs[i].u2 \in Nat /\ (fs[i].ypcall => fs[i].u2 <= fs[j].func)
         /\ fs[i].func < fs[j].func
<1>1. Under(fs[i], fs[j])
  BY DEF Stack
<1>2. fs[i] \in FrameType /\ fs[j] \in FrameType
  BY StackFacts
<1>3. fs[i].locals \in Seq(Nat) /\ fs[i].func \in Nat /\ fs[j].func \in Nat
      /\ fs[i].u2 \in Nat
  BY <1>2 DEF FrameType
<1> QED BY <1>1, <1>3 DEF Under, Last

\* A frame is pushed above the variables that wait to be closed.
LEMMA PushClose ==
  ASSUME NEW fs, Stack(fs), NEW tbc, ToClose(fs, tbc), NEW g \in FrameType,
         \A t \in In(tbc) : t.slot < g.func
  PROVE  ToClose(Append(fs, g), tbc)
<1> PICK gs : gs = Append(fs, g)
  OBVIOUS
<1>1. /\ fs \in Seq(FrameType) /\ Len(fs) \in Nat /\ DOMAIN fs = 1..Len(fs)
  BY StackFacts
<1> PICK n \in Nat : n = Len(fs)
  BY <1>1
<1>2. /\ Len(gs) = n + 1 /\ DOMAIN gs = 1..(n + 1) /\ gs[n + 1] = g
      /\ \A i \in 1..n : gs[i] = fs[i]
  BY <1>1, PushSeq
<1>3. ASSUME NEW t \in In(tbc)
      PROVE  \/ LiveIn(gs, t.slot, t.var)
             \/ \E k \in DOMAIN gs : Unwinds(gs, k, t.slot)
  <2>1. CASE LiveIn(fs, t.slot, t.var)
    BY <2>1, <1>1, <1>2 DEF LiveIn
  <2>2. ASSUME NEW k \in DOMAIN fs, Unwinds(fs, k, t.slot) PROVE Unwinds(gs, k, t.slot)
    BY <2>2, <1>1, <1>2 DEF Unwinds
  <2>3. DOMAIN fs \subseteq DOMAIN gs
    BY <1>1, <1>2
  <2> QED BY <2>1, <2>2, <2>3 DEF ToClose
<1>4. ToClose(gs, tbc)
  BY <1>3 DEF ToClose
<1> QED BY <1>4

\* The open upvalues stay where they are when a frame is put on top.
LEMMA PushUpvalues ==
  ASSUME NEW fs, Stack(fs), NEW ups, Upvalues(fs, ups), NEW g \in FrameType,
         g.doing = "run", \A u \in In(ups) : LiveIn(fs, u.slot, u.var)
  PROVE  Upvalues(Append(fs, g), ups)
<1> PICK gs : gs = Append(fs, g)
  OBVIOUS
<1>1. /\ fs \in Seq(FrameType) /\ Len(fs) \in Nat /\ DOMAIN fs = 1..Len(fs)
  BY StackFacts
<1> PICK n \in Nat : n = Len(fs)
  BY <1>1
<1>2. /\ DOMAIN gs = 1..(n + 1) /\ gs[n + 1] = g
      /\ \A i \in 1..n : gs[i] = fs[i]
  BY <1>1, PushSeq
<1>3. \A u \in In(ups) : LiveIn(gs, u.slot, u.var)
  BY <1>1, <1>2 DEF LiveIn
<1>4. \A i \in DOMAIN gs : gs[i].doing # "run" => i \in DOMAIN fs /\ gs[i] = fs[i]
  BY <1>1, <1>2
<1>5. \A i \in DOMAIN gs : gs[i].doing # "run" =>
        \A u \in In(ups) : ClosedTo(gs[i]) <= u.slot => Last(gs[i]) < u.slot
  BY <1>4 DEF Upvalues
<1>6. Upvalues(gs, ups)
  BY <1>3, <1>5 DEF Upvalues
<1> QED BY <1>6

\* A frame is left when nothing in it waits to be closed.
LEMMA PopClose ==
  ASSUME NEW fs, Stack(fs), Len(fs) > 1, NEW tbc, ToClose(fs, tbc),
         \A t \in In(tbc) : /\ ~LiveAt(fs[Len(fs)], t.slot, t.var)
                            /\ ~Unwinds(fs, Len(fs), t.slot)
  PROVE  ToClose(SubSeq(fs, 1, Len(fs) - 1), tbc)
<1>1. /\ fs \in Seq(FrameType) /\ Len(fs) \in Nat /\ DOMAIN fs = 1..Len(fs)
  BY StackFacts
<1> PICK n \in Nat : n = Len(fs)
  BY <1>1
<1> PICK gs : gs = SubSeq(fs, 1, n - 1)
  OBVIOUS
<1>2. /\ DOMAIN gs = 1..(n - 1) /\ \A i \in 1..(n - 1) : gs[i] = fs[i]
  BY <1>1, PrefixSeq
<1>3. ASSUME NEW t \in In(tbc)
      PROVE  \/ LiveIn(gs, t.slot, t.var)
             \/ \E k \in DOMAIN gs : Unwinds(gs, k, t.slot)
  <2>1. CASE LiveIn(fs, t.slot, t.var)
    <3>1. PICK k \in DOMAIN fs : LiveAt(fs[k], t.slot, t.var)
      BY <2>1 DEF LiveIn
    <3>2. k \in DOMAIN gs /\ LiveAt(gs[k], t.slot, t.var)
      BY <3>1, <1>1, <1>2
    <3> QED BY <3>2 DEF LiveIn
  <2>2. ASSUME NEW k \in DOMAIN fs, Unwinds(fs, k, t.slot)
        PROVE  k \in DOMAIN gs /\ Unwinds(gs, k, t.slot)
    <3>1. k # n
      BY <2>2
    <3>2. k \in DOMAIN gs
      BY <3>1, <1>1, <1>2
    <3> QED BY <2>2, <3>2, <1>1, <1>2 DEF Unwinds
  <2> QED BY <2>1, <2>2 DEF ToClose
<1>4. ToClose(gs, tbc)
  BY <1>3 DEF ToClose
<1> QED BY <1>4

\* Those of a frame that leaves have been closed.
LEMMA PopUpvalues ==
  ASSUME NEW fs, Stack(fs), Len(fs) > 1, NEW ups, Upvalues(fs, ups),
         \A u \in In(ups) : /\ LiveIn(fs, u.slot, u.var)
                            /\ ~LiveAt(fs[Len(fs)], u.slot, u.var)
  PROVE  Upvalues(SubSeq(fs, 1, Len(fs) - 1), ups)
<1>1. /\ fs \in Seq(FrameType) /\ Len(fs) \in Nat /\ DOMAIN fs = 1..Len(fs)
  BY StackFacts
<1> PICK n \in Nat : n = Len(fs)
  BY <1>1
<1> PICK gs : gs = SubSeq(fs, 1, n - 1)
  OBVIOUS
<1>2. /\ DOMAIN gs = 1..(n - 1) /\ \A i \in 1..(n - 1) : gs[i] = fs[i]
  BY <1>1, PrefixSeq
<1>3. ASSUME NEW u \in In(ups) PROVE LiveIn(gs, u.slot, u.var)
  <2>1. PICK k \in DOMAIN fs : LiveAt(fs[k], u.slot, u.var)
    BY DEF LiveIn
  <2>2. k \in DOMAIN gs /\ LiveAt(gs[k], u.slot, u.var)
    BY <2>1, <1>1, <1>2
  <2> QED BY <2>2 DEF LiveIn
<1>4. \A i \in DOMAIN gs : i \in DOMAIN fs /\ gs[i] = fs[i]
  BY <1>1, <1>2
<1>5. \A i \in DOMAIN gs : gs[i].doing # "run" =>
        \A u \in In(ups) : ClosedTo(gs[i]) <= u.slot => Last(gs[i]) < u.slot
  BY <1>4 DEF Upvalues
<1>6. Upvalues(gs, ups)
  BY <1>3, <1>5 DEF Upvalues
<1> QED BY <1>6

\* The last frame changes what it is doing and its locals, and keeps those
\* that wait to be closed or are open.
LEMMA SetClose ==
  ASSUME NEW fs, Stack(fs), NEW tbc, ToClose(fs, tbc), NEW g \in FrameType,
         g.func = fs[Len(fs)].func, g.recst = fs[Len(fs)].recst,
         g.recst => g.u2 = fs[Len(fs)].u2,
         \A t \in In(tbc) : LiveAt(fs[Len(fs)], t.slot, t.var)
                              => LiveAt(g, t.slot, t.var)
  PROVE  ToClose(SetLast(fs, g), tbc)
<1> PICK gs : gs = SetLast(fs, g)
  OBVIOUS
<1>1. /\ fs \in Seq(FrameType) /\ Len(fs) \in Nat /\ DOMAIN fs = 1..Len(fs)
      /\ fs # << >> /\ Len(fs) >= 1
  BY StackFacts
<1> PICK n \in Nat : n = Len(fs)
  BY <1>1
<1>2. /\ DOMAIN gs = 1..n /\ gs[n] = g /\ \A i \in 1..(n - 1) : gs[i] = fs[i]
  BY <1>1 DEF SetLast
<1>3. ASSUME NEW t \in In(tbc)
      PROVE  \/ LiveIn(gs, t.slot, t.var)
             \/ \E k \in DOMAIN gs : Unwinds(gs, k, t.slot)
  <2>1. CASE LiveIn(fs, t.slot, t.var)
    <3>1. PICK k \in DOMAIN fs : LiveAt(fs[k], t.slot, t.var)
      BY <2>1 DEF LiveIn
    <3>2. k \in DOMAIN gs /\ LiveAt(gs[k], t.slot, t.var)
      BY <3>1, <1>1, <1>2
    <3> QED BY <3>2 DEF LiveIn
  <2>2. ASSUME NEW k \in DOMAIN fs, Unwinds(fs, k, t.slot)
        PROVE  k \in DOMAIN gs /\ Unwinds(gs, k, t.slot)
    <3>1. \A i \in DOMAIN gs : gs[i].func = fs[i].func
      BY <1>1, <1>2
    <3>2. gs[k].recst = fs[k].recst /\ (gs[k].recst => gs[k].u2 = fs[k].u2)
      BY <1>1, <1>2
    <3> QED BY <2>2, <3>1, <3>2, <1>1, <1>2 DEF Unwinds
  <2> QED BY <2>1, <2>2 DEF ToClose
<1>4. ToClose(gs, tbc)
  BY <1>3 DEF ToClose
<1> QED BY <1>4

\* They stay open while the frame goes on with its variables.
LEMMA SetUpvalues ==
  ASSUME NEW fs, Stack(fs), NEW ups, Upvalues(fs, ups), NEW g \in FrameType,
         g.recst = fs[Len(fs)].recst, g.recst => g.u2 = fs[Len(fs)].u2,
         \A u \in In(ups) : LiveAt(fs[Len(fs)], u.slot, u.var)
                              => LiveAt(g, u.slot, u.var),
         g.doing # "run" =>
           \A u \in In(ups) : ClosedTo(g) <= u.slot => Last(g) < u.slot
  PROVE  Upvalues(SetLast(fs, g), ups)
<1> PICK gs : gs = SetLast(fs, g)
  OBVIOUS
<1>1. /\ fs \in Seq(FrameType) /\ Len(fs) \in Nat /\ DOMAIN fs = 1..Len(fs)
      /\ fs # << >> /\ Len(fs) >= 1
  BY StackFacts
<1> PICK n \in Nat : n = Len(fs)
  BY <1>1
<1>2. /\ DOMAIN gs = 1..n /\ gs[n] = g /\ \A i \in 1..(n - 1) : gs[i] = fs[i]
      /\ Len(gs) = n
  BY <1>1 DEF SetLast
<1>3. ASSUME NEW u \in In(ups), LiveIn(fs, u.slot, u.var)
      PROVE  LiveIn(gs, u.slot, u.var)
  <2>1. PICK k \in DOMAIN fs : LiveAt(fs[k], u.slot, u.var)
    BY <1>3 DEF LiveIn
  <2>2. k \in DOMAIN gs /\ LiveAt(gs[k], u.slot, u.var)
    BY <2>1, <1>1, <1>2
  <2> QED BY <2>2 DEF LiveIn
<1>4. \A u \in In(ups) : \/ LiveIn(gs, u.slot, u.var)
                         \/ gs[Len(gs)].recst /\ gs[Len(gs)].u2 <= u.slot
  BY <1>2, <1>3 DEF Upvalues
<1>5. \A i \in DOMAIN gs : gs[i].doing # "run" =>
        \A u \in In(ups) : ClosedTo(gs[i]) <= u.slot => Last(gs[i]) < u.slot
  <2>1. \A i \in DOMAIN gs : i = n \/ (i \in DOMAIN fs /\ gs[i] = fs[i])
    BY <1>1, <1>2
  <2> QED BY <2>1, <1>2 DEF Upvalues
<1>6. Upvalues(gs, ups)
  BY <1>4, <1>5 DEF Upvalues
<1> QED BY <1>6
-----------------------------------------------------------------------------
\* luaF_closeupval unlinks the upvalues from its level up.
LEMMA BelowFacts ==
  ASSUME NEW ups \in Seq(Variable), Sorted(ups, Byslot), NEW level
  PROVE  /\ Below(ups, level) \in Seq(Variable) /\ Sorted(Below(ups, level), Byslot)
         /\ In(Below(ups, level)) = { u \in In(ups) : u.slot < level }
         /\ Above(ups, level) \in Seq(Variable) /\ Sorted(Above(ups, level), Byslot)
         /\ In(Above(ups, level)) = { u \in In(ups) : u.slot > level }
<1> DEFINE B == { u \in In(ups) : u.slot < level }
           A == { u \in In(ups) : u.slot > level }
<1>1. /\ Keep(ups, B) \in Seq(Variable) /\ In(Keep(ups, B)) = In(ups) \cap B
      /\ Keep(ups, A) \in Seq(Variable) /\ In(Keep(ups, A)) = In(ups) \cap A
  BY KeepFacts
<1>2. Sorted(Keep(ups, B), Byslot) /\ Sorted(Keep(ups, A), Byslot)
  BY SortedKeep
<1>3. Below(ups, level) = Keep(ups, B) /\ Above(ups, level) = Keep(ups, A)
  BY DEF Below, Above
<1> QED BY <1>1, <1>2, <1>3

\* Closing upvalues breaks nothing about the others.
LEMMA BelowUpvalues ==
  ASSUME NEW fs, NEW ups, Upvalues(fs, ups), NEW level
  PROVE  /\ Upvalues(fs, Below(ups, level))
         /\ \A u \in In(Below(ups, level)) : u \in In(ups) /\ u.slot < level
<1>1. ups \in Seq(Variable) /\ Sorted(ups, Byslot)
  BY DEF Upvalues
<1> PICK bs : bs = Below(ups, level)
  OBVIOUS
<1>2. bs \in Seq(Variable) /\ Sorted(bs, Byslot)
      /\ In(bs) = { u \in In(ups) : u.slot < level }
  BY <1>1, BelowFacts
<1>3. \A u \in In(bs) : u \in In(ups) /\ u.slot < level
  BY <1>2
<1>4. Upvalues(fs, bs)
  BY <1>2, <1>3 DEF Upvalues
<1> QED BY <1>3, <1>4

\* What waits in a list is a variable.
LEMMA ListTypes ==
  ASSUME NEW s \in Seq(Variable), NEW t \in In(s)
  PROVE  t \in Variable /\ t.slot \in Nat /\ t.var \in Nat
<1>1. t \in Variable
  BY InType
<1> QED BY <1>1 DEF Variable
-----------------------------------------------------------------------------
(* An error with its object at t: every variable that waits to be closed,   *)
(* and every open upvalue, is then in scope below the protected call that   *)
(* catches it or waits for that call to unwind it.                          *)
Catch(fs, at) == SetLast(SubSeq(fs, 1, at), [fs[at] EXCEPT !.recst = TRUE])

\* The frames left by an error: the innermost protected call is the last.
LEMMA Caught ==
  ASSUME NEW fs, Stack(fs), NEW ef, Handlers(fs, ef), NEW tbc, ToClose(fs, tbc),
         NEW ups, Upvalues(fs, ups), NEW at, Innermost(fs, Len(fs), at),
         NEW gs, gs = Catch(fs, at)
  PROVE  Stack(gs) /\ Handlers(gs, ef) /\ ToClose(gs, tbc) /\ Upvalues(gs, ups)
<1>1. /\ fs \in Seq(FrameType) /\ Len(fs) \in Nat /\ DOMAIN fs = 1..Len(fs)
      /\ Len(fs) >= 1
  BY StackFacts
<1> PICK n \in Nat : n = Len(fs)
  BY <1>1
<1>2. /\ at \in 1..n /\ fs[at].ypcall
      /\ \A j \in 1..n : fs[j].ypcall => j <= at
  BY DEF Innermost
<1>3. fs[at] \in FrameType /\ Proper(fs[at])
  BY <1>1, <1>2, StackFacts
<1>4. at > 1
  <2>1. fs[1].kind = "base"
    BY DEF Stack
  <2>2. fs[at].kind \in {"pcall", "xpcall"}
    BY <1>2, <1>3 DEF Proper
  <2> QED BY <1>2, <2>1, <2>2
<1> PICK ps : ps = SubSeq(fs, 1, at)
  OBVIOUS
<1>5. ps \in Seq(FrameType) /\ Len(ps) = at /\ DOMAIN ps = 1..at
      /\ \A i \in 1..at : ps[i] = fs[i]
  BY <1>1, <1>2, PrefixSeq
<1>6. Stack(ps)
  BY <1>1, <1>2, PrefixStack
<1>7. Handlers(ps, HandlerAt(fs, at))
  BY <1>1, <1>2, PrefixHandlers
<1>8. HandlerAt(fs, at) = ef
  <2>1. Innermost(fs, at, at)
    BY <1>2 DEF Innermost
  <2>2. HandlerAt(fs, at) = Handler(fs[at])
    BY <2>1, <1>2, HandlerFacts
  <2>3. HandlerAt(fs, n) = Handler(fs[at])
    BY <1>2, HandlerFacts
  <2>4. ef = HandlerAt(fs, n)
    BY DEF Handlers
  <2> QED BY <2>2, <2>3, <2>4
<1>9. PICK g : /\ g \in FrameType /\ g.recst /\ g.kind = fs[at].kind
              /\ g.func = fs[at].func /\ g.ypcall = fs[at].ypcall
              /\ g.old_errfunc = fs[at].old_errfunc /\ g.locals = fs[at].locals
              /\ g.doing = fs[at].doing /\ g.u2 = fs[at].u2 /\ g.top = fs[at].top
              /\ gs = SetLast(ps, g)
  <2> DEFINE g == [fs[at] EXCEPT !.recst = TRUE]
  <2>1. /\ g \in FrameType /\ g.recst /\ g.kind = fs[at].kind
        /\ g.func = fs[at].func /\ g.ypcall = fs[at].ypcall
        /\ g.old_errfunc = fs[at].old_errfunc /\ g.locals = fs[at].locals
        /\ g.doing = fs[at].doing /\ g.u2 = fs[at].u2 /\ g.top = fs[at].top
    BY <1>3 DEF FrameType
  <2>2. gs = SetLast(ps, g)
    BY DEF Catch
  <2> HIDE DEF g
  <2> QED BY <2>1, <2>2
<1>10. Proper(g)
  BY <1>2, <1>3, <1>9 DEF Proper
<1>11. gs = SetLast(ps, g) /\ ps[Len(ps)] = fs[at] /\ at \in Nat
  BY <1>2, <1>5, <1>9
<1>12. Stack(gs)
  BY <1>2, <1>4, <1>5, <1>6, <1>9, <1>10, <1>11, SetStack
<1>13. Handlers(gs, ef)
  BY <1>6, <1>7, <1>8, <1>9, <1>11, SetHandlers
<1>14. DOMAIN gs = 1..at /\ gs[at] = g /\ Len(gs) = at
       /\ \A i \in 1..(at - 1) : gs[i] = fs[i]
  <2>1. gs = [ps EXCEPT ![at] = g] /\ at \in 1..at
    BY <1>2, <1>5, <1>11 DEF SetLast
  <2>2. gs \in Seq(FrameType) /\ Len(gs) = at
    BY <2>1, <1>5, <1>9
  <2>3. DOMAIN gs = 1..at /\ gs[at] = g /\ \A i \in 1..(at - 1) : gs[i] = fs[i]
    <3>1. DOMAIN gs = DOMAIN ps /\ gs[at] = g
      BY <2>1, <1>5
    <3>2. ASSUME NEW i \in 1..(at - 1) PROVE gs[i] = ps[i] /\ i \in 1..at
      <4>1. at \in Nat
        BY <1>11
      <4>2. i \in 1..at /\ i # at
        BY <4>1
      <4>3. i \in DOMAIN ps
        BY <4>2, <1>5
      <4> QED BY <2>1, <4>2, <4>3
    <3> QED BY <3>1, <3>2, <1>5
  <2> QED BY <2>2, <2>3
<1>15. g.u2 \in Nat /\ g.func \in Nat /\ g.func < g.u2
       /\ \A k \in 1..n : k > at => g.u2 <= fs[k].func /\ fs[k].func \in Nat
  <2>1. g.u2 \in Nat /\ g.func \in Nat
    BY <1>9 DEF FrameType
  <2>2. ASSUME NEW k \in 1..n, k > at PROVE g.u2 <= fs[k].func /\ fs[k].func \in Nat
    BY <2>2, <1>1, <1>2, <1>9, Apart
  <2>3. g.func < g.u2
    BY <1>2, <1>3, <1>9 DEF Proper
  <2> QED BY <2>1, <2>2, <2>3
<1>16. ASSUME NEW slot \in Nat, NEW var, NEW k \in DOMAIN fs,
              LiveAt(fs[k], slot, var)
       PROVE  LiveIn(gs, slot, var) \/ g.u2 <= slot
  <2>1. CASE k < at
    <3>1. k \in DOMAIN gs /\ gs[k] = fs[k]
      BY <2>1, <1>1, <1>2, <1>14
    <3> QED BY <3>1, <1>16 DEF LiveIn
  <2>2. CASE k = at
    <3>1. LiveAt(g, slot, var)
      BY <2>2, <1>9, <1>16 DEF LiveAt
    <3>2. at \in DOMAIN gs
      BY <1>2, <1>14
    <3> QED BY <3>1, <3>2, <1>14 DEF LiveIn
  <2>3. CASE k > at
    <3>1. fs[k] \in FrameType
      BY <1>1, StackFacts
    <3>2. fs[k].func < slot
      BY <3>1, <1>16, LiveSlot
    <3>3. g.u2 <= fs[k].func /\ fs[k].func \in Nat
      BY <2>3, <1>1, <1>15
    <3> QED BY <3>2, <3>3, <1>15
  <2> QED BY <2>1, <2>2, <2>3, <1>1, <1>2
<1>17. ToClose(gs, tbc)
  <2>1. tbc \in Seq(Variable)
    BY DEF ToClose
  <2>2. ASSUME NEW t \in In(tbc)
        PROVE  \/ LiveIn(gs, t.slot, t.var)
               \/ \E k \in DOMAIN gs : Unwinds(gs, k, t.slot)
    <3>1. t.slot \in Nat
      BY <2>1, ListTypes
    <3>2. ASSUME g.u2 <= t.slot PROVE Unwinds(gs, at, t.slot) /\ at \in DOMAIN gs
      BY <3>2, <1>2, <1>9, <1>14 DEF Unwinds
    <3>3. CASE LiveIn(fs, t.slot, t.var)
      <4>1. PICK k \in DOMAIN fs : LiveAt(fs[k], t.slot, t.var)
        BY <3>3 DEF LiveIn
      <4> QED BY <4>1, <3>1, <3>2, <1>16
    <3>4. ASSUME NEW k \in DOMAIN fs, Unwinds(fs, k, t.slot)
          PROVE  \E h \in DOMAIN gs : Unwinds(gs, h, t.slot)
      <4>1. fs[k].recst /\ fs[k].u2 <= t.slot
            /\ \A j \in DOMAIN fs : k < j => t.slot < fs[j].func
        BY <3>4 DEF Unwinds
      <4>2. Proper(fs[k])
        BY <1>1, StackFacts
      <4>3. k <= at
        BY <4>1, <4>2, <1>1, <1>2 DEF Proper
      <4>4. CASE k = at
        BY <4>1, <4>4, <3>2, <1>9
      <4>5. CASE k < at
        <5>1. k \in DOMAIN gs /\ gs[k] = fs[k]
          BY <4>5, <1>1, <1>2, <1>14
        <5>2. \A j \in DOMAIN gs : j \in DOMAIN fs /\ gs[j].func = fs[j].func
          BY <1>1, <1>2, <1>9, <1>14
        <5>3. Unwinds(gs, k, t.slot)
          BY <4>1, <5>1, <5>2 DEF Unwinds
        <5> QED BY <5>1, <5>3
      <4> QED BY <4>3, <4>4, <4>5, <1>1, <1>2
    <3> QED BY <3>3, <3>4 DEF ToClose
  <2> QED BY <2>2 DEF ToClose
<1>18. Upvalues(gs, ups)
  <2>1. ups \in Seq(Variable)
    BY DEF Upvalues
  <2>2. ASSUME NEW u \in In(ups)
        PROVE  \/ LiveIn(gs, u.slot, u.var)
               \/ gs[Len(gs)].recst /\ gs[Len(gs)].u2 <= u.slot
    <3>1. u.slot \in Nat
      BY <2>1, ListTypes
    <3>2. gs[Len(gs)] = g
      BY <1>14
    <3>3. CASE LiveIn(fs, u.slot, u.var)
      <4>1. PICK k \in DOMAIN fs : LiveAt(fs[k], u.slot, u.var)
        BY <3>3 DEF LiveIn
      <4>2. LiveIn(gs, u.slot, u.var) \/ g.u2 <= u.slot
        BY <4>1, <3>1, <1>16
      <4> QED BY <4>2, <3>2, <1>9
    <3>4. CASE fs[n].recst /\ fs[n].u2 <= u.slot
      <4>1. Proper(fs[n])
        BY <1>1, StackFacts
      <4>2. n <= at
        BY <4>1, <3>4, <1>1, <1>2 DEF Proper
      <4>3. n = at
        BY <4>2, <1>2
      <4> QED BY <4>3, <3>4, <3>2, <1>9
    <3> QED BY <3>3, <3>4 DEF Upvalues
  <2>3. \A i \in DOMAIN gs : gs[i].doing # "run" =>
          \A u \in In(ups) : ClosedTo(gs[i]) <= u.slot => Last(gs[i]) < u.slot
    <3>1. \A i \in DOMAIN gs :
            /\ i \in DOMAIN fs /\ gs[i].doing = fs[i].doing
            /\ gs[i].func = fs[i].func /\ gs[i].locals = fs[i].locals
      BY <1>1, <1>2, <1>9, <1>14
    <3>2. \A i \in DOMAIN gs : ClosedTo(gs[i]) = ClosedTo(fs[i])
                               /\ Last(gs[i]) = Last(fs[i])
      BY <3>1 DEF ClosedTo, Last
    <3>3. \A i \in DOMAIN fs : fs[i].doing # "run" =>
            \A u \in In(ups) : ClosedTo(fs[i]) <= u.slot => Last(fs[i]) < u.slot
      BY DEF Upvalues
    <3> QED BY <3>1, <3>2, <3>3
  <2> QED BY <2>1, <2>2, <2>3 DEF Upvalues
<1> QED BY <1>12, <1>13, <1>17, <1>18

\* Without one the frames stay, and the last makes room for the error object.
LEMMA Dies ==
  ASSUME NEW fs, Stack(fs), Len(fs) > 1, NEW ef, Handlers(fs, ef), NEW tbc,
         ToClose(fs, tbc), NEW ups, Upvalues(fs, ups), NEW limit \in Nat,
         NEW gs, gs = SetLast(fs, [fs[Len(fs)] EXCEPT !.top = limit])
  PROVE  /\ Stack(gs) /\ Handlers(gs, ef) /\ ToClose(gs, tbc) /\ Upvalues(gs, ups)
         /\ Len(gs) = Len(fs) /\ DOMAIN gs = DOMAIN fs /\ gs[Len(fs)].top = limit
         /\ \A i \in DOMAIN fs : gs[i].ypcall = fs[i].ypcall /\ gs[i].recst = fs[i].recst
         /\ \A i \in DOMAIN fs : i # Len(fs) => gs[i] = fs[i]
<1>1. /\ fs \in Seq(FrameType) /\ Len(fs) \in Nat /\ DOMAIN fs = 1..Len(fs)
      /\ Len(fs) >= 1 /\ fs # << >> /\ fs[Len(fs)] \in FrameType
      /\ Proper(fs[Len(fs)])
  BY StackFacts
<1> PICK n \in Nat : n = Len(fs)
  BY <1>1
<1>2. PICK g : /\ g \in FrameType /\ g.recst = fs[n].recst /\ g.kind = fs[n].kind
               /\ g.func = fs[n].func /\ g.ypcall = fs[n].ypcall
               /\ g.old_errfunc = fs[n].old_errfunc /\ g.locals = fs[n].locals
               /\ g.doing = fs[n].doing /\ g.u2 = fs[n].u2 /\ g.top = limit
               /\ gs = SetLast(fs, g)
  <2> DEFINE g == [fs[n] EXCEPT !.top = limit]
  <2>1. /\ g \in FrameType /\ g.recst = fs[n].recst /\ g.kind = fs[n].kind
        /\ g.func = fs[n].func /\ g.ypcall = fs[n].ypcall
        /\ g.old_errfunc = fs[n].old_errfunc /\ g.locals = fs[n].locals
        /\ g.doing = fs[n].doing /\ g.u2 = fs[n].u2 /\ g.top = limit
    BY <1>1 DEF FrameType
  <2>2. gs = SetLast(fs, g)
    OBVIOUS
  <2> HIDE DEF g
  <2> QED BY <2>1, <2>2
<1>3. Proper(g)
  BY <1>1, <1>2 DEF Proper
<1>4. Stack(gs)
  BY <1>2, <1>3, SetStack
<1>5. Handlers(gs, ef)
  BY <1>2, SetHandlers
<1>6. \A slot, var : LiveAt(fs[n], slot, var) => LiveAt(g, slot, var)
  BY <1>2 DEF LiveAt
<1>7. ToClose(gs, tbc)
  BY <1>2, <1>6, SetClose
<1>8. g.doing # "run" =>
        \A u \in In(ups) : ClosedTo(g) <= u.slot => Last(g) < u.slot
  <2>1. ClosedTo(g) = ClosedTo(fs[n]) /\ Last(g) = Last(fs[n])
    BY <1>2 DEF ClosedTo, Last
  <2>2. n \in DOMAIN fs
    BY <1>1
  <2>3. fs[n].doing # "run" =>
          \A u \in In(ups) : ClosedTo(fs[n]) <= u.slot => Last(fs[n]) < u.slot
    BY <2>2 DEF Upvalues
  <2> QED BY <1>2, <2>1, <2>3
<1>9. Upvalues(gs, ups)
  BY <1>2, <1>6, <1>8, SetUpvalues
<1>10. Len(gs) = n /\ DOMAIN gs = DOMAIN fs /\ gs[n] = g
       /\ \A i \in DOMAIN fs : i # n => gs[i] = fs[i]
  BY <1>1, <1>2 DEF SetLast
<1>11. \A i \in DOMAIN fs : gs[i].ypcall = fs[i].ypcall /\ gs[i].recst = fs[i].recst
  BY <1>2, <1>10
<1> QED BY <1>2, <1>4, <1>5, <1>7, <1>9, <1>10, <1>11

(* Whatever catches the error, the chain of calls it leaves is in order.    *)
LEMMA ThrowKeeps ==
  ASSUME NEW fs, Stack(fs), Len(fs) > 1, NEW ef, Handlers(fs, ef),
         NEW tbc, ToClose(fs, tbc), NEW ups, Upvalues(fs, ups),
         NEW sz \in Nat, NEW t \in Nat,
         fs[Len(fs)].ypcall \/ t + 1 <= sz + ExtraStack,
         Fit(fs, "OK", t, sz),
         \A v \in In(tbc) : v.slot < t /\ v.slot < sz,
         status = "OK", running = TRUE, Throw(fs, t)
  PROVE  Chain(frames', ef, status', running', top', sz, tbc, ups)
<1>1. /\ fs \in Seq(FrameType) /\ Len(fs) \in Nat /\ DOMAIN fs = 1..Len(fs)
      /\ Len(fs) >= 1
  BY StackFacts
<1> PICK n \in Nat : n = Len(fs)
  BY <1>1
<1>2. \A i \in DOMAIN fs : /\ fs[i].top <= sz
                           /\ fs[i].kind = "lua" => fs[i].top = fs[i].func + 1 + FrameSize
  BY DEF Fit
<1>3. ExtraStack \in Nat
  BY ThreadAssumption
<1> DEFINE calls == { i \in DOMAIN fs : fs[i].ypcall }
           top0 == CHOOSE i \in calls : \A j \in calls : j <= i
<1>4. CASE \A i \in 1..n : ~fs[i].ypcall
  <2>1. calls = {}
    BY <1>1, <1>4
  <2>2. /\ frames' = [fs EXCEPT ![Len(fs)].top = t + 1] /\ top' = t
        /\ status' = "ERR" /\ running' = FALSE
    BY <2>1 DEF Throw
  <2>3. frames' = SetLast(fs, [fs[Len(fs)] EXCEPT !.top = t + 1])
    BY <2>2 DEF SetLast
  <2> PICK gs : gs = frames'
    OBVIOUS
  <2>4. /\ Stack(gs) /\ Handlers(gs, ef) /\ ToClose(gs, tbc) /\ Upvalues(gs, ups)
        /\ Len(gs) = Len(fs) /\ DOMAIN gs = DOMAIN fs /\ gs[Len(fs)].top = t + 1
        /\ \A i \in DOMAIN fs : gs[i].ypcall = fs[i].ypcall /\ gs[i].recst = fs[i].recst
        /\ \A i \in DOMAIN fs : i # Len(fs) => gs[i] = fs[i]
    <3> PICK lim \in Nat : lim = t + 1
      OBVIOUS
    <3>1. gs = SetLast(fs, [fs[Len(fs)] EXCEPT !.top = lim])
      BY <2>3
    <3> QED BY <3>1, Dies
  <2>5. \A i \in DOMAIN gs : ~gs[i].ypcall
    BY <1>1, <1>4, <2>4
  <2>6. Status(gs, status', running', top')
    BY <2>2, <2>5 DEF Status
  <2>7. Fit(gs, status', top', sz)
    <3>0. t + 1 <= sz + ExtraStack /\ t <= sz + ExtraStack
      <4>1. ~fs[Len(fs)].ypcall
        BY <1>1, <1>4
      <4>2. t <= sz + ExtraStack
        BY DEF Fit
      <4> QED BY <4>1, <4>2
    <3>1. \A i \in DOMAIN gs : gs[i].top <= sz + ExtraStack
      <4> TAKE i \in DOMAIN gs
      <4>1. CASE i = Len(fs)
        BY <4>1, <2>4, <3>0
      <4>2. CASE i # Len(fs)
        <5>1. gs[i] = fs[i] /\ fs[i].top <= sz /\ fs[i] \in FrameType
          BY <4>2, <2>4, <1>1, <1>2, StackFacts
        <5>2. fs[i].top \in Nat
          BY <5>1 DEF FrameType
        <5> QED BY <5>1, <5>2, <1>3
      <4> QED BY <4>1, <4>2
    <3> QED BY <3>0, <3>1, <2>2, <1>3 DEF Fit
  <2>8. ~gs[Len(gs)].recst
    <3>1. Proper(gs[Len(gs)]) /\ Len(gs) \in DOMAIN gs
      BY <2>4, StackFacts
    <3> QED BY <3>1, <2>5 DEF Proper
  <2>9. ValuesKept(gs, tbc, top', sz)
    BY <2>8 DEF ValuesKept
  <2>10. Chain(gs, ef, status', running', top', sz, tbc, ups)
    BY <2>4, <2>6, <2>7, <2>9 DEF Chain
  <2> QED BY <2>10
<1>5. CASE ~ \A i \in 1..n : ~fs[i].ypcall
  <2>1. PICK at \in 1..n : Innermost(fs, n, at)
    BY <1>5, HasInnermost
  <2>2. top0 = at /\ calls # {}
    <3>1. at \in calls /\ \A j \in calls : j <= at
      BY <2>1, <1>1 DEF Innermost
    <3>2. top0 \in calls /\ \A j \in calls : j <= top0
      BY <3>1
    <3>3. top0 \in 1..n
      BY <3>2, <1>1
    <3> HIDE DEF top0
    <3>4. top0 <= at /\ at <= top0
      BY <3>1, <3>2
    <3> QED BY <3>1, <3>3, <3>4
  <2>3. /\ frames' = [SubSeq(fs, 1, top0) EXCEPT ![top0].recst = TRUE]
        /\ top' = t /\ status' = status /\ running' = running
    <3> HIDE DEF calls
    <3>1. IF calls # {}
          THEN /\ frames' = [SubSeq(fs, 1, top0) EXCEPT ![top0].recst = TRUE]
               /\ top' = t /\ UNCHANGED <<status, running>>
          ELSE /\ frames' = [fs EXCEPT ![Len(fs)].top = t + 1]
               /\ top' = t /\ status' = "ERR" /\ running' = FALSE
      BY DEF Throw, calls
    <3> QED BY <3>1, <2>2
  <2> HIDE DEF top0, calls
  <2>4. frames' = [SubSeq(fs, 1, at) EXCEPT ![at].recst = TRUE]
    BY <2>2, <2>3
  <2>5. /\ Len(SubSeq(fs, 1, at)) = at /\ SubSeq(fs, 1, at)[at] = fs[at]
    BY <1>1, PrefixSeq
  <2>6. frames' = Catch(fs, at)
    BY <2>4, <2>5 DEF Catch, SetLast
  <2> PICK gs : gs = frames'
    OBVIOUS
  <2>7. Stack(gs) /\ Handlers(gs, ef) /\ ToClose(gs, tbc) /\ Upvalues(gs, ups)
    BY <2>1, <2>6, Caught
  <2>8. /\ DOMAIN gs = 1..at /\ Len(gs) = at
        /\ \A i \in 1..at : /\ gs[i].top = fs[i].top /\ gs[i].func = fs[i].func
                            /\ gs[i].kind = fs[i].kind /\ gs[i].doing = fs[i].doing
        /\ gs[at].recst /\ gs[at].ypcall
    <3> DEFINE ps == SubSeq(fs, 1, at)
    <3>1. /\ ps \in Seq(FrameType) /\ DOMAIN ps = 1..at /\ Len(ps) = at
          /\ \A i \in 1..at : ps[i] = fs[i]
      BY <1>1, PrefixSeq
    <3>2. gs = [ps EXCEPT ![at] = [ps[at] EXCEPT !.recst = TRUE]]
      BY <2>4
    <3> HIDE DEF ps
    <3>3. ps[at] \in FrameType /\ ps[at].ypcall
      BY <3>1, <2>1, StackFacts DEF Innermost
    <3>4. DOMAIN gs = 1..at /\ gs[at] = [ps[at] EXCEPT !.recst = TRUE]
          /\ \A i \in 1..at : i # at => gs[i] = fs[i]
      <4>1. DOMAIN gs = DOMAIN ps
        BY <3>2
      <4>2. at \in DOMAIN ps /\ DOMAIN ps = 1..at
        BY <3>1
      <4>3. gs[at] = [ps[at] EXCEPT !.recst = TRUE]
        BY <3>2, <4>2
      <4>4. \A i \in DOMAIN ps : i # at => gs[i] = ps[i]
        BY <3>2
      <4> QED BY <3>1, <4>1, <4>2, <4>3, <4>4
    <3>5. Len(gs) = at
      BY <3>4, <2>7, StackFacts
    <3>6. /\ gs[at].top = ps[at].top /\ gs[at].func = ps[at].func
          /\ gs[at].kind = ps[at].kind /\ gs[at].doing = ps[at].doing
          /\ gs[at].recst /\ gs[at].ypcall
      BY <3>3, <3>4 DEF FrameType
    <3>7. ps[at] = fs[at]
      BY <3>1
    <3> QED BY <3>4, <3>5, <3>6, <3>7, ZenonT(40)
  <2>9. Proper(gs[at])
    BY <2>7, <2>8, StackFacts
  <2>10. Status(gs, status', running', top')
    <3>1. gs[at].kind \notin {"yield", "base"} /\ gs[at].doing = "run"
      BY <2>8, <2>9 DEF Proper
    <3>2. status' = "OK" /\ running' = TRUE /\ top' = t
      BY <2>3
    <3> QED BY <3>1, <3>2, <2>8 DEF Status
  <2>11. Fit(gs, status', top', sz)
    <3>1. status' = "OK" /\ top' = t /\ t <= sz + ExtraStack
      BY <2>3 DEF Fit
    <3>2. \A i \in DOMAIN gs : i \in DOMAIN fs
      BY <1>1, <2>8
    <3> QED BY <3>1, <3>2, <1>2, <2>8 DEF Fit
  <2>12. ValuesKept(gs, tbc, top', sz)
    BY <2>3 DEF ValuesKept
  <2>13. Chain(gs, ef, status', running', top', sz, tbc, ups)
    BY <2>7, <2>10, <2>11, <2>12 DEF Chain
  <2> QED BY <2>13
<1> QED BY <1>4, <1>5
-----------------------------------------------------------------------------
\* luaD_growstack keeps the slots there were and makes the room it was
\* asked for.
LEMMA GrownFacts ==
  ASSUME NEW s \in Nat, NEW t \in Nat, NEW n \in Nat
  PROVE  Grown(s, t, n) \in Nat /\ s <= Grown(s, t, n) /\ t + n <= Grown(s, t, n)
<1>0. MaxStack \in Nat
  BY ThreadAssumption
<1>1. CASE Fits(s, t, n)
  BY <1>1 DEF Fits, Grown
<1>2. CASE ~Fits(s, t, n)
  <2> DEFINE m == Smaller(s + s \div 2, MaxStack)
  <2>1. m \in Nat
    BY <1>0 DEF Smaller
  <2> HIDE DEF m
  <2>2. s <= t + n
    BY <1>2 DEF Fits
  <2>3. Bigger(m, t + n) \in Nat /\ t + n <= Bigger(m, t + n)
    BY <2>1 DEF Bigger
  <2>4. Grown(s, t, n) = Bigger(m, t + n)
    BY <1>2 DEF Grown, NewSize, m
  <2> QED BY <2>2, <2>3, <2>4
<1> QED BY <1>1, <1>2

\* The frame of a Lua function.
LEMMA LuaFrameFacts ==
  ASSUME NEW func \in Nat
  PROVE  /\ LuaFrame(func) \in FrameType /\ Proper(LuaFrame(func))
         /\ LuaFrame(func).func = func /\ LuaFrame(func).kind = "lua"
         /\ LuaFrame(func).doing = "run" /\ LuaFrame(func).ypcall = FALSE
         /\ LuaFrame(func).recst = FALSE
         /\ LuaFrame(func).top = func + 1 + FrameSize
<1>1. FrameSize \in Nat /\ FrameSize >= 3
  BY ThreadAssumption
<1>2. << >> \in Seq(Nat) /\ Len(<< >>) = 0
  OBVIOUS
<1> PICK limit \in Nat : limit = func + 1 + FrameSize
  BY <1>1
<1>3. /\ LuaFrame(func).func = func /\ LuaFrame(func).kind = "lua"
      /\ LuaFrame(func).doing = "run" /\ LuaFrame(func).ypcall = FALSE
      /\ LuaFrame(func).recst = FALSE /\ LuaFrame(func).top = limit
      /\ LuaFrame(func).locals = << >> /\ LuaFrame(func).u2 = 0
  BY DEF LuaFrame, Frame
<1>4. LuaFrame(func) \in FrameType
  BY <1>2 DEF LuaFrame, Frame, FrameType, Kinds
<1>5. Proper(LuaFrame(func))
  BY <1>1, <1>2, <1>3, <1>4 DEF Proper
<1> QED BY <1>3, <1>4, <1>5

\* A call of a Lua function that has its registers.
LEMMA PushLua ==
  ASSUME NEW fs, Stack(fs), NEW ef, Handlers(fs, ef), NEW tbc, ToClose(fs, tbc),
         NEW ups, Upvalues(fs, ups), NEW func \in Nat, NEW sz \in Nat, NEW t \in Nat,
         \A i \in DOMAIN fs : Under(fs[i], LuaFrame(func)),
         Calls(fs[Len(fs)], LuaFrame(func)),
         \A v \in In(tbc) : v.slot < func,
         \A u \in In(ups) : LiveIn(fs, u.slot, u.var),
         t <= sz + ExtraStack, func + 1 + FrameSize <= sz,
         \A i \in DOMAIN fs : /\ fs[i].top <= sz
                              /\ fs[i].kind = "lua"
                                   => fs[i].top = fs[i].func + 1 + FrameSize
  PROVE  Chain(Append(fs, LuaFrame(func)), ef, "OK", TRUE, t, sz, tbc, ups)
<1> PICK g : g = LuaFrame(func)
  OBVIOUS
<1>1. /\ g \in FrameType /\ Proper(g) /\ g.func = func /\ g.kind = "lua"
      /\ g.doing = "run" /\ g.ypcall = FALSE /\ g.recst = FALSE
      /\ g.top = func + 1 + FrameSize
  BY LuaFrameFacts
<1>2. /\ fs \in Seq(FrameType) /\ Len(fs) \in Nat /\ DOMAIN fs = 1..Len(fs)
  BY StackFacts
<1> PICK n \in Nat : n = Len(fs)
  BY <1>2
<1> PICK gs : gs = Append(fs, g)
  OBVIOUS
<1>3. /\ DOMAIN gs = 1..(n + 1) /\ Len(gs) = n + 1 /\ gs[n + 1] = g
      /\ \A i \in 1..n : gs[i] = fs[i]
  BY <1>1, <1>2, PushSeq
<1>4. Stack(gs)
  BY <1>1, PushStack
<1>5. Handlers(gs, ef)
  <2>1. Handlers(gs, IF g.ypcall THEN Handler(g) ELSE ef)
    BY <1>1, PushHandlers
  <2> QED BY <2>1, <1>1
<1>6. ToClose(gs, tbc)
  BY <1>1, PushClose
<1>7. Upvalues(gs, ups)
  BY <1>1, PushUpvalues
<1>8. Status(gs, "OK", TRUE, t)
  BY <1>1, <1>3 DEF Status
<1>9. Fit(gs, "OK", t, sz)
  <2>1. \A i \in DOMAIN gs : i = n + 1 \/ (i \in DOMAIN fs /\ gs[i] = fs[i])
    BY <1>2, <1>3
  <2>2. \A i \in DOMAIN gs : /\ gs[i].top <= sz
                             /\ gs[i].kind = "lua"
                                  => gs[i].top = gs[i].func + 1 + FrameSize
    BY <2>1, <1>1, <1>3
  <2> QED BY <2>2 DEF Fit
<1>10. ValuesKept(gs, tbc, t, sz)
  BY <1>1, <1>3 DEF ValuesKept
<1>11. Chain(gs, ef, "OK", TRUE, t, sz, tbc, ups)
  BY <1>4, <1>5, <1>6, <1>7, <1>8, <1>9, <1>10 DEF Chain
<1> QED BY <1>11

\* A stack overflow: the error object finds room in the extra space.
LEMMA OverflowKeeps ==
  ASSUME NEW fs, Stack(fs), Len(fs) > 1, NEW ef, Handlers(fs, ef),
         NEW tbc, ToClose(fs, tbc), NEW ups, Upvalues(fs, ups),
         NEW sz \in Nat, NEW t \in Nat,
         \/ t + 2 <= sz + ExtraStack
         \/ fs[Len(fs)].ypcall /\ t + 1 <= sz + ExtraStack,
         \A i \in DOMAIN fs : /\ fs[i].top <= sz
                              /\ fs[i].kind = "lua"
                                   => fs[i].top = fs[i].func + 1 + FrameSize,
         \A v \in In(tbc) : v.slot \in Nat /\ v.slot < t + 1 /\ v.slot < sz,
         status = "OK", running = TRUE, Overflow(fs, sz, t)
  PROVE  Chain(frames', ef, status', running', top', size', tbc, ups)
<1>1. /\ MaxStack \in Nat /\ ErrorSpace \in Nat /\ ExtraStack \in Nat
  BY ThreadAssumption
<1>2. PICK ns \in Nat : ns = size' /\ sz <= ns
  <2>1. size' = IF sz > MaxStack THEN sz ELSE MaxStack + ErrorSpace
    BY DEF Overflow
  <2> QED BY <2>1, <1>1
<1> PICK at \in Nat : at = t + 1
  OBVIOUS
<1>3. Throw(fs, at)
  BY DEF Overflow
<1>4. \A i \in DOMAIN fs : /\ fs[i].top <= ns
                           /\ fs[i].kind = "lua"
                                => fs[i].top = fs[i].func + 1 + FrameSize
  <2>1. \A i \in DOMAIN fs : fs[i].top \in Nat
    BY StackFacts DEF FrameType
  <2> QED BY <2>1, <1>2
<1>5. /\ fs[Len(fs)].ypcall \/ at + 1 <= ns + ExtraStack
      /\ at <= ns + ExtraStack
  <2>0. sz + ExtraStack <= ns + ExtraStack /\ ExtraStack \in Nat
    <3>1. sz <= ns
      BY <1>2
    <3> QED BY <3>1, <1>1
  <2>1. CASE t + 2 <= sz + ExtraStack
    <3>1. at + 1 <= ns + ExtraStack /\ at <= ns + ExtraStack
      BY <2>0, <2>1
    <3> QED BY <3>1
  <2>2. CASE fs[Len(fs)].ypcall /\ t + 1 <= sz + ExtraStack
    <3>1. at <= ns + ExtraStack
      BY <2>0, <2>2
    <3> QED BY <3>1, <2>2
  <2> QED BY <2>1, <2>2
<1>6. Fit(fs, "OK", at, ns)
  BY <1>4, <1>5 DEF Fit
<1>7. \A v \in In(tbc) : v.slot < at /\ v.slot < ns
  BY <1>2
<1>8. Chain(frames', ef, status', running', top', ns, tbc, ups)
  BY <1>3, <1>5, <1>6, <1>7, ThrowKeeps
<1> QED BY <1>2, <1>8

\* luaD_precall of a Lua function, with room for its registers or without.
LEMMA PrecallKeeps ==
  ASSUME NEW fs, Stack(fs), Len(fs) > 1, NEW ef, Handlers(fs, ef),
         NEW tbc, ToClose(fs, tbc), NEW ups, Upvalues(fs, ups),
         NEW func \in Nat, NEW sz \in Nat, NEW t \in Nat,
         \A i \in DOMAIN fs : Under(fs[i], LuaFrame(func)),
         Calls(fs[Len(fs)], LuaFrame(func)),
         \A v \in In(tbc) : v.slot \in Nat /\ v.slot < func /\ v.slot < sz,
         \A u \in In(ups) : LiveIn(fs, u.slot, u.var),
         func + 1 <= t,
         \/ t + 2 <= sz + ExtraStack
         \/ fs[Len(fs)].ypcall /\ t + 1 <= sz + ExtraStack,
         \A i \in DOMAIN fs : /\ fs[i].top <= sz
                              /\ fs[i].kind = "lua"
                                   => fs[i].top = fs[i].func + 1 + FrameSize,
         status = "OK", running = TRUE, PrecallLua(fs, sz, func, t)
  PROVE  Chain(frames', ef, status', running', top', size', tbc, ups)
<1>1. FrameSize \in Nat /\ ExtraStack \in Nat
  BY ThreadAssumption
<1>2. CASE Fits(sz, t, FrameSize) \/ CanGrow(sz, t, FrameSize)
  <2>1. /\ frames' = Append(fs, LuaFrame(func)) /\ size' = Grown(sz, t, FrameSize)
        /\ top' = t /\ status' = "OK" /\ running' = TRUE
    BY <1>2 DEF PrecallLua, Room
  <2>2. PICK ns \in Nat : ns = size' /\ sz <= ns /\ t + FrameSize <= ns
    BY <1>1, <1>2, <2>1, GrownFacts
  <2>3. t <= ns + ExtraStack /\ func + 1 + FrameSize <= ns
    <3>1. t + FrameSize <= ns
      BY <2>2
    <3>2. t <= ns
      BY <3>1, <1>1
    <3>3. func + 1 + FrameSize <= ns
      BY <3>1, <1>1
    <3> QED BY <3>2, <3>3, <1>1
  <2>4. \A i \in DOMAIN fs : /\ fs[i].top <= ns
                             /\ fs[i].kind = "lua"
                                  => fs[i].top = fs[i].func + 1 + FrameSize
    <3>1. \A i \in DOMAIN fs : fs[i].top \in Nat
      BY StackFacts DEF FrameType
    <3> QED BY <3>1, <2>2
  <2>5. \A v \in In(tbc) : v.slot < func
    OBVIOUS
  <2>6. Chain(Append(fs, LuaFrame(func)), ef, "OK", TRUE, t, ns, tbc, ups)
    BY <2>3, <2>4, <2>5, PushLua
  <2> QED BY <2>1, <2>2, <2>6
<1>3. CASE ~(Fits(sz, t, FrameSize) \/ CanGrow(sz, t, FrameSize))
  <2>1. Overflow(fs, sz, t)
    BY <1>3 DEF PrecallLua, Room
  <2>2. \A v \in In(tbc) : v.slot \in Nat /\ v.slot < t + 1 /\ v.slot < sz
    OBVIOUS
  <2> QED BY <2>1, <2>2, OverflowKeeps
<1> QED BY <1>2, <1>3
-----------------------------------------------------------------------------
\* What holds of the frame that runs, and of the variables and upvalues
\* below it.
LEMMA RunningFacts ==
  ASSUME ThreadInv, running
  PROVE  /\ status = "OK" /\ running = TRUE
         /\ Len(frames) \in Nat /\ Len(frames) > 1 /\ DOMAIN frames = 1..Len(frames)
         /\ frames \in Seq(FrameType)
         /\ ci = frames[Len(frames)] /\ ci \in FrameType /\ Proper(ci)
         /\ ci.kind \notin {"base", "yield"}
         /\ ci.func \in Nat /\ ci.u2 \in Nat /\ ci.locals \in Seq(Nat)
         /\ Len(ci.locals) \in Nat /\ Last(ci) = ci.func + Len(ci.locals)
         /\ ci.top \in Nat /\ top \in Nat /\ size \in Nat
         /\ \A i \in DOMAIN frames :
              /\ frames[i].top \in Nat /\ frames[i].top <= size
              /\ frames[i].kind = "lua"
                   => frames[i].top = frames[i].func + 1 + FrameSize
         /\ top <= size + ExtraStack
<1>1. /\ Stack(frames) /\ Status(frames, status, running, top)
      /\ Fit(frames, status, top, size)
  BY DEF ThreadInv, Chain
<1>2. /\ frames \in Seq(FrameType) /\ Len(frames) \in Nat /\ Len(frames) >= 1
      /\ DOMAIN frames = 1..Len(frames) /\ Len(frames) \in DOMAIN frames
      /\ frames[Len(frames)] \in FrameType /\ Proper(frames[Len(frames)])
      /\ \A i \in 1..Len(frames) : frames[i] \in FrameType
  BY <1>1, StackFacts
<1>3. ci = frames[Len(frames)]
  BY DEF ci
<1>4. /\ status = "OK" /\ running = TRUE /\ top \in Nat
      /\ ci.kind \notin {"yield", "base"}
  BY <1>1, <1>3 DEF Status
<1>5. frames[1].kind = "base"
  BY <1>1 DEF Stack
<1>6. Len(frames) > 1
  BY <1>2, <1>3, <1>4, <1>5
<1>7. /\ ci.func \in Nat /\ ci.u2 \in Nat /\ ci.locals \in Seq(Nat) /\ ci.top \in Nat
  BY <1>2, <1>3 DEF FrameType
<1>8. Len(ci.locals) \in Nat
  BY <1>7
<1>9. \A i \in DOMAIN frames : frames[i].top \in Nat
  BY <1>2 DEF FrameType
<1>10. /\ size \in Nat /\ top <= size + ExtraStack
       /\ \A i \in DOMAIN frames :
            /\ frames[i].top <= size
            /\ frames[i].kind = "lua" => frames[i].top = frames[i].func + 1 + FrameSize
  BY <1>1, <1>4 DEF Fit
<1> QED BY <1>2, <1>3, <1>4, <1>6, <1>7, <1>8, <1>9, <1>10 DEF Last

\* A running function sees the variables and upvalues of its callers, and its own.
LEMMA SlotFacts ==
  ASSUME ThreadInv, running, ~ci.recst
  PROVE  /\ \A v \in In(tbclist) : v \in Variable /\ v.slot \in Nat /\ v.slot <= Last(ci)
         /\ \A u \in In(openupval) : u \in Variable /\ u.slot \in Nat
                                     /\ LiveIn(frames, u.slot, u.var)
         /\ \A v \in In(tbclist) : ci.func < v.slot => LiveAt(ci, v.slot, v.var)
<1>1. /\ Stack(frames) /\ ToClose(frames, tbclist) /\ Upvalues(frames, openupval)
  BY DEF ThreadInv, Chain
<1>2. /\ Len(frames) \in Nat /\ Len(frames) > 1 /\ DOMAIN frames = 1..Len(frames)
      /\ ci = frames[Len(frames)] /\ ci.func \in Nat
      /\ Last(ci) = ci.func + Len(ci.locals) /\ Len(ci.locals) \in Nat
      /\ ci \in FrameType
  BY RunningFacts
<1> PICK n \in Nat : n = Len(frames)
  BY <1>2
<1>3. tbclist \in Seq(Variable) /\ openupval \in Seq(Variable)
  BY <1>1 DEF ToClose, Upvalues
<1>4. ASSUME NEW v \in In(tbclist)
      PROVE  /\ v \in Variable /\ v.slot \in Nat /\ v.slot <= Last(ci)
             /\ ci.func < v.slot => LiveAt(ci, v.slot, v.var)
  <2>1. v \in Variable /\ v.slot \in Nat
    BY <1>3, ListTypes
  <2>2. CASE LiveIn(frames, v.slot, v.var)
    <3>1. PICK k \in DOMAIN frames : LiveAt(frames[k], v.slot, v.var)
      BY <2>2 DEF LiveIn
    <3>2. v.slot <= Last(frames[k])
      BY <2>1, <3>1, <1>1, <1>2, LiveSlot, StackFacts
    <3>3. CASE k = n
      BY <3>1, <3>2, <3>3, <2>1, <1>2
    <3>4. CASE k # n
      <4>1. k < n /\ n \in DOMAIN frames
        BY <3>4, <1>2
      <4>2. Last(frames[k]) < ci.func /\ Last(frames[k]) \in Nat
        BY <4>1, <1>1, <1>2, Apart
      <4> QED BY <2>1, <3>2, <4>2, <1>2
    <3> QED BY <3>3, <3>4
  <2>3. ASSUME NEW k \in DOMAIN frames, Unwinds(frames, k, v.slot)
        PROVE  v.slot < ci.func
    <3>1. k # n
      BY <2>3, <1>2 DEF Unwinds
    <3>2. k < n /\ n \in DOMAIN frames
      BY <3>1, <1>2
    <3> QED BY <2>3, <3>2, <1>2 DEF Unwinds
  <2> QED BY <2>1, <2>2, <2>3, <1>1, <1>2 DEF ToClose
<1>5. ASSUME NEW u \in In(openupval)
      PROVE  u \in Variable /\ u.slot \in Nat /\ LiveIn(frames, u.slot, u.var)
  <2>1. u \in Variable /\ u.slot \in Nat
    BY <1>3, ListTypes
  <2>2. ~frames[Len(frames)].recst
    BY <1>2
  <2> QED BY <2>1, <2>2, <1>1 DEF Upvalues
<1> QED BY <1>4, <1>5

\* The running Lua function changes its locals or what it is doing.
LEMMA SetKeeps ==
  ASSUME ThreadInv, InLua, NEW g \in FrameType, Proper(g),
         g.kind = "lua", g.func = ci.func, g.top = ci.top, g.recst = FALSE,
         g.ypcall = FALSE, g.old_errfunc = ci.old_errfunc,
         NEW ups, Upvalues(frames, ups),
         \A v \in In(tbclist) : LiveAt(ci, v.slot, v.var) => LiveAt(g, v.slot, v.var),
         \A u \in In(ups) : LiveAt(ci, u.slot, u.var) => LiveAt(g, u.slot, u.var),
         g.doing # "run" =>
           \A u \in In(ups) : ClosedTo(g) <= u.slot => Last(g) < u.slot,
         NEW tp \in Nat, tp <= size + ExtraStack,
         g.doing = "return" => Last(g) < tp /\ tp <= g.top + 1
  PROVE  /\ Chain(SetLast(frames, g), errfunc, "OK", TRUE, tp, size, tbclist, ups)
         /\ Len(SetLast(frames, g)) = Len(frames)
         /\ SetLast(frames, g)[Len(frames)] = g
         /\ DOMAIN SetLast(frames, g) = DOMAIN frames
<1>1. /\ Stack(frames) /\ ToClose(frames, tbclist) /\ Handlers(frames, errfunc)
  BY DEF ThreadInv, Chain
<1>2. running
  BY DEF InLua
<1>3. /\ Len(frames) \in Nat /\ Len(frames) > 1 /\ DOMAIN frames = 1..Len(frames)
      /\ frames \in Seq(FrameType)
      /\ ci = frames[Len(frames)] /\ Proper(ci) /\ size \in Nat
      /\ \A i \in DOMAIN frames :
              /\ frames[i].top <= size
              /\ frames[i].kind = "lua"
                   => frames[i].top = frames[i].func + 1 + FrameSize
  BY <1>2, RunningFacts
<1>4. ci.kind = "lua" /\ ci.ypcall = FALSE /\ ci.recst = FALSE
  <2>1. ci.kind = "lua"
    BY DEF InLua
  <2>2. ci.ypcall \in BOOLEAN /\ ci.recst \in BOOLEAN
    BY <1>3 DEF Proper, FrameType
  <2> QED BY <2>1, <2>2, <1>3 DEF Proper
<1> PICK n \in Nat : n = Len(frames)
  BY <1>3
<1> PICK gs : gs = SetLast(frames, g)
  OBVIOUS
<1>5. /\ DOMAIN gs = 1..n /\ gs[n] = g /\ \A i \in 1..(n - 1) : gs[i] = frames[i]
      /\ Len(gs) = n
  <2>1. gs = [frames EXCEPT ![n] = g]
    BY DEF SetLast
  <2> QED BY <2>1, <1>3
<1>6. Stack(gs)
  BY <1>1, <1>3, <1>4, SetStack
<1>7. Handlers(gs, errfunc)
  BY <1>1, <1>3, <1>4, SetHandlers
<1>8. ToClose(gs, tbclist)
  BY <1>1, <1>3, <1>4, SetClose
<1>9. Upvalues(gs, ups)
  BY <1>1, <1>3, <1>4, SetUpvalues
<1>10. Status(gs, "OK", TRUE, tp)
  BY <1>5 DEF Status
<1>11. Fit(gs, "OK", tp, size)
  <2>1. \A i \in DOMAIN gs : i \in DOMAIN frames /\ (i = n \/ gs[i] = frames[i])
    BY <1>3, <1>5
  <2>2. n \in DOMAIN frames
    BY <1>3
  <2>3. g.top <= size /\ g.top = g.func + 1 + FrameSize
    BY <2>2, <1>3, <1>4
  <2>4. \A i \in DOMAIN gs : /\ gs[i].top <= size
                             /\ gs[i].kind = "lua"
                                  => gs[i].top = gs[i].func + 1 + FrameSize
    BY <2>1, <2>3, <1>3, <1>5
  <2> QED BY <2>4, <1>3 DEF Fit
<1>12. ValuesKept(gs, tbclist, tp, size)
  BY <1>5 DEF ValuesKept
<1>13. Chain(gs, errfunc, "OK", TRUE, tp, size, tbclist, ups)
  BY <1>6, <1>7, <1>8, <1>9, <1>10, <1>11, <1>12 DEF Chain
<1> QED BY <1>3, <1>5, <1>13

\* What an executing Lua function has at hand.
LEMMA ExecFacts ==
  ASSUME ThreadInv, Executing
  PROVE  /\ running /\ InLua /\ ci.kind = "lua" /\ ci.doing = "run"
         /\ ci.recst = FALSE /\ ci.ypcall = FALSE
         /\ Len(ci.locals) < FrameSize /\ ci.u2 <= 2
         /\ FirstFree = Last(ci) + 1 /\ FirstFree \in Nat
         /\ ci.top = ci.func + 1 + FrameSize /\ ci.top <= size
         /\ FirstFree < ci.top
<1>1. running /\ InLua /\ ci.kind = "lua" /\ ci.doing = "run"
  BY DEF Executing, InLua
<1>2. /\ Len(frames) > 1 /\ DOMAIN frames = 1..Len(frames) /\ Len(frames) \in Nat
      /\ ci = frames[Len(frames)] /\ ci \in FrameType /\ Proper(ci)
      /\ ci.func \in Nat /\ Len(ci.locals) \in Nat
      /\ Last(ci) = ci.func + Len(ci.locals)
      /\ \A i \in DOMAIN frames :
              /\ frames[i].top <= size
              /\ frames[i].kind = "lua"
                   => frames[i].top = frames[i].func + 1 + FrameSize
  BY <1>1, RunningFacts
<1>3. Len(frames) \in DOMAIN frames
  BY <1>2
<1>4. ci.top = ci.func + 1 + FrameSize /\ ci.top <= size
  BY <1>1, <1>2, <1>3
<1>5. ci.ypcall \in BOOLEAN /\ ci.recst \in BOOLEAN
  BY <1>2 DEF FrameType
<1>6. ci.recst = FALSE /\ ci.ypcall = FALSE /\ Len(ci.locals) < FrameSize
      /\ ci.u2 <= 2
  BY <1>1, <1>2, <1>5 DEF Proper
<1>7. FrameSize \in Nat
  BY ThreadAssumption
<1> QED BY <1>1, <1>2, <1>4, <1>6, <1>7, SMTT(30) DEF FirstFree

\* A frame above the variables of the one that runs is above all others.
LEMMA AboveRunning ==
  ASSUME ThreadInv, running, NEW g, g.func \in Nat, Last(ci) < g.func,
         ci.ypcall => ci.u2 <= g.func
  PROVE  \A i \in DOMAIN frames : Under(frames[i], g)
<1>1. /\ DOMAIN frames = 1..Len(frames) /\ Len(frames) \in Nat /\ Len(frames) > 1
      /\ ci = frames[Len(frames)] /\ Last(ci) = ci.func + Len(ci.locals)
      /\ ci.func \in Nat /\ Len(ci.locals) \in Nat
  BY RunningFacts
<1>2. Stack(frames)
  BY DEF ThreadInv, Chain
<1> TAKE i \in DOMAIN frames
<1>3. CASE i = Len(frames)
  BY <1>1, <1>3 DEF Under
<1>4. CASE i # Len(frames)
  <2>1. i < Len(frames) /\ Len(frames) \in DOMAIN frames
    BY <1>1, <1>4
  <2>2. /\ Last(frames[i]) < ci.func /\ Last(frames[i]) \in Nat
        /\ frames[i].u2 \in Nat /\ (frames[i].ypcall => frames[i].u2 <= ci.func)
    BY <2>1, <1>1, <1>2, Apart
  <2>3. ci.func < g.func
    BY <1>1
  <2>4. Last(frames[i]) < g.func
    BY <2>2, <2>3, <1>1
  <2>5. frames[i].ypcall => frames[i].u2 <= g.func
    BY <2>2, <2>3, <1>1
  <2> QED BY <2>4, <2>5 DEF Under
<1> QED BY <1>3, <1>4

\* A variable in scope stays so when more are declared.
LEMMA MoreLocals ==
  ASSUME NEW f \in FrameType, NEW g \in FrameType, NEW d \in Nat,
         g.func = f.func, g.locals = Append(f.locals, d)
  PROVE  /\ \A slot, var : LiveAt(f, slot, var) => LiveAt(g, slot, var)
         /\ \A slot \in Nat : slot = Last(f) + 1 => LiveAt(g, slot, d)
         /\ Len(g.locals) = Len(f.locals) + 1
<1>1. f.locals \in Seq(Nat) /\ f.func \in Nat /\ Len(f.locals) \in Nat
  BY DEF FrameType
<1>2. /\ Len(g.locals) = Len(f.locals) + 1
      /\ DOMAIN f.locals = 1..Len(f.locals)
      /\ DOMAIN g.locals = 1..(Len(f.locals) + 1)
      /\ g.locals[Len(f.locals) + 1] = d
      /\ \A i \in 1..Len(f.locals) : g.locals[i] = f.locals[i]
  BY <1>1, PushSeq
<1>3. ASSUME NEW slot, NEW var, LiveAt(f, slot, var) PROVE LiveAt(g, slot, var)
  <2>1. slot - f.func \in 1..Len(f.locals) /\ f.locals[slot - f.func] = var
    BY <1>2, <1>3 DEF LiveAt
  <2>2. slot - f.func \in 1..(Len(f.locals) + 1)
    BY <2>1, <1>1
  <2> QED BY <2>1, <2>2, <1>2 DEF LiveAt
<1>4. ASSUME NEW slot \in Nat, slot = Last(f) + 1 PROVE LiveAt(g, slot, d)
  <2>1. slot - g.func = Len(f.locals) + 1
    BY <1>1, <1>4 DEF Last
  <2>2. slot - g.func \in DOMAIN g.locals /\ g.locals[slot - g.func] = d
    BY <2>1, <1>1, <1>2
  <2> QED BY <2>2 DEF LiveAt
<1> QED BY <1>2, <1>3, <1>4
-----------------------------------------------------------------------------
\* A coroutine with nothing on its stack.
LEMMA BaseAlone ==
  ASSUME NEW sz \in Nat, 1 + MinStack <= sz, NEW tp \in Nat, tp <= sz + ExtraStack
  PROVE  Chain(<<BaseFrame>>, 0, "OK", FALSE, tp, sz, << >>, << >>)
<1>1. MinStack \in Nat /\ MinStack >= 3 /\ ExtraStack \in Nat /\ ExtraStack >= 5
  BY ThreadAssumption
<1>2. /\ BaseFrame.func = 0 /\ BaseFrame.kind = "base" /\ BaseFrame.doing = "run"
      /\ BaseFrame.ypcall = FALSE /\ BaseFrame.recst = FALSE
      /\ BaseFrame.locals = << >> /\ BaseFrame.top = 1 + MinStack
  BY DEF BaseFrame, Frame
<1>3. BaseFrame \in FrameType
  BY <1>1 DEF BaseFrame, Frame, FrameType, Kinds
<1>4. Proper(BaseFrame)
  BY <1>2, <1>3 DEF Proper
<1> PICK fs : fs = <<BaseFrame>>
  OBVIOUS
<1>5. /\ Len(fs) = 1 /\ DOMAIN fs = 1..1 /\ fs[1] = BaseFrame
      /\ fs \in Seq(FrameType) /\ fs # << >>
  BY <1>3
<1>6. Stack(fs)
  BY <1>2, <1>4, <1>5 DEF Stack
<1>7. Handlers(fs, 0)
  <2>1. \A i \in 1..1 : ~fs[i].ypcall
    BY <1>2, <1>5
  <2>2. HandlerAt(fs, 1) = 0
    BY <2>1, HandlerFacts
  <2> QED BY <2>1, <2>2, <1>5 DEF Handlers
<1>8. Status(fs, "OK", FALSE, tp)
  BY <1>5 DEF Status
<1>9. Fit(fs, "OK", tp, sz)
  BY <1>2, <1>5 DEF Fit
<1>10. In(<< >>) = {}
  BY InEmpty
<1>11. ToClose(fs, << >>) /\ ValuesKept(fs, << >>, tp, sz)
  BY <1>10 DEF ToClose, ValuesKept, Sorted
<1>12. Upvalues(fs, << >>)
  BY <1>10 DEF Upvalues, Sorted
<1>13. Chain(fs, 0, "OK", FALSE, tp, sz, << >>, << >>)
  BY <1>6, <1>7, <1>8, <1>9, <1>11, <1>12 DEF Chain
<1> QED BY <1>13

\* lua_newthread.
LEMMA InitHolds == InitThread => ThreadInv
<1> SUFFICES ASSUME InitThread PROVE ThreadInv
  OBVIOUS
<1>1. /\ status = "OK" /\ running = FALSE /\ size = 2 * MinStack /\ top = 2
      /\ frames = <<BaseFrame>> /\ openupval = << >> /\ tbclist = << >>
      /\ errfunc = 0 /\ declared = 0 /\ marked = {} /\ taken = << >>
  BY DEF InitThread, Basic
<1>2. MinStack \in Nat /\ MinStack >= 3 /\ ExtraStack \in Nat
  BY ThreadAssumption
<1> PICK sz \in Nat : sz = 2 * MinStack
  BY <1>2
<1>3. 1 + MinStack <= sz /\ 2 <= sz + ExtraStack
  BY <1>2
<1>4. Chain(<<BaseFrame>>, 0, "OK", FALSE, 2, sz, << >>, << >>)
  BY <1>3, BaseAlone
<1>5. Closes(tbclist, declared, marked, taken)
  BY <1>1, InEmpty DEF Closes, Vars
<1> QED BY <1>1, <1>4, <1>5 DEF ThreadInv

\* lua_resume of a new coroutine.
LEMMA StartKeeps == ThreadInv /\ Start => ThreadInv'
<1> SUFFICES ASSUME ThreadInv, Start PROVE ThreadInv'
  OBVIOUS
<1>0. FrameSize \in Nat /\ FrameSize >= 3 /\ ExtraStack \in Nat /\ MaxStack \in Nat
  BY ThreadAssumption
<1>1. /\ Stack(frames) /\ Handlers(frames, errfunc) /\ ToClose(frames, tbclist)
      /\ ValuesKept(frames, tbclist, top, size) /\ Upvalues(frames, openupval)
      /\ Fit(frames, status, top, size) /\ Status(frames, status, running, top)
      /\ Closes(tbclist, declared, marked, taken)
  BY DEF ThreadInv, Chain
<1>2. /\ ~running /\ status = "OK" /\ Len(frames) = 1 /\ top = 2
      /\ running' = TRUE /\ frames' = Append(frames, LuaFrame(1))
      /\ size' = Grown(size, 2, FrameSize) /\ status' = "OK" /\ top' = 2
      /\ openupval' = openupval /\ tbclist' = tbclist /\ errfunc' = errfunc
      /\ declared' = declared /\ marked' = marked /\ taken' = taken
  BY DEF Start, history
<1>3. /\ frames \in Seq(FrameType) /\ DOMAIN frames = 1..1 /\ frames[1] \in FrameType
      /\ Proper(frames[1])
  BY <1>1, <1>2, StackFacts
<1>4. frames[1].kind = "base" /\ frames[1].func = 0
  BY <1>1 DEF Stack
<1>5. frames[1].locals = << >> /\ ~frames[1].ypcall /\ ~frames[1].recst
      /\ frames[1].doing = "run"
  BY <1>3, <1>4 DEF Proper
<1>6. Last(frames[1]) = 0
  BY <1>4, <1>5 DEF Last
<1>7. \A slot \in Nat : \A var : ~LiveIn(frames, slot, var)
  BY <1>3, <1>5, LiveSlot DEF LiveIn
<1>8. In(tbclist) = {}
  <2>1. \A v \in In(tbclist) : v.slot \in Nat
    BY <1>1, ListTypes DEF ToClose
  <2>2. \A v \in In(tbclist), k \in DOMAIN frames : ~Unwinds(frames, k, v.slot)
    BY <1>3, <1>5 DEF Unwinds
  <2> QED BY <2>1, <2>2, <1>1, <1>7 DEF ToClose
<1>9. In(openupval) = {}
  <2>1. \A v \in In(openupval) : v.slot \in Nat
    BY <1>1, ListTypes DEF Upvalues
  <2> QED BY <2>1, <1>1, <1>2, <1>5, <1>7 DEF Upvalues
<1>10. \A i \in DOMAIN frames : Under(frames[i], LuaFrame(1))
  <2>1. LuaFrame(1).func = 1
    BY LuaFrameFacts
  <2> QED BY <2>1, <1>3, <1>5, <1>6 DEF Under
<1>11. Calls(frames[Len(frames)], LuaFrame(1))
  <2>1. LuaFrame(1).kind = "lua"
    BY LuaFrameFacts
  <2> QED BY <2>1, <1>2, <1>4, <1>5 DEF Calls
<1>12. size \in Nat /\ \A i \in DOMAIN frames :
              frames[i].top \in Nat /\ frames[i].top <= size /\ frames[i].kind # "lua"
  <2>1. frames[1].top \in Nat
    BY <1>3 DEF FrameType
  <2> QED BY <2>1, <1>1, <1>2, <1>3, <1>4 DEF Fit
<1>13. PICK ns \in Nat : ns = size' /\ size <= ns /\ 2 + FrameSize <= ns
  BY <1>0, <1>2, <1>12, GrownFacts
<1>14. 2 <= ns + ExtraStack /\ 1 + 1 + FrameSize <= ns
  <2>1. 2 + FrameSize <= ns
    BY <1>13
  <2> QED BY <2>1, <1>0
<1>15. \A i \in DOMAIN frames : /\ frames[i].top <= ns
                                /\ frames[i].kind = "lua"
                                     => frames[i].top = frames[i].func + 1 + FrameSize
  BY <1>12, <1>13
<1>16. Chain(Append(frames, LuaFrame(1)), errfunc, "OK", TRUE, 2, ns, tbclist,
             openupval)
  BY <1>1, <1>8, <1>9, <1>10, <1>11, <1>14, <1>15, PushLua
<1>17. Chain(frames', errfunc', status', running', top', size', tbclist', openupval')
  BY <1>2, <1>13, <1>16
<1>18. Closes(tbclist', declared', marked', taken')
  BY <1>1, <1>2
<1> QED BY <1>17, <1>18 DEF ThreadInv

\* The parts of the invariant.
LEMMA InvParts ==
  ASSUME ThreadInv
  PROVE  /\ Stack(frames) /\ Handlers(frames, errfunc) /\ ToClose(frames, tbclist)
         /\ ValuesKept(frames, tbclist, top, size) /\ Upvalues(frames, openupval)
         /\ Fit(frames, status, top, size) /\ Status(frames, status, running, top)
         /\ Closes(tbclist, declared, marked, taken)
         /\ tbclist \in Seq(Variable) /\ Sorted(tbclist, ByslotAndVar)
         /\ openupval \in Seq(Variable) /\ Sorted(openupval, Byslot)
         /\ ExtraStack \in Nat /\ ExtraStack >= 5
         /\ FrameSize \in Nat /\ FrameSize >= 3
         /\ MinStack \in Nat /\ MinStack >= 3
<1>1. /\ FrameSize \in Nat /\ MinStack \in Nat /\ ExtraStack \in Nat
      /\ FrameSize >= 3 /\ MinStack >= 3 /\ ExtraStack >= 5
  BY ThreadAssumption
<1> QED BY <1>1 DEF ThreadInv, Chain, ToClose, Upvalues

\* A call chain without its last frame.
LEMMA CallersFacts ==
  ASSUME NEW fs, Stack(fs), Len(fs) > 1, NEW gs, gs = SubSeq(fs, 1, Len(fs) - 1)
  PROVE  /\ Stack(gs) /\ Len(gs) = Len(fs) - 1 /\ DOMAIN gs = 1..Len(gs)
         /\ Len(gs) \in Nat /\ Len(gs) >= 1
         /\ \A i \in DOMAIN gs : gs[i] = fs[i] /\ i \in DOMAIN fs
         /\ gs[Len(gs)] = fs[Len(fs) - 1] /\ Len(gs) \in DOMAIN gs
         /\ Calls(gs[Len(gs)], fs[Len(fs)])
         /\ Under(gs[Len(gs)], fs[Len(fs)])
<1>1. fs \in Seq(FrameType) /\ Len(fs) \in Nat /\ DOMAIN fs = 1..Len(fs)
  BY StackFacts
<1> PICK n \in Nat : n = Len(fs)
  BY <1>1
<1>2. n - 1 \in 1..n /\ n - 1 \in Nat
  OBVIOUS
<1>3. Stack(gs)
  BY <1>1, <1>2, PrefixStack
<1>4. Len(gs) = n - 1 /\ DOMAIN gs = 1..(n - 1) /\ \A i \in 1..(n - 1) : gs[i] = fs[i]
  BY <1>1, <1>2, PrefixSeq
<1>5. Calls(fs[n - 1], fs[n]) /\ Under(fs[n - 1], fs[n])
  <2>1. n - 1 \in DOMAIN fs /\ n - 1 + 1 = n /\ n \in DOMAIN fs /\ n - 1 < n
    BY <1>1
  <2> QED BY <2>1 DEF Stack
<1>6. gs[Len(gs)] = fs[n - 1]
  BY <1>2, <1>4
<1>7. \A i \in DOMAIN gs : gs[i] = fs[i] /\ i \in DOMAIN fs
  BY <1>1, <1>4
<1> QED BY <1>2, <1>3, <1>4, <1>5, <1>6, <1>7

\* lua_resume of a suspended one: the frame of yield is left.
LEMMA ResumeKeeps == ThreadInv /\ Resume => ThreadInv'
<1> SUFFICES ASSUME ThreadInv, Resume PROVE ThreadInv'
  OBVIOUS
<1>1. /\ ~running /\ status = "YIELD" /\ status' = "OK" /\ running' = TRUE
      /\ frames' = SubSeq(frames, 1, Len(frames) - 1) /\ top' = frames[Len(frames)].func
      /\ openupval' = openupval /\ tbclist' = tbclist /\ errfunc' = errfunc
      /\ declared' = declared /\ marked' = marked /\ taken' = taken /\ size' = size
  BY DEF Resume, history, Callers, ci
<1>2. /\ Stack(frames) /\ Handlers(frames, errfunc) /\ ToClose(frames, tbclist)
      /\ Upvalues(frames, openupval) /\ Closes(tbclist, declared, marked, taken)
      /\ Fit(frames, status, top, size) /\ Status(frames, status, running, top)
      /\ tbclist \in Seq(Variable) /\ openupval \in Seq(Variable)
      /\ ExtraStack \in Nat
  BY InvParts
<1> PICK n : n = Len(frames)
  OBVIOUS
<1>3. /\ frames \in Seq(FrameType) /\ n \in Nat /\ DOMAIN frames = 1..n /\ n >= 1
      /\ frames[n] \in FrameType /\ Proper(frames[n])
  BY <1>2, StackFacts
<1>4. frames[n].kind = "yield"
  BY <1>1, <1>2 DEF Status
<1>5. n > 1
  <2>1. frames[1].kind = "base"
    BY <1>2 DEF Stack
  <2> QED BY <2>1, <1>3, <1>4
<1>6. ~frames[n].ypcall /\ ~frames[n].recst /\ frames[n].locals = << >>
  BY <1>3, <1>4 DEF Proper
<1> PICK gs : gs = frames'
  OBVIOUS
<1>7. /\ Stack(gs) /\ Len(gs) = n - 1 /\ DOMAIN gs = 1..Len(gs) /\ Len(gs) \in Nat
      /\ \A i \in DOMAIN gs : gs[i] = frames[i] /\ i \in DOMAIN frames
      /\ Calls(gs[Len(gs)], frames[n]) /\ Len(gs) \in DOMAIN gs
  <2>1. gs = SubSeq(frames, 1, Len(frames) - 1) /\ Len(frames) > 1
    BY <1>1, <1>5
  <2> QED BY <2>1, <1>2, CallersFacts
<1>8. ~gs[Len(gs)].recst /\ gs[Len(gs)].kind = "lua" /\ gs[Len(gs)].doing = "run"
      /\ ~gs[Len(gs)].ypcall /\ frames[n].func < gs[Len(gs)].top
  <2>1. Proper(gs[Len(gs)])
    BY <1>7, StackFacts
  <2> QED BY <2>1, <1>4, <1>7 DEF Proper, Calls
<1>9. Handlers(gs, errfunc)
  <2>1. HandlerAt(frames, n) = HandlerAt(frames, n - 1)
    <3> PICK m \in Nat : m = n - 1
      BY <1>3
    <3>1. m + 1 = n
      BY <1>3
    <3> QED BY <3>1, <1>6, HandlerSkip
  <2>2. errfunc = HandlerAt(frames, n - 1)
    BY <2>1, <1>2 DEF Handlers
  <2>3. n - 1 \in 1..Len(frames)
    BY <1>3, <1>5
  <2> QED BY <2>2, <2>3, <1>1, <1>2, PrefixHandlers
<1>10. \A slot \in Nat : \A var : ~LiveAt(frames[n], slot, var)
  BY <1>3, <1>6, LiveSlot
<1>11. ToClose(gs, tbclist)
  <2>1. \A t \in In(tbclist) : t.slot \in Nat
    BY <1>2, ListTypes
  <2>2. \A t \in In(tbclist) : /\ ~LiveAt(frames[Len(frames)], t.slot, t.var)
                               /\ ~Unwinds(frames, Len(frames), t.slot)
    BY <2>1, <1>6, <1>10 DEF Unwinds
  <2> QED BY <2>2, <1>1, <1>2, <1>5, PopClose
<1>12. Upvalues(gs, openupval)
  <2>1. \A u \in In(openupval) : u.slot \in Nat
    BY <1>2, ListTypes
  <2>2. \A u \in In(openupval) : LiveIn(frames, u.slot, u.var)
    BY <1>2, <1>6 DEF Upvalues
  <2>3. \A u \in In(openupval) : ~LiveAt(frames[Len(frames)], u.slot, u.var)
    BY <2>1, <1>10
  <2> QED BY <2>2, <2>3, <1>1, <1>2, <1>5, PopUpvalues
<1>13. frames[n].func \in Nat
  BY <1>3 DEF FrameType
<1>14. Status(gs, "OK", TRUE, top')
  BY <1>1, <1>8, <1>13 DEF Status
<1>15. Fit(gs, "OK", top', size)
  <2>1. size \in Nat
        /\ \A i \in DOMAIN frames :
             /\ frames[i].top <= size
             /\ frames[i].kind = "lua" => frames[i].top = frames[i].func + 1 + FrameSize
    BY <1>1, <1>2 DEF Fit
  <2>2. \A i \in DOMAIN gs :
          /\ gs[i].top <= size
          /\ gs[i].kind = "lua" => gs[i].top = gs[i].func + 1 + FrameSize
    BY <2>1, <1>7
  <2>3. gs[Len(gs)].top <= size /\ gs[Len(gs)].top \in Nat
    <3>1. gs[Len(gs)] \in FrameType
      BY <1>7, StackFacts
    <3>2. gs[Len(gs)].top \in Nat
      BY <3>1 DEF FrameType
    <3>3. Len(gs) \in DOMAIN gs
      BY <1>7
    <3> QED BY <3>2, <3>3, <2>1, <2>2
  <2> PICK lim \in Nat : lim = gs[Len(gs)].top
    BY <2>3
  <2>4. frames[n].func < lim /\ lim <= size /\ size \in Nat
    BY <2>1, <2>3, <1>8
  <2>5. frames[n].func <= size + ExtraStack
    BY <2>4, <1>2, <1>13
  <2>6. top' <= size + ExtraStack
    BY <2>5, <1>1
  <2> QED BY <2>1, <2>2, <2>6 DEF Fit
<1>16. ValuesKept(gs, tbclist, top', size)
  BY <1>8 DEF ValuesKept
<1>17. Chain(gs, errfunc, "OK", TRUE, top', size, tbclist, openupval)
  BY <1>7, <1>9, <1>11, <1>12, <1>14, <1>15, <1>16 DEF Chain
<1> QED BY <1>1, <1>2, <1>17 DEF ThreadInv

\* A local declaration.
LEMMA DeclareKeeps == ThreadInv /\ Declare => ThreadInv'
<1> SUFFICES ASSUME ThreadInv, Declare PROVE ThreadInv'
  OBVIOUS
<1>1. /\ Executing /\ Len(ci.locals) < FrameSize - 1 /\ declared' = declared + 1
      /\ frames' = SetLast(frames, [ci EXCEPT !.locals = Append(@, declared + 1)])
      /\ status' = status /\ running' = running /\ size' = size /\ top' = top
      /\ openupval' = openupval /\ tbclist' = tbclist /\ errfunc' = errfunc
      /\ marked' = marked /\ taken' = taken
  BY DEF Declare, Replaced, SetLast
<1>2. /\ Closes(tbclist, declared, marked, taken) /\ Upvalues(frames, openupval)
  BY InvParts
<1>3. declared \in Nat /\ marked \subseteq 1..declared
  BY <1>2 DEF Closes
<1>4. /\ running /\ InLua /\ ci.kind = "lua" /\ ci.doing = "run"
      /\ ci.recst = FALSE /\ ci.ypcall = FALSE /\ ci.u2 <= 2
  BY <1>1, ExecFacts
<1>5. /\ ci \in FrameType /\ Proper(ci) /\ status = "OK" /\ running = TRUE
      /\ top \in Nat /\ top <= size + ExtraStack /\ Len(ci.locals) \in Nat
  BY <1>4, RunningFacts
<1> PICK d \in Nat : d = declared + 1
  BY <1>3
<1>6. PICK g : /\ g \in FrameType /\ g.kind = "lua" /\ g.func = ci.func
               /\ g.top = ci.top /\ g.recst = FALSE /\ g.ypcall = FALSE
               /\ g.old_errfunc = ci.old_errfunc /\ g.doing = "run" /\ g.u2 = ci.u2
               /\ g.locals = Append(ci.locals, d) /\ frames' = SetLast(frames, g)
  <2> DEFINE g == [ci EXCEPT !.locals = Append(@, d)]
  <2>1. /\ g \in FrameType /\ g.kind = "lua" /\ g.func = ci.func
        /\ g.top = ci.top /\ g.recst = FALSE /\ g.ypcall = FALSE
        /\ g.old_errfunc = ci.old_errfunc /\ g.doing = "run" /\ g.u2 = ci.u2
        /\ g.locals = Append(ci.locals, d)
    <3> PICK f : f = ci
      OBVIOUS
    <3>1. Append(f.locals, d) \in Seq(Nat) /\ f \in FrameType
      BY <1>5 DEF FrameType
    <3> QED BY <3>1, <1>4 DEF FrameType
  <2>2. frames' = SetLast(frames, g)
    BY <1>1
  <2> HIDE DEF g
  <2> QED BY <2>1, <2>2
<1>7. /\ \A slot, var : LiveAt(ci, slot, var) => LiveAt(g, slot, var)
      /\ Len(g.locals) = Len(ci.locals) + 1
  BY <1>5, <1>6, MoreLocals
<1>8. Proper(g)
  <2>1. Len(g.locals) < FrameSize
    BY <1>1, <1>5, <1>7, ThreadAssumption, SMTT(30)
  <2> QED BY <2>1, <1>4, <1>6 DEF Proper
<1>9. Chain(SetLast(frames, g), errfunc, "OK", TRUE, top, size, tbclist, openupval)
  BY <1>2, <1>4, <1>5, <1>6, <1>7, <1>8, SetKeeps
<1>10. Closes(tbclist, declared + 1, marked, taken)
  <2>1. marked \subseteq 1..(declared + 1)
    BY <1>3
  <2> QED BY <2>1, <1>2, <1>3 DEF Closes
<1>11. Chain(frames', errfunc', status', running', top', size', tbclist', openupval')
  BY <1>1, <1>5, <1>6, <1>9
<1> QED BY <1>1, <1>10, <1>11 DEF ThreadInv

\* luaF_newtbcupval: the new variable lies above those that wait already.
LEMMA DeclareCloseKeeps == ThreadInv /\ DeclareClose => ThreadInv'
<1> SUFFICES ASSUME ThreadInv, DeclareClose PROVE ThreadInv'
  OBVIOUS
<1> PICK x : x = [slot |-> FirstFree, var |-> declared + 1]
  OBVIOUS
<1>1. /\ Executing /\ Len(ci.locals) < FrameSize - 1 /\ declared' = declared + 1
      /\ frames' = SetLast(frames, [ci EXCEPT !.locals = Append(@, declared + 1)])
      /\ status' = status /\ running' = running /\ size' = size /\ top' = ci.top
      /\ openupval' = openupval /\ tbclist' = <<x>> \o tbclist /\ errfunc' = errfunc
      /\ marked' = marked \cup {declared + 1} /\ taken' = taken
  BY DEF DeclareClose, Replaced, SetLast
<1>2. /\ Closes(tbclist, declared, marked, taken) /\ Upvalues(frames, openupval)
      /\ tbclist \in Seq(Variable) /\ Sorted(tbclist, ByslotAndVar)
      /\ ExtraStack \in Nat
  BY InvParts
<1>3. /\ declared \in Nat /\ marked \subseteq 1..declared /\ taken \in Seq(Nat)
      /\ \A i, j \in DOMAIN taken : taken[i] = taken[j] => i = j
      /\ Vars(tbclist) \cup In(taken) = marked
      /\ Vars(tbclist) \cap In(taken) = {}
  BY <1>2 DEF Closes
<1>4. /\ running /\ InLua /\ ci.kind = "lua" /\ ci.doing = "run"
      /\ ci.recst = FALSE /\ ci.ypcall = FALSE /\ ci.u2 <= 2
      /\ FirstFree = Last(ci) + 1 /\ FirstFree \in Nat /\ ci.top <= size
  BY <1>1, ExecFacts
<1>5. /\ ci \in FrameType /\ Proper(ci) /\ status = "OK" /\ running = TRUE
      /\ ci.top \in Nat /\ Len(ci.locals) \in Nat /\ size \in Nat
      /\ ci.func \in Nat /\ Last(ci) = ci.func + Len(ci.locals)
      /\ Len(frames) \in Nat /\ Len(frames) > 1 /\ DOMAIN frames = 1..Len(frames)
  BY <1>4, RunningFacts
<1> PICK d \in Nat : d = declared + 1
  BY <1>3
<1>6. PICK g : /\ g \in FrameType /\ g.kind = "lua" /\ g.func = ci.func
               /\ g.top = ci.top /\ g.recst = FALSE /\ g.ypcall = FALSE
               /\ g.old_errfunc = ci.old_errfunc /\ g.doing = "run" /\ g.u2 = ci.u2
               /\ g.locals = Append(ci.locals, d) /\ frames' = SetLast(frames, g)
  <2> DEFINE g == [ci EXCEPT !.locals = Append(@, d)]
  <2>1. /\ g \in FrameType /\ g.kind = "lua" /\ g.func = ci.func
        /\ g.top = ci.top /\ g.recst = FALSE /\ g.ypcall = FALSE
        /\ g.old_errfunc = ci.old_errfunc /\ g.doing = "run" /\ g.u2 = ci.u2
        /\ g.locals = Append(ci.locals, d)
    <3> PICK f : f = ci
      OBVIOUS
    <3>1. Append(f.locals, d) \in Seq(Nat) /\ f \in FrameType
      BY <1>5 DEF FrameType
    <3> QED BY <3>1, <1>4 DEF FrameType
  <2>2. frames' = SetLast(frames, g)
    BY <1>1
  <2> HIDE DEF g
  <2> QED BY <2>1, <2>2
<1>7. /\ \A slot, var : LiveAt(ci, slot, var) => LiveAt(g, slot, var)
      /\ Len(g.locals) = Len(ci.locals) + 1 /\ LiveAt(g, FirstFree, d)
  BY <1>4, <1>5, <1>6, MoreLocals
<1>8. Proper(g)
  <2>1. Len(g.locals) < FrameSize
    BY <1>1, <1>5, <1>7, ThreadAssumption, SMTT(30)
  <2> QED BY <2>1, <1>4, <1>6 DEF Proper
<1> PICK gs : gs = SetLast(frames, g)
  OBVIOUS
<1>9. /\ Chain(gs, errfunc, "OK", TRUE, ci.top, size, tbclist, openupval)
      /\ Len(gs) = Len(frames) /\ gs[Len(frames)] = g /\ DOMAIN gs = DOMAIN frames
  <2>1. ci.top <= size + ExtraStack
    BY <1>2, <1>4, <1>5
  <2> QED BY <2>1, <1>2, <1>4, <1>5, <1>6, <1>7, <1>8, SetKeeps
<1>10. x \in Variable /\ x.slot = FirstFree /\ x.var = d
  BY <1>4 DEF Variable
<1>11. /\ <<x>> \o tbclist \in Seq(Variable)
       /\ In(<<x>> \o tbclist) = In(tbclist) \cup {x}
  BY <1>2, <1>10, InCons
<1>12. ToClose(gs, <<x>> \o tbclist)
  <2>1. ASSUME NEW v \in In(tbclist) PROVE <<x, v>> \in ByslotAndVar
    <3>1. v \in Variable /\ v.slot \in Nat /\ v.slot <= Last(ci)
      BY <1>4, SlotFacts
    <3>2. v.var \in marked
      BY <1>3 DEF Vars
    <3>3. v.var \in Nat /\ v.var < d
      <4>1. v.var \in 1..declared
        BY <3>2, <1>3
      <4> QED BY <4>1, <1>3
    <3>4. v.slot < FirstFree
      BY <3>1, <1>4, <1>5
    <3> QED BY <3>1, <3>3, <3>4, <1>4, <1>10 DEF ByslotAndVar
  <2>2. Sorted(<<x>> \o tbclist, ByslotAndVar)
    BY <2>1, <1>2, <1>10, SortedCons
  <2>3. LiveIn(gs, x.slot, x.var)
    <3>1. Len(frames) \in DOMAIN gs
      BY <1>5, <1>9
    <3> QED BY <3>1, <1>7, <1>9, <1>10 DEF LiveIn
  <2>4. ToClose(gs, tbclist)
    BY <1>9 DEF Chain
  <2> QED BY <2>2, <2>3, <2>4, <1>11 DEF ToClose
<1>13. ValuesKept(gs, <<x>> \o tbclist, ci.top, size)
  BY <1>6, <1>9 DEF ValuesKept
<1>14. Chain(gs, errfunc, "OK", TRUE, ci.top, size, <<x>> \o tbclist, openupval)
  BY <1>9, <1>12, <1>13 DEF Chain
<1>15. Chain(frames', errfunc', status', running', top', size', tbclist', openupval')
  BY <1>1, <1>5, <1>6, <1>14
<1>16. Closes(<<x>> \o tbclist, d, marked \cup {d}, taken)
  <2>1. Vars(<<x>> \o tbclist) = Vars(tbclist) \cup {d}
    BY <1>10, <1>11 DEF Vars
  <2>2. marked \cup {d} \subseteq 1..d /\ d \notin marked
    BY <1>3
  <2>3. Vars(<<x>> \o tbclist) \cup In(taken) = marked \cup {d}
    BY <2>1, <1>3
  <2>4. Vars(<<x>> \o tbclist) \cap In(taken) = {}
    BY <2>1, <2>2, <1>3
  <2> QED BY <2>2, <2>3, <2>4, <1>3 DEF Closes
<1> QED BY <1>1, <1>15, <1>16 DEF ThreadInv

\* luaF_findupval puts the new upvalue between those above and those below.
LEMMA CaptureKeeps == ThreadInv /\ Capture => ThreadInv'
<1> SUFFICES ASSUME ThreadInv, Capture PROVE ThreadInv'
  OBVIOUS
<1>1. /\ Executing
      /\ status' = status /\ running' = running /\ size' = size /\ top' = top
      /\ frames' = frames /\ tbclist' = tbclist /\ errfunc' = errfunc
      /\ marked' = marked /\ taken' = taken /\ declared' = declared
  BY DEF Capture, history
<1>2. PICK i \in DOMAIN ci.locals :
        /\ \A k \in DOMAIN openupval : openupval[k].slot # ci.func + i
        /\ openupval' = Above(openupval, ci.func + i)
                        \o <<[slot |-> ci.func + i, var |-> ci.locals[i]]>>
                        \o Below(openupval, ci.func + i)
  BY DEF Capture
<1>3. /\ running /\ ci.doing = "run" /\ ci.recst = FALSE
  BY <1>1, ExecFacts
<1>4. /\ ci \in FrameType /\ ci.func \in Nat /\ ci.locals \in Seq(Nat)
      /\ Len(frames) \in Nat /\ Len(frames) > 1 /\ DOMAIN frames = 1..Len(frames)
      /\ ci = frames[Len(frames)] /\ Last(ci) = ci.func + Len(ci.locals)
  BY <1>3, RunningFacts
<1>5. /\ openupval \in Seq(Variable) /\ Sorted(openupval, Byslot) /\ Stack(frames)
      /\ Upvalues(frames, openupval)
  BY InvParts
<1>6. i \in Nat /\ i >= 1 /\ ci.locals[i] \in Nat
  BY <1>4
<1> PICK level \in Nat : level = ci.func + i
  BY <1>4, <1>6
<1> PICK x : x = [slot |-> level, var |-> ci.locals[i]]
  OBVIOUS
<1>7. x \in Variable /\ x.slot = level
  BY <1>6 DEF Variable
<1> PICK higher : higher = Above(openupval, level)
  OBVIOUS
<1> PICK lower : lower = Below(openupval, level)
  OBVIOUS
<1>8. /\ lower \in Seq(Variable) /\ Sorted(lower, Byslot)
      /\ In(lower) = { u \in In(openupval) : u.slot < level }
      /\ higher \in Seq(Variable) /\ Sorted(higher, Byslot)
      /\ In(higher) = { u \in In(openupval) : u.slot > level }
  BY <1>5, BelowFacts
<1>9. <<x>> \in Seq(Variable) /\ In(<<x>>) = {x} /\ Sorted(<<x>>, Byslot)
  BY <1>7 DEF In, Sorted
<1>0. ASSUME NEW s \in Seq(Variable), NEW t \in Seq(Variable)
      PROVE  In(s \o t) = In(s) \cup In(t)
  BY InConcat
<1>10. /\ higher \o <<x>> \in Seq(Variable) /\ In(higher \o <<x>>) = In(higher) \cup {x}
  <2>1. In(higher \o <<x>>) = In(higher) \cup In(<<x>>)
    <3> PICK y : y = <<x>>
      OBVIOUS
    <3>1. y \in Seq(Variable)
      BY <1>9
    <3>2. higher \in Seq(Variable)
      BY <1>8
    <3>3. In(higher \o y) = In(higher) \cup In(y)
      BY <3>1, <3>2, <1>0
    <3> QED BY <3>3
  <2>2. higher \o <<x>> \in Seq(Variable)
    BY <1>8, <1>9
  <2> QED BY <2>1, <2>2, <1>9
<1> PICK ups : ups = (higher \o <<x>>) \o lower
  OBVIOUS
<1>11. ups \in Seq(Variable) /\ In(ups) = In(higher) \cup {x} \cup In(lower)
  <2>1. In((higher \o <<x>>) \o lower) = In(higher \o <<x>>) \cup In(lower)
    BY <1>0, <1>8, <1>10
  <2>2. (higher \o <<x>>) \o lower \in Seq(Variable)
    BY <1>8, <1>10
  <2> QED BY <2>1, <2>2, <1>10
<1>12. Sorted(ups, Byslot)
  <2>1. \A u \in In(openupval) : u \in Variable /\ u.slot \in Nat
    BY <1>5, ListTypes
  <2>2. In(higher) \X In(<<x>>) \subseteq Byslot
    BY <2>1, <1>7, <1>8, <1>9 DEF Byslot
  <2>3. Sorted(higher \o <<x>>, Byslot)
    BY <2>2, <1>8, <1>9, SortedConcat
  <2>4. In(higher \o <<x>>) \X In(lower) \subseteq Byslot
    <3>1. ASSUME NEW a \in In(higher \o <<x>>), NEW b \in In(lower)
          PROVE  <<a, b>> \in Byslot
      <4>1. b \in Variable /\ b.slot \in Nat /\ b.slot < level
        BY <2>1, <1>8
      <4>2. a \in Variable /\ a.slot \in Nat /\ level <= a.slot
        BY <2>1, <1>7, <1>8, <1>10, SMTT(30)
      <4>3. a.slot > b.slot
        BY <4>1, <4>2
      <4> QED BY <4>1, <4>2, <4>3 DEF Byslot
    <3> QED BY <3>1
  <2> QED BY <2>3, <2>4, <1>8, <1>10, SortedConcat
<1>13. LiveIn(frames, x.slot, x.var)
  <2>1. level - ci.func = i /\ Len(frames) \in DOMAIN frames
    BY <1>4, <1>6
  <2>2. x.var = ci.locals[i]
    OBVIOUS
  <2>3. LiveAt(ci, level, x.var)
    BY <2>1, <2>2 DEF LiveAt
  <2> QED BY <2>1, <2>3, <1>4, <1>7 DEF LiveIn
<1>14. \A k \in DOMAIN frames : frames[k].doing # "run" => Last(frames[k]) < level
  <2> TAKE k \in DOMAIN frames
  <2> HAVE frames[k].doing # "run"
  <2>1. k < Len(frames) /\ Len(frames) \in DOMAIN frames
    BY <1>3, <1>4
  <2>2. Last(frames[k]) < ci.func /\ Last(frames[k]) \in Nat
    BY <2>1, <1>4, <1>5, Apart
  <2> QED BY <2>2, <1>4, <1>6
<1>15. Upvalues(frames, ups)
  <2>1. \A u \in In(ups) : u \in In(openupval) \/ u = x
    BY <1>8, <1>11
  <2>2. \A u \in In(ups) : \/ LiveIn(frames, u.slot, u.var)
                           \/ frames[Len(frames)].recst
                              /\ frames[Len(frames)].u2 <= u.slot
    BY <2>1, <1>5, <1>13 DEF Upvalues
  <2>3. \A k \in DOMAIN frames : frames[k].doing # "run" =>
          \A u \in In(ups) : ClosedTo(frames[k]) <= u.slot => Last(frames[k]) < u.slot
    BY <2>1, <1>5, <1>7, <1>14 DEF Upvalues
  <2> QED BY <2>2, <2>3, <1>11, <1>12 DEF Upvalues
<1>16. openupval' = ups
  BY <1>2
<1>17. Chain(frames', errfunc', status', running', top', size', tbclist', openupval')
  BY <1>1, <1>15, <1>16, InvParts DEF Chain
<1>18. Closes(tbclist', declared', marked', taken')
  BY <1>1, InvParts
<1> QED BY <1>17, <1>18 DEF ThreadInv

\* The end of a block starts to close the last local.
LEMMA EndBlockKeeps == ThreadInv /\ EndBlock => ThreadInv'
<1> SUFFICES ASSUME ThreadInv, EndBlock PROVE ThreadInv'
  OBVIOUS
<1>1. /\ Executing /\ ci.locals # << >>
      /\ frames' = SetLast(frames, [ci EXCEPT !.doing = "block"])
      /\ status' = status /\ running' = running /\ size' = size /\ top' = ci.top
      /\ openupval' = Below(openupval, ci.func + Len(ci.locals))
      /\ tbclist' = tbclist /\ errfunc' = errfunc
      /\ marked' = marked /\ taken' = taken /\ declared' = declared
  BY DEF EndBlock, Replaced, SetLast, history
<1>2. /\ Closes(tbclist, declared, marked, taken) /\ Upvalues(frames, openupval)
      /\ ExtraStack \in Nat
  BY InvParts
<1>3. /\ running /\ InLua /\ ci.kind = "lua" /\ ci.doing = "run"
      /\ ci.recst = FALSE /\ ci.ypcall = FALSE /\ ci.u2 <= 2 /\ ci.top <= size
      /\ Len(ci.locals) < FrameSize
  BY <1>1, ExecFacts
<1>4. /\ ci \in FrameType /\ Proper(ci) /\ status = "OK" /\ running = TRUE
      /\ ci.top \in Nat /\ size \in Nat /\ Last(ci) = ci.func + Len(ci.locals)
      /\ Last(ci) \in Nat
  BY <1>3, RunningFacts DEF Last
<1>5. PICK g : /\ g \in FrameType /\ g.kind = "lua" /\ g.func = ci.func
               /\ g.top = ci.top /\ g.recst = FALSE /\ g.ypcall = FALSE
               /\ g.old_errfunc = ci.old_errfunc /\ g.doing = "block" /\ g.u2 = ci.u2
               /\ g.locals = ci.locals /\ frames' = SetLast(frames, g)
  <2> DEFINE g == [ci EXCEPT !.doing = "block"]
  <2>1. /\ g \in FrameType /\ g.kind = "lua" /\ g.func = ci.func
        /\ g.top = ci.top /\ g.recst = FALSE /\ g.ypcall = FALSE
        /\ g.old_errfunc = ci.old_errfunc /\ g.doing = "block" /\ g.u2 = ci.u2
        /\ g.locals = ci.locals
    BY <1>3, <1>4 DEF FrameType
  <2>2. frames' = SetLast(frames, g)
    BY <1>1
  <2> HIDE DEF g
  <2> QED BY <2>1, <2>2
<1>6. Proper(g)
  BY <1>1, <1>3, <1>5 DEF Proper
<1>7. \A slot, var : LiveAt(ci, slot, var) => LiveAt(g, slot, var)
  BY <1>5 DEF LiveAt
<1> PICK ups : ups = Below(openupval, Last(ci))
  OBVIOUS
<1>8. Upvalues(frames, ups) /\ \A u \in In(ups) : u.slot \in Nat /\ u.slot < Last(ci)
  BY <1>2, <1>3, BelowUpvalues, SlotFacts
<1>9. \A u \in In(ups) : ClosedTo(g) <= u.slot => Last(g) < u.slot
  <2>1. ClosedTo(g) = Last(ci) /\ Last(g) = Last(ci)
    BY <1>5 DEF ClosedTo, Last
  <2> QED BY <2>1, <1>4, <1>8
<1>10. ci.top <= size + ExtraStack
  BY <1>2, <1>3, <1>4
<1>11. Chain(SetLast(frames, g), errfunc, "OK", TRUE, ci.top, size, tbclist, ups)
  BY <1>3, <1>4, <1>5, <1>6, <1>7, <1>8, <1>9, <1>10, SetKeeps
<1>12. Chain(frames', errfunc', status', running', top', size', tbclist', openupval')
  BY <1>1, <1>4, <1>5, <1>11
<1> QED BY <1>1, <1>2, <1>12 DEF ThreadInv

\* A return starts to close the whole frame.
LEMMA ReturnKeeps == ThreadInv /\ Return => ThreadInv'
<1> SUFFICES ASSUME ThreadInv, Return PROVE ThreadInv'
  OBVIOUS
<1>1. /\ Executing
      /\ status' = status /\ running' = running /\ size' = size
      /\ openupval' = Below(openupval, ci.func + 1)
      /\ tbclist' = tbclist /\ errfunc' = errfunc
      /\ marked' = marked /\ taken' = taken /\ declared' = declared
  BY DEF Return, history
<1>2. PICK nr \in {0, 2} :
        /\ frames' = SetLast(frames, [ci EXCEPT !.doing = "return", !.u2 = nr,
                                                !.nres = nr])
        /\ top' = Bigger(FirstFree + nr, ci.top)
  BY DEF Return, Replaced, SetLast
<1>3. /\ Closes(tbclist, declared, marked, taken) /\ Upvalues(frames, openupval)
      /\ ExtraStack \in Nat /\ ExtraStack >= 5
  BY InvParts
<1>4. /\ running /\ InLua /\ ci.kind = "lua" /\ ci.doing = "run"
      /\ ci.recst = FALSE /\ ci.ypcall = FALSE /\ ci.top <= size
      /\ Len(ci.locals) < FrameSize /\ FirstFree = Last(ci) + 1 /\ FirstFree \in Nat
      /\ FirstFree < ci.top
  BY <1>1, ExecFacts
<1>5. /\ ci \in FrameType /\ Proper(ci) /\ status = "OK" /\ running = TRUE
      /\ ci.top \in Nat /\ size \in Nat /\ Last(ci) = ci.func + Len(ci.locals)
      /\ Last(ci) \in Nat /\ ci.func \in Nat
  BY <1>4, RunningFacts DEF Last
<1>6. nr \in Nat /\ nr <= 2
  OBVIOUS
<1>7. PICK g : /\ g \in FrameType /\ g.kind = "lua" /\ g.func = ci.func
               /\ g.top = ci.top /\ g.recst = FALSE /\ g.ypcall = FALSE
               /\ g.old_errfunc = ci.old_errfunc /\ g.doing = "return" /\ g.u2 = nr
               /\ g.locals = ci.locals /\ frames' = SetLast(frames, g)
  <2> DEFINE g == [ci EXCEPT !.doing = "return", !.u2 = nr, !.nres = nr]
  <2>1. /\ g \in FrameType /\ g.kind = "lua" /\ g.func = ci.func
        /\ g.top = ci.top /\ g.recst = FALSE /\ g.ypcall = FALSE
        /\ g.old_errfunc = ci.old_errfunc /\ g.doing = "return" /\ g.u2 = nr
        /\ g.locals = ci.locals
    BY <1>4, <1>5, <1>6 DEF FrameType
  <2>2. frames' = SetLast(frames, g)
    BY <1>2
  <2> HIDE DEF g
  <2> QED BY <2>1, <2>2
<1>8. Proper(g)
  BY <1>4, <1>6, <1>7 DEF Proper
<1>9. \A slot, var : LiveAt(ci, slot, var) => LiveAt(g, slot, var)
  BY <1>7 DEF LiveAt
<1> PICK ups : ups = Below(openupval, ci.func + 1)
  OBVIOUS
<1>10. Upvalues(frames, ups) /\ \A u \in In(ups) : u.slot \in Nat /\ u.slot < ci.func + 1
  BY <1>3, <1>4, BelowUpvalues, SlotFacts
<1>11. \A u \in In(ups) : ClosedTo(g) <= u.slot => Last(g) < u.slot
  <2>1. ClosedTo(g) = ci.func + 1
    BY <1>7 DEF ClosedTo
  <2> QED BY <2>1, <1>5, <1>10
<1> PICK tp : tp = top'
  OBVIOUS
<1>12. tp \in Nat /\ tp <= ci.top + 1 /\ Last(ci) < tp
  BY <1>2, <1>4, <1>5, <1>6 DEF Bigger
<1>13. tp <= size + ExtraStack
  BY <1>3, <1>4, <1>5, <1>12
<1>14. Last(g) = Last(ci)
  BY <1>7 DEF Last
<1>15. Chain(SetLast(frames, g), errfunc, "OK", TRUE, tp, size, tbclist, ups)
  BY <1>4, <1>5, <1>7, <1>8, <1>9, <1>10, <1>11, <1>12, <1>13, <1>14, SetKeeps
<1>16. Chain(frames', errfunc', status', running', top', size', tbclist', openupval')
  BY <1>1, <1>5, <1>7, <1>15
<1> QED BY <1>1, <1>3, <1>16 DEF ThreadInv

\* Any instruction may raise an error.
LEMMA ErrorKeeps == ThreadInv /\ Error => ThreadInv'
<1> SUFFICES ASSUME ThreadInv, Error PROVE ThreadInv'
  OBVIOUS
<1>1. /\ Executing /\ Throw(frames, ci.top + 1) /\ size' = size
      /\ openupval' = openupval /\ tbclist' = tbclist /\ errfunc' = errfunc
      /\ marked' = marked /\ taken' = taken /\ declared' = declared
  BY DEF Error, history
<1>2. /\ Closes(tbclist, declared, marked, taken) /\ Upvalues(frames, openupval)
      /\ Stack(frames) /\ Handlers(frames, errfunc) /\ ToClose(frames, tbclist)
      /\ ExtraStack \in Nat /\ ExtraStack >= 5 /\ Fit(frames, status, top, size)
  BY InvParts
<1>3. /\ running /\ ci.recst = FALSE /\ ci.top <= size
      /\ FirstFree = Last(ci) + 1 /\ FirstFree \in Nat /\ FirstFree < ci.top
  BY <1>1, ExecFacts
<1>4. /\ status = "OK" /\ running = TRUE /\ ci.top \in Nat /\ size \in Nat
      /\ Len(frames) > 1 /\ Last(ci) = ci.func + Len(ci.locals) /\ Last(ci) \in Nat
  BY <1>3, RunningFacts DEF Last
<1> PICK t \in Nat : t = ci.top + 1
  BY <1>4
<1>5. t + 1 <= size + ExtraStack /\ t <= size + ExtraStack
  BY <1>2, <1>3, <1>4
<1>6. Fit(frames, "OK", t, size)
  BY <1>2, <1>4, <1>5 DEF Fit
<1>7. \A v \in In(tbclist) : v.slot < t /\ v.slot < size
  <2>1. \A v \in In(tbclist) : v.slot \in Nat /\ v.slot <= Last(ci)
    BY <1>3, SlotFacts
  <2> QED BY <2>1, <1>3, <1>4
<1>8. Chain(frames', errfunc, status', running', top', size, tbclist, openupval)
  BY <1>1, <1>2, <1>4, <1>5, <1>6, <1>7, ThrowKeeps
<1>9. Chain(frames', errfunc', status', running', top', size', tbclist', openupval')
  BY <1>1, <1>8
<1> QED BY <1>1, <1>2, <1>9 DEF ThreadInv

\* OP_CALL of a Lua function.
LEMMA CallLuaKeeps == ThreadInv /\ CallLua => ThreadInv'
<1> SUFFICES ASSUME ThreadInv, CallLua PROVE ThreadInv'
  OBVIOUS
<1>1. /\ Executing /\ PrecallLua(frames, size, FirstFree, FirstFree + 1)
      /\ openupval' = openupval /\ tbclist' = tbclist /\ errfunc' = errfunc
      /\ marked' = marked /\ taken' = taken /\ declared' = declared
  BY DEF CallLua, history
<1>2. /\ Closes(tbclist, declared, marked, taken) /\ Upvalues(frames, openupval)
      /\ Stack(frames) /\ Handlers(frames, errfunc) /\ ToClose(frames, tbclist)
      /\ ExtraStack \in Nat /\ ExtraStack >= 5
  BY InvParts
<1>3. /\ running /\ ci.recst = FALSE /\ ci.ypcall = FALSE /\ ci.top <= size
      /\ ci.kind = "lua" /\ ci.doing = "run"
      /\ FirstFree = Last(ci) + 1 /\ FirstFree \in Nat /\ FirstFree < ci.top
  BY <1>1, ExecFacts
<1>4. /\ status = "OK" /\ running = TRUE /\ ci.top \in Nat /\ size \in Nat
      /\ Len(frames) > 1 /\ Last(ci) = ci.func + Len(ci.locals) /\ Last(ci) \in Nat
      /\ ci = frames[Len(frames)]
      /\ \A i \in DOMAIN frames :
           /\ frames[i].top <= size
           /\ frames[i].kind = "lua"
                => frames[i].top = frames[i].func + 1 + FrameSize
  BY <1>3, RunningFacts, SMTT(30) DEF Last
<1> PICK func \in Nat : func = FirstFree
  BY <1>3
<1> PICK t \in Nat : t = func + 1
  OBVIOUS
<1>5. func + 1 <= t /\ t + 2 <= size + ExtraStack
  BY <1>2, <1>3, <1>4
<1>6. LuaFrame(func).func = func /\ LuaFrame(func).kind = "lua"
  BY LuaFrameFacts
<1>7. \A i \in DOMAIN frames : Under(frames[i], LuaFrame(func))
  <2>1. Last(ci) < func
    BY <1>3, <1>4
  <2> QED BY <2>1, <1>3, <1>6, AboveRunning
<1>8. Calls(frames[Len(frames)], LuaFrame(func))
  BY <1>3, <1>4, <1>6 DEF Calls
<1>9. /\ \A v \in In(tbclist) : v.slot \in Nat /\ v.slot < func /\ v.slot < size
      /\ \A u \in In(openupval) : LiveIn(frames, u.slot, u.var)
  <2>1. /\ \A v \in In(tbclist) : v.slot \in Nat /\ v.slot <= Last(ci)
        /\ \A u \in In(openupval) : LiveIn(frames, u.slot, u.var)
    BY <1>3, SlotFacts
  <2> QED BY <2>1, <1>3, <1>4
<1>10. PrecallLua(frames, size, func, t)
  BY <1>1
<1>11. Chain(frames', errfunc, status', running', top', size', tbclist, openupval)
  BY <1>2, <1>4, <1>5, <1>7, <1>8, <1>9, <1>10, PrecallKeeps
<1>12. Chain(frames', errfunc', status', running', top', size', tbclist', openupval')
  BY <1>1, <1>11
<1> QED BY <1>1, <1>2, <1>12 DEF ThreadInv

\* A handler is a slot of the stack, or 0.
LEMMA HandlerType ==
  ASSUME NEW fs, Stack(fs), NEW n \in 0..Len(fs)
  PROVE  HandlerAt(fs, n) \in Nat
<1>1. Len(fs) \in Nat /\ \A i \in 1..Len(fs) : fs[i] \in FrameType
  BY StackFacts
<1>2. n \in Nat
  BY <1>1
<1>3. CASE \A i \in 1..n : ~fs[i].ypcall
  <2>1. HandlerAt(fs, n) = 0
    BY <1>2, <1>3, HandlerFacts
  <2> QED BY <2>1
<1>4. CASE ~ \A i \in 1..n : ~fs[i].ypcall
  <2>1. PICK k \in 1..n : Innermost(fs, n, k)
    BY <1>2, <1>4, HasInnermost
  <2>2. HandlerAt(fs, n) = Handler(fs[k])
    BY <2>1, <1>2, HandlerFacts
  <2>3. fs[k].func \in Nat
    BY <1>1, <1>2 DEF FrameType
  <2>4. Handler(fs[k]) \in Nat
    BY <2>3 DEF Handler
  <2> QED BY <2>2, <2>4
<1> QED BY <1>3, <1>4

\* What lua_pcallk and the body's call do about the frame they push.
EntersCall(func, kind, t, body, call) ==
  /\ func < body /\ body <= t + 1 /\ func < t /\ t <= ci.top
  /\ call.kind = kind /\ call.func = func
  /\ call.top = t + MinStack /\ call.ypcall = TRUE /\ call.recst = FALSE
  /\ call.u2 = body /\ call.old_errfunc = errfunc /\ call.locals = << >>
  /\ call.doing = "run"
  /\ IF Fits(size, t, MinStack) \/ CanGrow(size, t, MinStack)
     THEN /\ errfunc' = Handler(call)
          /\ PrecallLua(Append(frames, call), Grown(size, t, MinStack),
                        body, body + 1)
     ELSE Overflow(frames, size, t) /\ UNCHANGED errfunc

\* lua_pcallk and its body: the protected call's frame installs its handler.
LEMMA PCallKeeps == ThreadInv /\ PCall => ThreadInv'
<1> SUFFICES ASSUME ThreadInv, PCall PROVE ThreadInv'
  OBVIOUS
<1>1. /\ Executing /\ openupval' = openupval /\ tbclist' = tbclist
      /\ marked' = marked /\ taken' = taken /\ declared' = declared
  BY DEF PCall, history
<1>2. /\ Closes(tbclist, declared, marked, taken) /\ Upvalues(frames, openupval)
      /\ Stack(frames) /\ Handlers(frames, errfunc) /\ ToClose(frames, tbclist)
      /\ ExtraStack \in Nat /\ ExtraStack >= 5 /\ MinStack \in Nat /\ MinStack >= 3
  BY InvParts
<1>3. /\ running /\ ci.recst = FALSE /\ ci.ypcall = FALSE /\ ci.top <= size
      /\ ci.kind = "lua" /\ ci.doing = "run"
      /\ FirstFree = Last(ci) + 1 /\ FirstFree \in Nat /\ FirstFree < ci.top
  BY <1>1, ExecFacts
<1>4. /\ status = "OK" /\ running = TRUE /\ ci.top \in Nat /\ size \in Nat
      /\ Len(frames) > 1 /\ Last(ci) = ci.func + Len(ci.locals) /\ Last(ci) \in Nat
      /\ ci = frames[Len(frames)] /\ frames \in Seq(FrameType) /\ Len(frames) \in Nat
      /\ DOMAIN frames = 1..Len(frames)
      /\ \A i \in DOMAIN frames :
           /\ frames[i].top \in Nat /\ frames[i].top <= size
           /\ frames[i].kind = "lua"
                => frames[i].top = frames[i].func + 1 + FrameSize
  BY <1>3, RunningFacts DEF Last
<1>5. errfunc \in Nat
  <2>1. errfunc = HandlerAt(frames, Len(frames)) /\ Len(frames) \in 0..Len(frames)
    BY <1>2, <1>4 DEF Handlers
  <2> QED BY <2>1, <1>2, HandlerType
<1> PICK func \in Nat : func = FirstFree
  BY <1>3
<1>6. PICK kind \in {"pcall", "xpcall"}, t \in Nat, body \in Nat, call \in FrameType :
        EntersCall(func, kind, t, body, call)
  <2>1. PICK kind \in {"pcall", "xpcall"} :
        LET t == func + (IF kind = "pcall" THEN 2 ELSE 3)
            body == func + (IF kind = "pcall" THEN 2 ELSE 4)
            call == [Frame(kind, func, t + MinStack) EXCEPT
                       !.ypcall = TRUE, !.u2 = body, !.old_errfunc = errfunc]
        IN /\ t <= ci.top
           /\ IF Fits(size, t, MinStack) \/ CanGrow(size, t, MinStack)
              THEN /\ errfunc' = IF kind = "xpcall" THEN func + 2 ELSE 0
                   /\ PrecallLua(Append(frames, call), Grown(size, t, MinStack),
                                 body, body + 1)
              ELSE Overflow(frames, size, t) /\ UNCHANGED errfunc
    BY DEF PCall
  <2> PICK t \in Nat : t = func + (IF kind = "pcall" THEN 2 ELSE 3)
    OBVIOUS
  <2> PICK body \in Nat : body = func + (IF kind = "pcall" THEN 2 ELSE 4)
    OBVIOUS
  <2> PICK call : call = [Frame(kind, func, t + MinStack) EXCEPT
                            !.ypcall = TRUE, !.u2 = body, !.old_errfunc = errfunc]
    OBVIOUS
  <2>2. /\ t <= ci.top
        /\ IF Fits(size, t, MinStack) \/ CanGrow(size, t, MinStack)
           THEN /\ errfunc' = IF kind = "xpcall" THEN func + 2 ELSE 0
                /\ PrecallLua(Append(frames, call), Grown(size, t, MinStack),
                              body, body + 1)
           ELSE Overflow(frames, size, t) /\ UNCHANGED errfunc
    BY <2>1
  <2>3. func < body /\ body <= t + 1 /\ func < t
    OBVIOUS
  <2>4. /\ call \in FrameType /\ call.kind = kind /\ call.func = func
        /\ call.top = t + MinStack /\ call.ypcall = TRUE /\ call.recst = FALSE
        /\ call.u2 = body /\ call.old_errfunc = errfunc /\ call.locals = << >>
        /\ call.doing = "run"
    <3>1. t + MinStack \in Nat /\ kind \in Kinds
      BY <1>2 DEF Kinds
    <3>2. << >> \in Seq(Nat)
      OBVIOUS
    <3> QED BY <3>1, <3>2, <1>5 DEF Frame, FrameType
  <2>5. Handler(call) = IF kind = "xpcall" THEN func + 2 ELSE 0
    BY <2>4 DEF Handler
  <2>7. IF Fits(size, t, MinStack) \/ CanGrow(size, t, MinStack)
        THEN /\ errfunc' = Handler(call)
             /\ PrecallLua(Append(frames, call), Grown(size, t, MinStack),
                           body, body + 1)
        ELSE Overflow(frames, size, t) /\ UNCHANGED errfunc
    <3>1. CASE Fits(size, t, MinStack) \/ CanGrow(size, t, MinStack)
      BY <3>1, <2>2, <2>5
    <3>2. CASE ~(Fits(size, t, MinStack) \/ CanGrow(size, t, MinStack))
      BY <3>2, <2>2
    <3> QED BY <3>1, <3>2
  <2>8. t <= ci.top
    BY <2>2
  <2>9. EntersCall(func, kind, t, body, call) /\ call \in FrameType
    BY <2>3, <2>4, <2>7, <2>8 DEF EntersCall
  <2> QED BY <2>9
<1>7. /\ func < body /\ body <= t + 1 /\ func < t /\ t <= ci.top
      /\ call.kind = kind /\ call.func = func
      /\ call.top = t + MinStack /\ call.ypcall = TRUE /\ call.recst = FALSE
      /\ call.u2 = body /\ call.old_errfunc = errfunc /\ call.locals = << >>
      /\ call.doing = "run"
  BY <1>6 DEF EntersCall
<1>8. IF Fits(size, t, MinStack) \/ CanGrow(size, t, MinStack)
      THEN /\ errfunc' = Handler(call)
           /\ PrecallLua(Append(frames, call), Grown(size, t, MinStack),
                         body, body + 1)
      ELSE Overflow(frames, size, t) /\ UNCHANGED errfunc
  BY <1>6 DEF EntersCall
<1>9. /\ \A v \in In(tbclist) : v.slot \in Nat /\ v.slot < func /\ v.slot < size
      /\ \A u \in In(openupval) : LiveIn(frames, u.slot, u.var)
  <2>1. /\ \A v \in In(tbclist) : v.slot \in Nat /\ v.slot <= Last(ci)
        /\ \A u \in In(openupval) : LiveIn(frames, u.slot, u.var)
    BY <1>3, SlotFacts
  <2> QED BY <2>1, <1>3, <1>4
<1>10. CASE ~(Fits(size, t, MinStack) \/ CanGrow(size, t, MinStack))
  <2>1. Overflow(frames, size, t) /\ errfunc' = errfunc
    BY <1>8, <1>10
  <2>2. t + 2 <= size + ExtraStack
    BY <1>2, <1>3, <1>4, <1>7
  <2>3. \A v \in In(tbclist) : v.slot \in Nat /\ v.slot < t + 1 /\ v.slot < size
    BY <1>7, <1>9
  <2>4. Chain(frames', errfunc, status', running', top', size', tbclist, openupval)
    BY <2>1, <2>2, <2>3, <1>2, <1>4, OverflowKeeps
  <2>5. Chain(frames', errfunc', status', running', top', size', tbclist', openupval')
    BY <2>1, <2>4, <1>1
  <2> QED BY <2>5, <1>1, <1>2 DEF ThreadInv
<1>11. CASE Fits(size, t, MinStack) \/ CanGrow(size, t, MinStack)
  <2>1. /\ call \in FrameType /\ call.kind = kind /\ call.func = func
        /\ call.top = t + MinStack /\ call.ypcall = TRUE /\ call.recst = FALSE
        /\ call.u2 = body /\ call.old_errfunc = errfunc /\ call.locals = << >>
        /\ call.doing = "run"
    BY <1>7
  <2>2. Proper(call)
    BY <2>1, <1>7 DEF Proper
  <2>3. Last(call) = func
    BY <2>1 DEF Last
  <2>4. \A i \in DOMAIN frames : Under(frames[i], call)
    <3>1. Last(ci) < call.func /\ call.func \in Nat
      BY <2>1, <1>3, <1>4
    <3> QED BY <3>1, <1>3, AboveRunning
  <2>5. Calls(frames[Len(frames)], call)
    BY <2>1, <1>3, <1>4 DEF Calls
  <2> PICK fs : fs = Append(frames, call)
    OBVIOUS
  <2>6. /\ Len(fs) = Len(frames) + 1 /\ DOMAIN fs = 1..(Len(frames) + 1)
        /\ fs[Len(frames) + 1] = call /\ fs[Len(fs)] = call
        /\ \A i \in 1..Len(frames) : fs[i] = frames[i]
    BY <2>1, <1>4, PushSeq
  <2>7. Stack(fs) /\ Len(fs) > 1
    BY <2>2, <2>4, <2>5, <2>6, <1>2, <1>4, PushStack
  <2>8. Handlers(fs, errfunc')
    <3>1. Handlers(fs, IF call.ypcall THEN Handler(call) ELSE errfunc)
      BY <2>1, <1>2, PushHandlers
    <3>2. errfunc' = Handler(call)
      BY <1>8, <1>11
    <3> QED BY <3>1, <3>2, <2>1
  <2>9. ToClose(fs, tbclist)
    <3>1. \A v \in In(tbclist) : v.slot < call.func
      BY <2>1, <1>9
    <3> QED BY <3>1, <2>1, <1>2, PushClose
  <2>10. Upvalues(fs, openupval)
    BY <2>1, <1>2, <1>9, PushUpvalues
  <2>11. \A u \in In(openupval) : LiveIn(fs, u.slot, u.var)
    <3>1. \A i \in DOMAIN frames : i \in DOMAIN fs /\ fs[i] = frames[i]
      BY <2>6, <1>4
    <3> QED BY <3>1, <1>9 DEF LiveIn
  <2>12. PICK sz \in Nat : sz = Grown(size, t, MinStack) /\ size <= sz
                           /\ t + MinStack <= sz
    BY <1>2, <1>4, GrownFacts
  <2>13. LuaFrame(body).func = body /\ LuaFrame(body).kind = "lua"
    BY LuaFrameFacts
  <2>14. \A i \in DOMAIN fs : Under(fs[i], LuaFrame(body))
    <3> TAKE i \in DOMAIN fs
    <3>1. CASE i = Len(frames) + 1
      BY <3>1, <2>1, <2>3, <2>6, <2>13, <1>7 DEF Under
    <3>2. CASE i # Len(frames) + 1
      <4>1. i \in DOMAIN frames /\ fs[i] = frames[i]
        BY <3>2, <2>6, <1>4
      <4>2. \A j \in DOMAIN frames : Under(frames[j], LuaFrame(body))
        <5>1. Last(ci) < body
          BY <1>3, <1>4, <1>7
        <5> QED BY <5>1, <2>13, <1>3, AboveRunning
      <4> QED BY <4>1, <4>2
    <3> QED BY <3>1, <3>2
  <2>15. Calls(fs[Len(fs)], LuaFrame(body))
    BY <2>1, <2>6, <2>13 DEF Calls
  <2>16. \A v \in In(tbclist) : v.slot \in Nat /\ v.slot < body /\ v.slot < sz
    BY <2>12, <1>4, <1>7, <1>9
  <2> PICK t2 \in Nat : t2 = body + 1
    OBVIOUS
  <2>17. body + 1 <= t2 /\ t2 + 2 <= sz + ExtraStack
    <3>1. body + 3 <= t + MinStack + ExtraStack
      BY <1>2, <1>7
    <3>2. t + MinStack + ExtraStack <= sz + ExtraStack
      BY <2>12, <1>2
    <3> QED BY <3>1, <3>2, <1>2
  <2>18. \A i \in DOMAIN fs : /\ fs[i].top <= sz
                              /\ fs[i].kind = "lua"
                                   => fs[i].top = fs[i].func + 1 + FrameSize
    <3> TAKE i \in DOMAIN fs
    <3>1. CASE i = Len(frames) + 1
      <4>1. fs[i] = call
        BY <3>1, <2>6
      <4>2. call.top <= sz /\ call.kind # "lua"
        BY <2>1, <2>12
      <4> QED BY <4>1, <4>2
    <3>2. CASE i # Len(frames) + 1
      <4>1. i \in DOMAIN frames /\ fs[i] = frames[i]
        BY <3>2, <2>6, <1>4
      <4>2. frames[i].top \in Nat /\ frames[i].top <= size
        BY <4>1, <1>4
      <4>3. frames[i].top <= sz
        BY <4>2, <2>12, <1>4
      <4> QED BY <4>1, <4>3, <1>4
    <3> QED BY <3>1, <3>2
  <2>19. PrecallLua(fs, sz, body, t2)
    BY <2>12, <1>8, <1>11
  <2>20. Chain(frames', errfunc', status', running', top', size', tbclist, openupval)
    <3> PICK ef : ef = errfunc'
      OBVIOUS
    <3>1. Chain(frames', ef, status', running', top', size', tbclist, openupval)
      BY <2>7, <2>8, <2>9, <2>10, <2>11, <2>14, <2>15, <2>16, <2>17, <2>18, <2>19,
         <1>4, PrecallKeeps, ZenonT(40)
    <3> QED BY <3>1
  <2>21. Chain(frames', errfunc', status', running', top', size', tbclist', openupval')
    BY <2>20, <1>1
  <2> QED BY <2>21, <1>1, <1>2 DEF ThreadInv
<1> QED BY <1>10, <1>11

\* coroutine.yield.
LEMMA YieldKeeps == ThreadInv /\ Yield => ThreadInv'
<1> SUFFICES ASSUME ThreadInv, Yield PROVE ThreadInv'
  OBVIOUS
<1>1. /\ Executing /\ openupval' = openupval /\ tbclist' = tbclist
      /\ marked' = marked /\ taken' = taken /\ declared' = declared
      /\ errfunc' = errfunc
  BY DEF Yield, history
<1>2. /\ Closes(tbclist, declared, marked, taken) /\ Upvalues(frames, openupval)
      /\ Stack(frames) /\ Handlers(frames, errfunc) /\ ToClose(frames, tbclist)
      /\ ExtraStack \in Nat /\ ExtraStack >= 5 /\ MinStack \in Nat /\ MinStack >= 3
  BY InvParts
<1>3. /\ running /\ ci.recst = FALSE /\ ci.ypcall = FALSE /\ ci.top <= size
      /\ ci.kind = "lua" /\ ci.doing = "run"
      /\ FirstFree = Last(ci) + 1 /\ FirstFree \in Nat /\ FirstFree < ci.top
  BY <1>1, ExecFacts
<1>4. /\ status = "OK" /\ running = TRUE /\ ci.top \in Nat /\ size \in Nat
      /\ Len(frames) > 1 /\ Last(ci) = ci.func + Len(ci.locals) /\ Last(ci) \in Nat
      /\ ci = frames[Len(frames)] /\ frames \in Seq(FrameType) /\ Len(frames) \in Nat
      /\ DOMAIN frames = 1..Len(frames)
      /\ \A i \in DOMAIN frames :
           /\ frames[i].top \in Nat /\ frames[i].top <= size
           /\ frames[i].kind = "lua"
                => frames[i].top = frames[i].func + 1 + FrameSize
  BY <1>3, RunningFacts DEF Last
<1> PICK func \in Nat : func = FirstFree
  BY <1>3
<1> PICK t \in Nat : t = func + 1
  OBVIOUS
<1>5. IF Fits(size, t, MinStack) \/ CanGrow(size, t, MinStack)
      THEN /\ frames' = Append(frames, Frame("yield", func, t + MinStack))
           /\ size' = Grown(size, t, MinStack)
           /\ status' = "YIELD" /\ running' = FALSE /\ top' = t
      ELSE Overflow(frames, size, t)
  BY DEF Yield
<1>6. /\ \A v \in In(tbclist) : v.slot \in Nat /\ v.slot < func /\ v.slot < size
      /\ \A u \in In(openupval) : LiveIn(frames, u.slot, u.var)
  <2>1. /\ \A v \in In(tbclist) : v.slot \in Nat /\ v.slot <= Last(ci)
        /\ \A u \in In(openupval) : LiveIn(frames, u.slot, u.var)
    BY <1>3, SlotFacts
  <2> QED BY <2>1, <1>3, <1>4
<1>7. CASE ~(Fits(size, t, MinStack) \/ CanGrow(size, t, MinStack))
  <2>1. Overflow(frames, size, t)
    BY <1>5, <1>7
  <2>2. t + 2 <= size + ExtraStack
    BY <1>2, <1>3, <1>4, SMTT(30)
  <2>3. \A v \in In(tbclist) : v.slot \in Nat /\ v.slot < t + 1 /\ v.slot < size
    BY <1>6
  <2>4. Chain(frames', errfunc, status', running', top', size', tbclist, openupval)
    BY <2>1, <2>2, <2>3, <1>2, <1>4, OverflowKeeps
  <2>5. Chain(frames', errfunc', status', running', top', size', tbclist', openupval')
    BY <2>4, <1>1
  <2> QED BY <2>5, <1>1, <1>2 DEF ThreadInv
<1>8. CASE Fits(size, t, MinStack) \/ CanGrow(size, t, MinStack)
  <2>1. /\ frames' = Append(frames, Frame("yield", func, t + MinStack))
        /\ size' = Grown(size, t, MinStack)
        /\ status' = "YIELD" /\ running' = FALSE /\ top' = t
    BY <1>5, <1>8
  <2>2. PICK g \in FrameType :
           /\ frames' = Append(frames, g) /\ g.kind = "yield" /\ g.func = func
           /\ g.top = t + MinStack /\ g.u2 = 0 /\ g.ypcall = FALSE
           /\ g.recst = FALSE /\ g.locals = << >> /\ g.doing = "run"
    <3> DEFINE g == Frame("yield", func, t + MinStack)
    <3>1. g \in FrameType
      <4>1. t + MinStack \in Nat /\ << >> \in Seq(Nat)
        BY <1>2
      <4> QED BY <4>1 DEF Frame, FrameType, Kinds
    <3>2. /\ g.kind = "yield" /\ g.func = func /\ g.top = t + MinStack /\ g.u2 = 0
          /\ g.ypcall = FALSE /\ g.recst = FALSE /\ g.locals = << >> /\ g.doing = "run"
      BY DEF Frame
    <3>3. frames' = Append(frames, g)
      BY <2>1
    <3> HIDE DEF g
    <3> QED BY <3>1, <3>2, <3>3
  <2>3. Proper(g)
    BY <2>2 DEF Proper
  <2>4. \A i \in DOMAIN frames : Under(frames[i], g)
    <3>1. Last(ci) < g.func /\ g.func \in Nat
      BY <2>2, <1>3, <1>4
    <3> QED BY <3>1, <1>3, AboveRunning
  <2>5. Calls(frames[Len(frames)], g)
    BY <2>2, <1>3, <1>4 DEF Calls
  <2> PICK fs : fs = Append(frames, g)
    OBVIOUS
  <2>6. /\ Len(fs) = Len(frames) + 1 /\ DOMAIN fs = 1..(Len(frames) + 1)
        /\ fs[Len(frames) + 1] = g /\ fs[Len(fs)] = g
        /\ \A i \in 1..Len(frames) : fs[i] = frames[i]
    BY <2>2, <1>4, PushSeq
  <2>7. Stack(fs)
    BY <2>3, <2>4, <2>5, <1>2, PushStack
  <2>8. Handlers(fs, errfunc)
    <3>1. Handlers(fs, IF g.ypcall THEN Handler(g) ELSE errfunc)
      BY <2>2, <1>2, PushHandlers
    <3> QED BY <3>1, <2>2
  <2>9. ToClose(fs, tbclist)
    <3>1. \A v \in In(tbclist) : v.slot < g.func
      BY <2>2, <1>6
    <3> QED BY <3>1, <1>2, PushClose
  <2>10. Upvalues(fs, openupval)
    BY <2>2, <1>2, <1>6, PushUpvalues
  <2>11. PICK sz \in Nat : sz = Grown(size, t, MinStack) /\ size <= sz
                           /\ t + MinStack <= sz
    BY <1>2, <1>4, GrownFacts, ZenonT(40)
  <2>12. Status(fs, "YIELD", FALSE, t)
    BY <2>2, <2>6 DEF Status
  <2>13. Fit(fs, "YIELD", t, sz)
    <3>1. t <= sz + ExtraStack
      <4>1. t + MinStack <= sz
        BY <2>11
      <4> QED BY <4>1, <1>2
    <3>2. \A i \in DOMAIN fs : /\ fs[i].top <= sz
                               /\ fs[i].kind = "lua"
                                    => fs[i].top = fs[i].func + 1 + FrameSize
      <4> TAKE i \in DOMAIN fs
      <4>1. CASE i = Len(frames) + 1
        <5>1. fs[i] = g
          BY <4>1, <2>6
        <5>2. g.top <= sz /\ g.kind # "lua"
          BY <2>2, <2>11
        <5> QED BY <5>1, <5>2
      <4>2. CASE i # Len(frames) + 1
        <5>1. i \in DOMAIN frames /\ fs[i] = frames[i]
          BY <4>2, <2>6, <1>4
        <5>2. frames[i].top \in Nat /\ frames[i].top <= size
          BY <5>1, <1>4
        <5>3. frames[i].top <= sz
          BY <5>2, <2>11, <1>4
        <5> QED BY <5>1, <5>3, <1>4
      <4> QED BY <4>1, <4>2
    <3> QED BY <3>1, <3>2 DEF Fit
  <2>14. ValuesKept(fs, tbclist, t, sz)
    BY <2>2, <2>6 DEF ValuesKept
  <2>15. Chain(fs, errfunc, "YIELD", FALSE, t, sz, tbclist, openupval)
    BY <2>7, <2>8, <2>9, <2>10, <2>12, <2>13, <2>14 DEF Chain
  <2>16. Chain(frames', errfunc', status', running', top', size', tbclist', openupval')
    BY <2>1, <2>2, <2>11, <2>15, <1>1
  <2> QED BY <2>16, <1>1, <1>2 DEF ThreadInv
<1> QED BY <1>7, <1>8

\* What a list of variables to close keeps when its head is closed.
LEMMA TailClose ==
  ASSUME NEW fs, NEW tbc, ToClose(fs, tbc), tbc # << >>
  PROVE  /\ ToClose(fs, Tail(tbc))
         /\ Head(tbc) \in Variable /\ Head(tbc) \in In(tbc)
         /\ In(tbc) = {Head(tbc)} \cup In(Tail(tbc))
         /\ \A v \in In(Tail(tbc)) : /\ v.slot \in Nat /\ v.slot < Head(tbc).slot
                                     /\ v.var < Head(tbc).var
<1>1. tbc \in Seq(Variable) /\ Sorted(tbc, ByslotAndVar)
  BY DEF ToClose
<1> PICK rest : rest = Tail(tbc)
  OBVIOUS
<1>2. rest \in Seq(Variable)
  BY <1>1
<1>3. Sorted(rest, ByslotAndVar) /\ {Head(tbc)} \X In(rest) \subseteq ByslotAndVar
  BY <1>1, SortedTail
<1>4. In(tbc) = {Head(tbc)} \cup In(rest)
  BY <1>1, InHeadTail
<1>5. Head(tbc) \in Variable
  BY <1>1
<1>6. ToClose(fs, rest)
  BY <1>2, <1>3, <1>4 DEF ToClose
<1>7. ASSUME NEW v \in In(rest)
      PROVE  v.slot \in Nat /\ v.slot < Head(tbc).slot /\ v.var < Head(tbc).var
  <2>1. <<Head(tbc), v>> \in ByslotAndVar
    BY <1>3
  <2>2. v.slot \in Nat /\ v.var \in Nat
    BY <1>2, ListTypes
  <2>3. Head(tbc).slot > v.slot /\ Head(tbc).var > v.var
    BY <2>1 DEF ByslotAndVar
  <2> QED BY <2>2, <2>3
<1> QED BY <1>4, <1>5, <1>6, <1>7

\* Its variable was never closed, and never will be again.
LEMMA CloseOnce ==
  ASSUME NEW fs, NEW tbc, ToClose(fs, tbc), tbc # << >>, NEW decl, NEW mark, NEW cl,
         Closes(tbc, decl, mark, cl)
  PROVE  Closes(Tail(tbc), decl, mark, Append(cl, Head(tbc).var))
<1>1. /\ Head(tbc) \in Variable /\ Head(tbc) \in In(tbc)
      /\ In(tbc) = {Head(tbc)} \cup In(Tail(tbc))
      /\ \A v \in In(Tail(tbc)) : v.var < Head(tbc).var
  BY TailClose
<1>2. /\ decl \in Nat /\ mark \subseteq 1..decl /\ cl \in Seq(Nat)
      /\ \A i, j \in DOMAIN cl : cl[i] = cl[j] => i = j
      /\ Vars(tbc) \cup In(cl) = mark /\ Vars(tbc) \cap In(cl) = {}
  BY DEF Closes
<1> PICK x : x = Head(tbc).var
  OBVIOUS
<1>3. x \in Nat
  BY <1>1 DEF Variable
<1>4. Vars(tbc) = {x} \cup Vars(Tail(tbc)) /\ x \notin Vars(Tail(tbc))
  <2>1. Vars(tbc) = {x} \cup Vars(Tail(tbc))
    BY <1>1 DEF Vars
  <2>2. ASSUME x \in Vars(Tail(tbc)) PROVE FALSE
    <3>1. PICK v \in In(Tail(tbc)) : v.var = x
      BY <2>2 DEF Vars
    <3> QED BY <3>1, <1>1, <1>3
  <2> QED BY <2>1, <2>2
<1> PICK cs : cs = Append(cl, x)
  OBVIOUS
<1>5. /\ cs \in Seq(Nat) /\ In(cs) = In(cl) \cup {x}
      /\ DOMAIN cs = 1..(Len(cl) + 1) /\ cs[Len(cl) + 1] = x
      /\ \A i \in 1..Len(cl) : cs[i] = cl[i]
  BY <1>2, <1>3, InAppend, PushSeq
<1>6. x \notin In(cl)
  BY <1>2, <1>4
<1>7. \A i, j \in DOMAIN cs : cs[i] = cs[j] => i = j
  <2>1. DOMAIN cl = 1..Len(cl) /\ Len(cl) \in Nat
    BY <1>2
  <2>2. \A i \in DOMAIN cl : cl[i] # x
    BY <1>6 DEF In
  <2>3. \A i \in DOMAIN cs : i = Len(cl) + 1 \/ (i \in DOMAIN cl /\ cs[i] = cl[i])
    BY <2>1, <1>5
  <2> QED BY <2>2, <2>3, <1>2, <1>5
<1>8. Vars(Tail(tbc)) \cup In(cs) = mark /\ Vars(Tail(tbc)) \cap In(cs) = {}
  BY <1>2, <1>4, <1>5, <1>6
<1>9. Closes(Tail(tbc), decl, mark, cs)
  BY <1>2, <1>5, <1>7, <1>8 DEF Closes
<1> QED BY <1>9

\* The call of a __close method has its place, above the variable.
CallFits(func, t, slot) ==
  /\ func \in Nat /\ t \in Nat /\ slot < func /\ slot < size
  /\ Last(ci) < func /\ (ci.ypcall => ci.u2 <= func)
  /\ ci.doing = "return" => func <= ci.top + 1
  /\ func + 1 <= t
  /\ \/ t + 2 <= size + ExtraStack
     \/ ci.ypcall /\ t + 1 <= size + ExtraStack

\* The error object and the call go above the value of the variable closed.
LEMMA RecoveryCallFits ==
  ASSUME ThreadInv, running, ci.recst, NEW v \in In(tbclist), ci.u2 <= v.slot
  PROVE  CallFits(v.slot + 2, v.slot + 5, v.slot)
<1>1. /\ tbclist \in Seq(Variable) /\ ExtraStack \in Nat /\ ExtraStack >= 5
      /\ ValuesKept(frames, tbclist, top, size)
  BY InvParts
<1>2. /\ ci = frames[Len(frames)] /\ ci \in FrameType /\ Proper(ci)
      /\ ci.func \in Nat /\ ci.u2 \in Nat /\ size \in Nat
      /\ Last(ci) = ci.func + Len(ci.locals)
  BY RunningFacts
<1>3. ci.ypcall /\ ci.u2 > ci.func /\ ci.kind # "lua"
  BY <1>2 DEF Proper
<1>4. ci.locals = << >> /\ ci.doing = "run"
  BY <1>2, <1>3 DEF Proper
<1>5. Last(ci) = ci.func
  BY <1>2, <1>4
<1>6. v.slot \in Nat /\ v.slot < size
  BY <1>1, <1>2, ListTypes DEF ValuesKept
<1> PICK s \in Nat : s = v.slot
  BY <1>6
<1>7. s + 5 + 1 <= size + ExtraStack
  BY <1>1, <1>2, <1>6
<1>8. ci.u2 <= s /\ s < size
  BY <1>6
<1>9. Last(ci) < s + 2 /\ ci.u2 <= s + 2 /\ s < s + 2 /\ s + 2 + 1 <= s + 5
  BY <1>2, <1>3, <1>5, <1>8
<1>10. CallFits(s + 2, s + 5, s)
  BY <1>3, <1>4, <1>7, <1>8, <1>9 DEF CallFits
<1> QED BY <1>10

\* At the end of a block that is the next register, at a return the top.
LEMMA ExitCallFits ==
  ASSUME ThreadInv, running, ~ci.recst, ci.doing # "run",
         NEW v \in In(tbclist), NEW func,
         IF ci.doing = "block" THEN Last(ci) <= v.slot /\ func = v.slot + 1
                               ELSE func = top
  PROVE  CallFits(func, func + 2, v.slot)
<1>1. /\ ExtraStack \in Nat /\ ExtraStack >= 5 /\ FrameSize \in Nat
      /\ Status(frames, status, running, top)
  BY InvParts
<1>2. /\ ci = frames[Len(frames)] /\ ci \in FrameType /\ Proper(ci)
      /\ ci.func \in Nat /\ size \in Nat /\ ci.top \in Nat /\ top \in Nat
      /\ Last(ci) = ci.func + Len(ci.locals) /\ Len(ci.locals) \in Nat
      /\ DOMAIN frames = 1..Len(frames) /\ Len(frames) \in Nat /\ Len(frames) > 1
      /\ \A i \in DOMAIN frames :
           /\ frames[i].top <= size
           /\ frames[i].kind = "lua" => frames[i].top = frames[i].func + 1 + FrameSize
  BY RunningFacts
<1>3. ci.kind = "lua"
  BY <1>2 DEF Proper
<1>4. ~ci.ypcall /\ Len(ci.locals) < FrameSize
  BY <1>2, <1>3 DEF Proper
<1>5. ci.top <= size /\ ci.top = ci.func + 1 + FrameSize
  <2>1. Len(frames) \in DOMAIN frames
    BY <1>2
  <2> QED BY <2>1, <1>2, <1>3
<1>6. Last(ci) + 1 < ci.top
  BY <1>1, <1>2, <1>4, <1>5
<1>7. v.slot \in Nat /\ v.slot <= Last(ci)
  BY SlotFacts
<1> PICK s \in Nat : s = v.slot
  BY <1>7
<1>8. CASE ci.doing = "block"
  <2>1. func = Last(ci) + 1 /\ s = Last(ci) /\ Last(ci) \in Nat
    <3>1. Last(ci) <= v.slot /\ func = v.slot + 1
      BY <1>8
    <3>2. Last(ci) <= s /\ func = s + 1 /\ s <= Last(ci)
      BY <3>1, <1>7
    <3>3. Last(ci) \in Nat
      BY <1>2
    <3> QED BY <3>2, <3>3
  <2>2. func + 2 + 2 <= size + ExtraStack
    BY <2>1, <1>1, <1>2, <1>5, <1>6, SMTT(30)
  <2>3. s < func /\ s < size /\ Last(ci) < func /\ func \in Nat
        /\ func + 1 <= func + 2
    BY <2>1, <1>2, <1>5, <1>6, SMTT(30)
  <2>4. CallFits(func, func + 2, s)
    BY <2>2, <2>3, <1>4, <1>8 DEF CallFits
  <2> QED BY <2>4
<1>9. CASE ci.doing = "return"
  <2>1. func = top /\ Last(ci) < func /\ func <= ci.top + 1 /\ Last(ci) \in Nat
    BY <1>1, <1>2, <1>9 DEF Status
  <2>2. func + 2 + 2 <= size + ExtraStack
    BY <2>1, <1>1, <1>2, <1>5, SMTT(30)
  <2>3. s < size /\ s < func
    BY <2>1, <1>2, <1>5, <1>6, <1>7
  <2>4. CallFits(func, func + 2, s)
    BY <2>1, <2>2, <2>3, <1>1, <1>2, <1>4 DEF CallFits
  <2> QED BY <2>4
<1>10. ci.doing \in {"run", "block", "return"}
  BY <1>2 DEF FrameType
<1> QED BY <1>8, <1>9, <1>10

\* One turn of luaF_close.
LEMMA CallCloseKeeps == ThreadInv /\ CallClose => ThreadInv'
<1> SUFFICES ASSUME ThreadInv, CallClose PROVE ThreadInv'
  OBVIOUS
<1>1. /\ running /\ (ci.doing # "run" \/ ci.recst)
      /\ tbclist # << >> /\ Head(tbclist).slot >= Level
      /\ tbclist' = Tail(tbclist) /\ taken' = Append(taken, Head(tbclist).var)
      /\ openupval' = Below(openupval, Level)
      /\ errfunc' = errfunc /\ declared' = declared /\ marked' = marked
  BY DEF CallClose, Closing, Pending
<1>2. /\ Closes(tbclist, declared, marked, taken) /\ Upvalues(frames, openupval)
      /\ Stack(frames) /\ Handlers(frames, errfunc) /\ ToClose(frames, tbclist)
  BY InvParts
<1>3. /\ status = "OK" /\ running = TRUE /\ size \in Nat /\ Len(frames) > 1
      /\ ci = frames[Len(frames)] /\ ci \in FrameType /\ Proper(ci)
      /\ ci.kind \notin {"yield", "base"} /\ ci.u2 \in Nat
      /\ Last(ci) = ci.func + Len(ci.locals)
      /\ \A i \in DOMAIN frames :
           /\ frames[i].top <= size
           /\ frames[i].kind = "lua"
                => frames[i].top = frames[i].func + 1 + FrameSize
  BY <1>1, RunningFacts
<1> PICK h : h = Head(tbclist)
  OBVIOUS
<1>4. /\ ToClose(frames, Tail(tbclist)) /\ h \in Variable /\ h \in In(tbclist)
      /\ \A v \in In(Tail(tbclist)) : v.slot \in Nat /\ v.slot < h.slot
  BY <1>1, <1>2, TailClose
<1>5. Closes(tbclist', declared', marked', taken')
  BY <1>1, <1>2, CloseOnce
<1>6. \E func, t : CallFits(func, t, h.slot) /\ PrecallLua(frames, size, func, t)
  <2>1. CASE ci.recst
    <3>1. ci.u2 <= h.slot
      BY <2>1, <1>1, <1>3, <1>4 DEF Level, Variable
    <3>2. CallFits(h.slot + 2, h.slot + 5, h.slot)
      BY <3>1, <2>1, <1>1, <1>4, RecoveryCallFits
    <3>3. PrecallLua(frames, size, h.slot + 2, h.slot + 2 + 1 + 2)
      BY <2>1 DEF CallClose
    <3>4. h.slot + 2 + 1 + 2 = h.slot + 5
      BY <1>4 DEF Variable
    <3> QED BY <3>2, <3>3, <3>4
  <2>2. CASE ~ci.recst
    <3> PICK func : func = IF ci.doing = "block" THEN h.slot + 1 ELSE top
      OBVIOUS
    <3>1. PrecallLua(frames, size, func, func + 1 + 1)
      BY <2>2 DEF CallClose
    <3>2. IF ci.doing = "block" THEN Last(ci) <= h.slot /\ func = h.slot + 1
                                ELSE func = top
      BY <2>2, <1>1, <1>3, <1>4 DEF Level, Variable, FrameType
    <3>3. CallFits(func, func + 2, h.slot)
      BY <3>2, <2>2, <1>1, <1>4, ExitCallFits
    <3>4. func + 1 + 1 = func + 2
      BY <3>3 DEF CallFits
    <3> QED BY <3>1, <3>3, <3>4
  <2> QED BY <2>1, <2>2
<1>7. PICK func, t : CallFits(func, t, h.slot) /\ PrecallLua(frames, size, func, t)
  BY <1>6
<1>8. /\ func \in Nat /\ t \in Nat /\ h.slot < func /\ h.slot < size
      /\ Last(ci) < func /\ (ci.ypcall => ci.u2 <= func)
      /\ ci.doing = "return" => func <= ci.top + 1
      /\ func + 1 <= t
      /\ \/ t + 2 <= size + ExtraStack
         \/ ci.ypcall /\ t + 1 <= size + ExtraStack
  BY <1>7 DEF CallFits
<1>9. LuaFrame(func).func = func /\ LuaFrame(func).kind = "lua"
  BY <1>8, LuaFrameFacts
<1>10. \A i \in DOMAIN frames : Under(frames[i], LuaFrame(func))
  BY <1>1, <1>8, <1>9, AboveRunning
<1>11. Calls(frames[Len(frames)], LuaFrame(func))
  BY <1>3, <1>8, <1>9 DEF Calls
<1>12. \A v \in In(Tail(tbclist)) : v.slot \in Nat /\ v.slot < func /\ v.slot < size
  <2>1. h.slot \in Nat
    BY <1>4 DEF Variable
  <2> QED BY <2>1, <1>3, <1>4, <1>8
<1> PICK ups : ups = Below(openupval, Level)
  OBVIOUS
<1>13. Upvalues(frames, ups)
  BY <1>2, BelowUpvalues
<1>14. \A u \in In(ups) : LiveIn(frames, u.slot, u.var)
  <2> TAKE u \in In(ups)
  <2>1. u \in In(openupval) /\ u.slot < Level
    BY <1>2, BelowUpvalues
  <2>2. CASE ci.recst
    <3>1. u.slot \in Nat /\ u.slot < ci.u2
      BY <2>1, <2>2, <1>2, ListTypes DEF Level, Upvalues
    <3>2. ~(ci.u2 <= u.slot)
      BY <3>1, <1>3
    <3> QED BY <3>2, <2>1, <1>2, <1>3 DEF Upvalues
  <2>3. CASE ~ci.recst
    BY <2>1, <2>3, <1>1, SlotFacts
  <2> QED BY <2>2, <2>3
<1>15. Chain(frames', errfunc, status', running', top', size', Tail(tbclist), ups)
  BY <1>2, <1>3, <1>4, <1>7, <1>8, <1>10, <1>11, <1>12, <1>13, <1>14, PrecallKeeps
<1>16. Chain(frames', errfunc', status', running', top', size', tbclist', openupval')
  BY <1>1, <1>15
<1> QED BY <1>5, <1>16 DEF ThreadInv

\* A luaF_close that has ended left nothing at its level or above it.
LEMMA NonePending ==
  ASSUME ThreadInv, running, ~Pending
  PROVE  Level \in Nat /\ \A v \in In(tbclist) : v.slot \in Nat /\ v.slot < Level
<1>1. ToClose(frames, tbclist) /\ tbclist \in Seq(Variable)
  BY InvParts
<1>2. ci.func \in Nat /\ ci.u2 \in Nat /\ Len(ci.locals) \in Nat
  BY RunningFacts
<1>3. Level \in Nat
  BY <1>2 DEF Level
<1> PICK level \in Nat : level = Level
  BY <1>3
<1>4. CASE tbclist = << >>
  <2>1. In(tbclist) = {}
    BY <1>4 DEF In
  <2> QED BY <2>1, <1>3
<1>5. CASE tbclist # << >>
  <2> PICK h : h = Head(tbclist)
    OBVIOUS
  <2>1. /\ h \in Variable /\ In(tbclist) = {h} \cup In(Tail(tbclist))
        /\ \A v \in In(Tail(tbclist)) : v.slot \in Nat /\ v.slot < h.slot
    BY <1>1, <1>5, TailClose
  <2>2. h.slot \in Nat
    BY <2>1 DEF Variable
  <2>3. h.slot < level
    <3>1. ~(h.slot >= level)
      BY <1>5 DEF Pending
    <3> QED BY <3>1, <2>2
  <2>4. \A v \in In(Tail(tbclist)) : v.slot \in Nat /\ v.slot < level
    BY <2>1, <2>2, <2>3
  <2> QED BY <1>3, <2>1, <2>2, <2>3, <2>4
<1> QED BY <1>4, <1>5

\* The end of a block: its variable goes out of scope.
LEMMA BlockDoneKeeps == ThreadInv /\ BlockDone => ThreadInv'
<1> SUFFICES ASSUME ThreadInv, BlockDone PROVE ThreadInv'
  OBVIOUS
<1>1. /\ running /\ ~ci.recst /\ ci.doing = "block" /\ ~Pending
      /\ frames' = SetLast(frames, [ci EXCEPT !.doing = "run",
                     !.locals = SubSeq(@, 1, Len(@) - 1)])
      /\ status' = status /\ running' = running /\ size' = size /\ top' = top
      /\ openupval' = openupval /\ tbclist' = tbclist /\ errfunc' = errfunc
      /\ marked' = marked /\ taken' = taken /\ declared' = declared
  BY DEF BlockDone, Closing, Replaced, SetLast, history
<1>2. /\ Closes(tbclist, declared, marked, taken) /\ Upvalues(frames, openupval)
  BY InvParts
<1>3. /\ ci \in FrameType /\ Proper(ci) /\ status = "OK" /\ running = TRUE
      /\ ci = frames[Len(frames)] /\ Len(frames) \in DOMAIN frames
      /\ ci.func \in Nat /\ ci.top \in Nat /\ ci.u2 \in Nat
      /\ ci.locals \in Seq(Nat) /\ Len(ci.locals) \in Nat
      /\ top \in Nat /\ size \in Nat /\ Last(ci) = ci.func + Len(ci.locals)
      /\ top <= size + ExtraStack
  BY <1>1, RunningFacts
<1>4. ci.kind = "lua"
  BY <1>1, <1>3 DEF Proper
<1>5. /\ ci.ypcall = FALSE /\ ci.recst = FALSE /\ ci.locals # << >>
      /\ Len(ci.locals) < FrameSize /\ ci.u2 <= 2 /\ InLua
  BY <1>1, <1>3, <1>4 DEF Proper, FrameType, InLua
<1> PICK ls : ls = SubSeq(ci.locals, 1, Len(ci.locals) - 1)
  OBVIOUS
<1> PICK n \in Nat : n = Len(ci.locals)
  BY <1>3
<1>6. n > 0
  BY <1>3, <1>5
<1>7. /\ ls \in Seq(Nat) /\ Len(ls) = n - 1 /\ DOMAIN ls = 1..(n - 1)
      /\ \A i \in 1..(n - 1) : ls[i] = ci.locals[i]
  <2> PICK m \in 0..Len(ci.locals) : m = n - 1
    BY <1>6
  <2>1. /\ SubSeq(ci.locals, 1, m) \in Seq(Nat) /\ Len(SubSeq(ci.locals, 1, m)) = m
        /\ DOMAIN SubSeq(ci.locals, 1, m) = 1..m
        /\ \A i \in 1..m : SubSeq(ci.locals, 1, m)[i] = ci.locals[i]
    BY <1>3, PrefixSeq, ZenonT(40)
  <2>2. ls = SubSeq(ci.locals, 1, m)
    OBVIOUS
  <2> QED BY <2>1, <2>2
<1>8. PICK g : /\ g \in FrameType /\ g.kind = "lua" /\ g.func = ci.func
               /\ g.top = ci.top /\ g.recst = FALSE /\ g.ypcall = FALSE
               /\ g.old_errfunc = ci.old_errfunc /\ g.doing = "run" /\ g.u2 = ci.u2
               /\ g.locals = ls /\ frames' = SetLast(frames, g)
  <2> DEFINE g == [ci EXCEPT !.doing = "run", !.locals = ls]
  <2>1. /\ g \in FrameType /\ g.kind = "lua" /\ g.func = ci.func
        /\ g.top = ci.top /\ g.recst = FALSE /\ g.ypcall = FALSE
        /\ g.old_errfunc = ci.old_errfunc /\ g.doing = "run" /\ g.u2 = ci.u2
        /\ g.locals = ls
    BY <1>3, <1>4, <1>5, <1>7 DEF FrameType
  <2>2. frames' = SetLast(frames, g)
    BY <1>1
  <2> HIDE DEF g
  <2> QED BY <2>1, <2>2
<1>9. Proper(g)
  <2>1. Len(g.locals) < FrameSize
    BY <1>5, <1>7, <1>8, ThreadAssumption, SMTT(30)
  <2> QED BY <2>1, <1>5, <1>8 DEF Proper
<1>10. ASSUME NEW slot \in Nat, NEW var, LiveAt(ci, slot, var), slot # Last(ci)
       PROVE  LiveAt(g, slot, var)
  <2>1. slot - ci.func \in 1..n /\ ci.locals[slot - ci.func] = var
    BY <1>3, <1>10, SMTT(30) DEF LiveAt
  <2> PICK i \in 1..n : i = slot - ci.func
    BY <2>1
  <2>2. i # n
    BY <1>3, <1>10
  <2>3. i \in 1..(n - 1)
    BY <2>2
  <2>4. slot - g.func \in DOMAIN g.locals /\ g.locals[slot - g.func] = var
    BY <2>1, <2>3, <1>7, <1>8
  <2> QED BY <2>4 DEF LiveAt
<1>11. \A v \in In(tbclist) : LiveAt(ci, v.slot, v.var) => LiveAt(g, v.slot, v.var)
  <2>1. Level = Last(ci)
    BY <1>1, <1>3 DEF Level
  <2>2. \A v \in In(tbclist) : v.slot \in Nat /\ v.slot < Last(ci)
    BY <2>1, <1>1, NonePending
  <2>3. \A v \in In(tbclist) : v.slot # Last(ci)
    BY <2>2, <1>3
  <2> QED BY <2>2, <2>3, <1>10
<1>12. \A u \in In(openupval) : LiveAt(ci, u.slot, u.var) => LiveAt(g, u.slot, u.var)
  <2>1. \A u \in In(openupval) : u.slot \in Nat
    BY <1>1, SlotFacts
  <2>2. \A u \in In(openupval) : Last(ci) <= u.slot => Last(ci) < u.slot
    <3>1. ClosedTo(ci) = Last(ci)
      BY <1>1 DEF ClosedTo
    <3> QED BY <3>1, <1>1, <1>2, <1>3 DEF Upvalues
  <2>3. \A u \in In(openupval) : u.slot # Last(ci)
    BY <2>1, <2>2, <1>3
  <2> QED BY <2>1, <2>3, <1>10
<1>13. Chain(SetLast(frames, g), errfunc, "OK", TRUE, top, size, tbclist, openupval)
  BY <1>2, <1>3, <1>5, <1>8, <1>9, <1>11, <1>12, SetKeeps
<1>14. Chain(frames', errfunc', status', running', top', size', tbclist', openupval')
  BY <1>1, <1>3, <1>8, <1>13
<1> QED BY <1>1, <1>2, <1>14 DEF ThreadInv

\* A frame that has closed its variables leaves the call chain.
LEMMA LeaveKeeps ==
  ASSUME ThreadInv, running, NEW ef, ef = HandlerAt(frames, Len(frames) - 1),
         \A v \in In(tbclist) : /\ ~LiveAt(ci, v.slot, v.var)
                                /\ ~Unwinds(frames, Len(frames), v.slot),
         NEW ups, Upvalues(frames, ups),
         \A u \in In(ups) : /\ LiveIn(frames, u.slot, u.var)
                            /\ ~LiveAt(ci, u.slot, u.var),
         NEW sz \in Nat, \A i \in DOMAIN frames : frames[i].top <= sz,
         NEW f, f = frames[Len(frames) - 1],
         NEW tp \in Nat, tp <= sz + ExtraStack,
         f.doing = "return" => Last(f) < tp /\ tp <= f.top + 1,
         f.ypcall /\ ~f.recst => f.u2 <= tp,
         f.recst => ci.func <= tp /\ ci.func <= sz
  PROVE  Chain(Callers, ef, "OK", f.kind # "base", tp, sz, tbclist, ups)
<1>1. /\ Stack(frames) /\ Handlers(frames, errfunc) /\ ToClose(frames, tbclist)
      /\ tbclist \in Seq(Variable)
  BY InvParts
<1>2. /\ Len(frames) \in Nat /\ Len(frames) > 1 /\ DOMAIN frames = 1..Len(frames)
      /\ frames \in Seq(FrameType) /\ ci = frames[Len(frames)] /\ ci.func \in Nat
      /\ \A i \in DOMAIN frames :
           frames[i].kind = "lua" => frames[i].top = frames[i].func + 1 + FrameSize
  BY RunningFacts
<1> PICK gs : gs = Callers
  OBVIOUS
<1>3. gs = SubSeq(frames, 1, Len(frames) - 1)
  BY DEF Callers
<1>4. /\ Stack(gs) /\ Len(gs) = Len(frames) - 1 /\ DOMAIN gs = 1..Len(gs)
      /\ Len(gs) \in Nat /\ Len(gs) >= 1 /\ Len(gs) \in DOMAIN gs
      /\ \A i \in DOMAIN gs : gs[i] = frames[i] /\ i \in DOMAIN frames
      /\ gs[Len(gs)] = f /\ Calls(f, ci)
  BY <1>1, <1>2, <1>3, CallersFacts
<1>5. Handlers(gs, ef)
  <2>0. Len(frames) - 1 \in 1..Len(frames)
    BY <1>2
  <2> PICK m \in 1..Len(frames) : m = Len(frames) - 1
    BY <2>0
  <2>1. Handlers(SubSeq(frames, 1, m), HandlerAt(frames, m))
    BY <1>1, PrefixHandlers
  <2> QED BY <2>1, <1>3
<1>6. ToClose(gs, tbclist)
  BY <1>1, <1>2, <1>3, PopClose
<1>7. Upvalues(gs, ups)
  BY <1>1, <1>2, <1>3, PopUpvalues
<1>8. f.kind = "base" => Len(gs) = 1
  <2>1. ASSUME Len(gs) # 1 PROVE f.kind # "base"
    <3> PICK m \in Nat : m = Len(gs) - 1
      BY <1>4
    <3>1. m \in DOMAIN gs /\ m + 1 \in DOMAIN gs /\ m + 1 = Len(gs)
      BY <2>1, <1>4
    <3>2. Calls(gs[m], gs[m + 1])
      BY <3>1, <1>4 DEF Stack
    <3> QED BY <3>1, <3>2, <1>4 DEF Calls
  <2> QED BY <2>1
<1>9. Status(gs, "OK", f.kind # "base", tp)
  <2>1. f.kind # "yield"
    BY <1>4 DEF Calls
  <2> QED BY <2>1, <1>4, <1>8 DEF Status
<1>10. Fit(gs, "OK", tp, sz)
  BY <1>2, <1>4 DEF Fit
<1>11. ValuesKept(gs, tbclist, tp, sz)
  <2>1. ASSUME f.recst, NEW v \in In(tbclist) PROVE v.slot < tp /\ v.slot < sz
    <3>1. v.slot \in Nat
      BY <1>1, ListTypes
    <3>2. ASSUME LiveIn(gs, v.slot, v.var) PROVE v.slot < ci.func
      <4>1. PICK k \in DOMAIN gs : LiveAt(gs[k], v.slot, v.var)
        BY <3>2 DEF LiveIn
      <4>2. k \in DOMAIN frames /\ LiveAt(frames[k], v.slot, v.var)
        BY <4>1, <1>4
      <4>3. v.slot <= Last(frames[k])
        BY <4>2, <3>1, <1>2, LiveSlot
      <4>4. k < Len(frames) /\ Len(frames) \in DOMAIN frames
        BY <4>1, <1>2, <1>4
      <4>5. Last(frames[k]) < ci.func /\ Last(frames[k]) \in Nat
        BY <4>2, <4>4, <1>1, <1>2, Apart
      <4> QED BY <4>3, <4>5, <3>1, <1>2
    <3>3. ASSUME NEW k \in DOMAIN frames, Unwinds(frames, k, v.slot)
          PROVE  v.slot < ci.func
      <4>1. k # Len(frames)
        BY <3>3
      <4>2. k < Len(frames) /\ Len(frames) \in DOMAIN frames
        BY <4>1, <1>2
      <4> QED BY <3>3, <4>2, <1>2 DEF Unwinds
    <3>4. LiveIn(frames, v.slot, v.var) => LiveIn(gs, v.slot, v.var)
      <4>1. ASSUME NEW k \in DOMAIN frames, LiveAt(frames[k], v.slot, v.var)
            PROVE  LiveIn(gs, v.slot, v.var)
        <5>1. k # Len(frames)
          BY <4>1, <1>2
        <5>2. k \in DOMAIN gs
          BY <5>1, <1>2, <1>4
        <5> QED BY <4>1, <5>2, <1>4 DEF LiveIn
      <4> QED BY <4>1 DEF LiveIn
    <3>5. v.slot < ci.func
      BY <3>2, <3>3, <3>4, <1>1 DEF ToClose
    <3> QED BY <2>1, <3>1, <3>5, <1>2
  <2> QED BY <2>1, <1>4 DEF ValuesKept
<1>12. Chain(gs, ef, "OK", f.kind # "base", tp, sz, tbclist, ups)
  BY <1>4, <1>5, <1>6, <1>7, <1>9, <1>10, <1>11 DEF Chain
<1> QED BY <1>12

\* What the caller of the running frame is.
LEMMA CallerFacts ==
  ASSUME ThreadInv, running, NEW f, f = frames[Len(frames) - 1]
  PROVE  /\ f = Callers[Len(Callers)] /\ f \in FrameType /\ Proper(f)
         /\ f.top \in Nat /\ f.top <= size /\ Calls(f, ci) /\ Under(f, ci)
         /\ Len(frames) - 1 \in DOMAIN frames
<1>1. Stack(frames)
  BY InvParts
<1>2. /\ Len(frames) \in Nat /\ Len(frames) > 1 /\ DOMAIN frames = 1..Len(frames)
      /\ ci = frames[Len(frames)]
      /\ \A i \in DOMAIN frames : frames[i].top \in Nat /\ frames[i].top <= size
  BY RunningFacts
<1> PICK gs : gs = Callers
  OBVIOUS
<1>3. gs = SubSeq(frames, 1, Len(frames) - 1)
  BY DEF Callers
<1>4. gs[Len(gs)] = f /\ Calls(f, ci) /\ Under(f, ci)
  BY <1>1, <1>2, <1>3, CallersFacts
<1>5. Len(frames) - 1 \in DOMAIN frames
  BY <1>2
<1>6. f \in FrameType /\ Proper(f)
  BY <1>1, <1>2, <1>5, StackFacts
<1> QED BY <1>2, <1>4, <1>5, <1>6

\* A return: the results go where the call was.
LEMMA ReturnDoneKeeps == ThreadInv /\ ReturnDone => ThreadInv'
<1> SUFFICES ASSUME ThreadInv, ReturnDone PROVE ThreadInv'
  OBVIOUS
<1> PICK f : f = frames[Len(frames) - 1]
  OBVIOUS
<1>1. /\ running /\ ~ci.recst /\ ci.doing = "return" /\ ~Pending
      /\ frames' = Callers /\ status' = status /\ size' = size
      /\ openupval' = openupval /\ tbclist' = tbclist /\ errfunc' = errfunc
      /\ marked' = marked /\ taken' = taken /\ declared' = declared
  BY DEF ReturnDone, Closing, history
<1>2. /\ f \in FrameType /\ Proper(f) /\ f = Callers[Len(Callers)]
      /\ f.top \in Nat /\ f.top <= size /\ Calls(f, ci) /\ Under(f, ci)
  BY <1>1, CallerFacts
<1>3. /\ running' = (f.kind # "base")
      /\ top' = IF f.kind = "base" \/ f.doing # "run" \/ f.recst
                THEN ci.func ELSE ci.func + ci.u2
  BY <1>2 DEF ReturnDone
<1>4. /\ Closes(tbclist, declared, marked, taken) /\ Upvalues(frames, openupval)
      /\ Handlers(frames, errfunc) /\ FrameSize \in Nat /\ FrameSize >= 3
      /\ ExtraStack \in Nat
  BY InvParts
<1>5. /\ ci \in FrameType /\ Proper(ci) /\ status = "OK" /\ size \in Nat
      /\ ci = frames[Len(frames)] /\ Len(frames) \in Nat /\ Len(frames) > 1
      /\ DOMAIN frames = 1..Len(frames) /\ ci.func \in Nat /\ ci.u2 \in Nat
      /\ Last(ci) = ci.func + Len(ci.locals) /\ Len(ci.locals) \in Nat
      /\ \A i \in DOMAIN frames :
           /\ frames[i].top <= size
           /\ frames[i].kind = "lua" => frames[i].top = frames[i].func + 1 + FrameSize
  BY <1>1, RunningFacts
<1>6. ci.kind = "lua"
  BY <1>1, <1>5 DEF Proper
<1>7. ~ci.ypcall /\ ci.u2 <= 2
  BY <1>5, <1>6 DEF Proper
<1>8. ci.func + 1 + FrameSize <= size
  <2>1. Len(frames) \in DOMAIN frames
    BY <1>5
  <2> QED BY <2>1, <1>5, <1>6
<1> PICK tp : tp = top'
  OBVIOUS
<1>9. tp \in Nat /\ ci.func <= tp /\ tp <= ci.func + 2
  BY <1>3, <1>5, <1>7
<1>10. tp <= size + ExtraStack /\ ci.func <= size
  BY <1>4, <1>5, <1>8, <1>9
<1>11. \A v \in In(tbclist) : /\ ~LiveAt(ci, v.slot, v.var)
                              /\ ~Unwinds(frames, Len(frames), v.slot)
  <2> TAKE v \in In(tbclist)
  <2>1. Level = ci.func + 1
    BY <1>1 DEF Level
  <2>2. v.slot \in Nat /\ v.slot < ci.func + 1
    BY <2>1, <1>1, NonePending
  <2>3. ~LiveAt(ci, v.slot, v.var)
    BY <2>2, <1>5, LiveSlot
  <2> QED BY <2>3, <1>1, <1>5 DEF Unwinds
<1>12. \A u \in In(openupval) : /\ LiveIn(frames, u.slot, u.var)
                                /\ ~LiveAt(ci, u.slot, u.var)
  <2> TAKE u \in In(openupval)
  <2>1. u.slot \in Nat /\ LiveIn(frames, u.slot, u.var)
    BY <1>1, SlotFacts
  <2>2. ci.func + 1 <= u.slot => Last(ci) < u.slot
    <3>1. Len(frames) \in DOMAIN frames /\ ClosedTo(ci) = ci.func + 1
      BY <1>1, <1>5 DEF ClosedTo
    <3> QED BY <3>1, <1>1, <1>4, <1>5 DEF Upvalues
  <2>3. ~LiveAt(ci, u.slot, u.var)
    BY <2>1, <2>2, <1>5, LiveSlot
  <2> QED BY <2>1, <2>3
<1>13. errfunc = HandlerAt(frames, Len(frames) - 1)
  <2>0. Len(frames) - 1 \in Nat
    BY <1>5
  <2> PICK m \in Nat : m = Len(frames) - 1
    BY <2>0
  <2>1. m + 1 = Len(frames)
    BY <1>5
  <2>2. HandlerAt(frames, m + 1) = HandlerAt(frames, m)
    BY <2>1, <1>5, <1>7, HandlerSkip
  <2> QED BY <2>1, <2>2, <1>4 DEF Handlers
<1>14. f.doing = "return" => Last(f) < tp /\ tp <= f.top + 1
  BY <1>2, <1>3, <1>5 DEF Calls, Under
<1>15. f.ypcall => f.u2 <= tp
  <2>1. f.ypcall => f.u2 <= ci.func
    BY <1>2 DEF Under
  <2>2. f.u2 \in Nat
    BY <1>2 DEF FrameType
  <2> QED BY <2>1, <2>2, <1>5, <1>9
<1>16. Chain(Callers, errfunc, "OK", f.kind # "base", tp, size, tbclist, openupval)
  BY <1>1, <1>4, <1>5, <1>9, <1>10, <1>11, <1>12, <1>13, <1>14, <1>15, LeaveKeeps
<1>17. Chain(frames', errfunc', status', running', top', size', tbclist', openupval')
  BY <1>1, <1>3, <1>5, <1>16
<1> QED BY <1>1, <1>4, <1>17 DEF ThreadInv

\* What a protected call leaves behind: itself, and a caller that runs on.
LEMMA ProtectedFacts ==
  ASSUME ThreadInv, running, ci.ypcall, NEW f, f = frames[Len(frames) - 1]
  PROVE  /\ \A slot \in Nat : \A var : ~LiveAt(ci, slot, var)
         /\ f.kind = "lua" /\ f.doing = "run" /\ ~f.ypcall /\ ~f.recst
         /\ ci.func < f.top /\ f.top \in Nat /\ ci.func < ci.u2
         /\ ci.old_errfunc = HandlerAt(frames, Len(frames) - 1)
<1>1. f \in FrameType /\ Proper(f) /\ f.top \in Nat /\ Calls(f, ci)
  BY CallerFacts
<1>2. /\ ci \in FrameType /\ Proper(ci) /\ ci = frames[Len(frames)]
      /\ Len(frames) \in DOMAIN frames
  BY RunningFacts
<1>3. ci.kind # "lua" /\ ci.locals = << >> /\ ci.func < ci.u2
  <2>1. ci.func \in Nat /\ ci.u2 \in Nat
    BY RunningFacts
  <2> QED BY <2>1, <1>2 DEF Proper
<1>4. \A slot \in Nat : \A var : ~LiveAt(ci, slot, var)
  BY <1>2, <1>3, LiveSlot
<1>5. f.kind = "lua" /\ f.doing = "run" /\ ci.func < f.top
  BY <1>1, <1>3 DEF Calls
<1>6. ~f.ypcall /\ ~f.recst
  BY <1>1, <1>5 DEF Proper
<1>7. ci.old_errfunc = HandlerAt(frames, Len(frames) - 1)
  <2>1. Handlers(frames, errfunc)
    BY InvParts
  <2> QED BY <2>1, <1>2 DEF Handlers
<1> QED BY <1>1, <1>3, <1>4, <1>5, <1>6, <1>7

\* A protected call whose body has returned.
LEMMA PCallReturnKeeps == ThreadInv /\ PCallReturn => ThreadInv'
<1> SUFFICES ASSUME ThreadInv, PCallReturn PROVE ThreadInv'
  OBVIOUS
<1> PICK f : f = frames[Len(frames) - 1]
  OBVIOUS
<1>1. /\ running /\ ci.ypcall /\ ~ci.recst /\ errfunc' = ci.old_errfunc
      /\ frames' = Callers /\ top' = ci.func + 1 + (top - ci.u2)
      /\ status' = status /\ running' = running /\ size' = size
      /\ openupval' = openupval /\ tbclist' = tbclist
      /\ marked' = marked /\ taken' = taken /\ declared' = declared
  BY DEF PCallReturn, history
<1>2. /\ \A slot \in Nat : \A var : ~LiveAt(ci, slot, var)
      /\ f.kind = "lua" /\ f.doing = "run" /\ ~f.ypcall /\ ~f.recst
      /\ ci.func < ci.u2 /\ ci.old_errfunc = HandlerAt(frames, Len(frames) - 1)
  BY <1>1, ProtectedFacts
<1>3. /\ Closes(tbclist, declared, marked, taken) /\ Upvalues(frames, openupval)
      /\ ExtraStack \in Nat /\ Status(frames, status, running, top)
  BY InvParts
<1>4. /\ status = "OK" /\ running = TRUE /\ size \in Nat /\ top \in Nat
      /\ ci = frames[Len(frames)] /\ ci.func \in Nat /\ ci.u2 \in Nat
      /\ top <= size + ExtraStack
      /\ \A i \in DOMAIN frames : frames[i].top <= size
  BY <1>1, RunningFacts
<1> PICK tp : tp = top'
  OBVIOUS
<1>5. tp \in Nat /\ tp <= size + ExtraStack
  <2>1. ci.u2 <= top
    BY <1>1, <1>3, <1>4 DEF Status
  <2>2. tp = ci.func + 1 + (top - ci.u2)
    BY <1>1
  <2>3. tp \in Nat /\ tp <= top
    BY <2>1, <2>2, <1>2, <1>4, SMTT(30)
  <2> QED BY <2>3, <1>3, <1>4
<1>6. \A v \in In(tbclist) : /\ ~LiveAt(ci, v.slot, v.var)
                             /\ ~Unwinds(frames, Len(frames), v.slot)
  BY <1>1, <1>2, <1>4, SlotFacts DEF Unwinds
<1>7. \A u \in In(openupval) : /\ LiveIn(frames, u.slot, u.var)
                               /\ ~LiveAt(ci, u.slot, u.var)
  BY <1>1, <1>2, SlotFacts
<1>8. Chain(Callers, ci.old_errfunc, "OK", f.kind # "base", tp, size, tbclist,
            openupval)
  BY <1>1, <1>2, <1>3, <1>4, <1>5, <1>6, <1>7, LeaveKeeps
<1>9. Chain(frames', errfunc', status', running', top', size', tbclist', openupval')
  BY <1>1, <1>2, <1>4, <1>8
<1> QED BY <1>1, <1>3, <1>9 DEF ThreadInv
-----------------------------------------------------------------------------
IsMax(m, S) == m \in S /\ \A x \in S : x <= m

\* Of the tops of a call chain one is the highest.
LEMMA HighestTop ==
  ASSUME NEW fs, Stack(fs), NEW t \in Nat
  PROVE  \E m \in Nat : IsMax(m, {t} \cup { fs[i].top : i \in DOMAIN fs })
<1> DEFINE T(n) == {t} \cup { fs[i].top : i \in 1..n }
           S == { n \in 0..Len(fs) : \E m \in Nat : IsMax(m, T(n)) }
<1>1. /\ Len(fs) \in Nat /\ DOMAIN fs = 1..Len(fs)
      /\ \A i \in 1..Len(fs) : fs[i].top \in Nat
  BY StackFacts DEF FrameType
<1>2. 0 \in S
  <2>1. IsMax(t, T(0))
    BY DEF IsMax
  <2>2. \E m \in Nat : IsMax(m, T(0))
    <3> HIDE DEF T
    <3> QED BY <2>1
  <2>3. 0 \in 0..Len(fs)
    BY <1>1
  <2> QED BY <2>2, <2>3
<1>3. ASSUME NEW n \in 0..(Len(fs) - 1), n \in S PROVE n + 1 \in S
  <2>1. PICK m \in Nat : IsMax(m, T(n))
    BY <1>3
  <2>2. n + 1 \in 1..Len(fs) /\ n + 1 \in 0..Len(fs)
    BY <1>1
  <2> PICK h \in Nat : h = fs[n + 1].top
    BY <2>2, <1>1
  <2>3. T(n + 1) = T(n) \cup {h}
    <3>1. 1..(n + 1) = (1..n) \cup {n + 1}
      OBVIOUS
    <3> QED BY <3>1
  <2>4. T(n) \subseteq Nat
    BY <1>1, <2>2
  <2> HIDE DEF T
  <2>5. IsMax(IF h <= m THEN m ELSE h, T(n + 1))
    <3>1. CASE h <= m
      <4>1. IsMax(m, T(n + 1))
        BY <2>1, <2>3, <3>1 DEF IsMax
      <4> QED BY <4>1, <3>1
    <3>2. CASE ~(h <= m)
      <4>1. \A x \in T(n) : x <= h
        BY <2>1, <2>4, <3>2 DEF IsMax
      <4>2. IsMax(h, T(n + 1))
        BY <4>1, <2>3 DEF IsMax
      <4> QED BY <4>2, <3>2
    <3> QED BY <3>1, <3>2
  <2>6. (IF h <= m THEN m ELSE h) \in Nat
    OBVIOUS
  <2> QED BY <2>2, <2>5, <2>6
<1>4. Len(fs) \in S
  <2> HIDE DEF S
  <2>1. 0..Len(fs) \subseteq S
    BY <1>1, <1>2, <1>3, BoundedInduction
  <2> QED BY <2>1, <1>1
<1> QED BY <1>1, <1>4

\* What is in use covers every frame, and so does a stack that has shrunk.
LEMMA ShrunkFacts ==
  ASSUME NEW fs, Stack(fs), NEW t \in Nat, size \in Nat, Shrunk(fs, t) # size
  PROVE  /\ Shrunk(fs, t) \in Nat /\ t < Shrunk(fs, t)
         /\ \A i \in DOMAIN fs : fs[i].top \in Nat /\ fs[i].top <= Shrunk(fs, t)
<1>1. MinStack \in Nat /\ MaxStack \in Nat
  BY ThreadAssumption
<1>2. \A i \in DOMAIN fs : fs[i].top \in Nat
  BY StackFacts DEF FrameType
<1> PICK tops : tops = {t} \cup { fs[i].top : i \in DOMAIN fs }
  OBVIOUS
<1>0. tops \subseteq Nat /\ t \in tops /\ \A i \in DOMAIN fs : fs[i].top \in tops
  BY <1>2
<1>3. PICK m \in Nat : IsMax(m, tops)
  BY HighestTop
<1> PICK lim : lim = CHOOSE x \in tops : \A y \in tops : y <= x
  OBVIOUS
<1>4. lim \in tops /\ \A y \in tops : y <= lim
  <2>1. \E x \in tops : \A y \in tops : y <= x
    BY <1>3 DEF IsMax
  <2> QED BY <2>1
<1>5. lim \in Nat
  BY <1>0, <1>4
<1> PICK inuse : inuse = InUse(fs, t)
  OBVIOUS
<1>6. inuse = Bigger(lim + 1, MinStack)
  BY DEF InUse
<1>7. inuse \in Nat /\ lim < inuse
  BY <1>1, <1>5, <1>6 DEF Bigger
<1>8. /\ inuse <= MaxStack
      /\ Shrunk(fs, t) = IF inuse > MaxStack \div 2 THEN MaxStack ELSE inuse * 2
  BY DEF Shrunk
<1> PICK ns : ns = Shrunk(fs, t)
  OBVIOUS
<1>9. ns \in Nat /\ inuse <= ns
  <2>1. CASE inuse > MaxStack \div 2
    BY <2>1, <1>1, <1>8
  <2>2. CASE ~(inuse > MaxStack \div 2)
    <3>1. ns = inuse * 2
      BY <2>2, <1>8
    <3> QED BY <3>1, <1>7
  <2> QED BY <2>1, <2>2
<1>10. \A y \in tops : y \in Nat /\ y < ns
  <2>1. lim < ns
    BY <1>5, <1>7, <1>9
  <2> TAKE y \in tops
  <2>2. y \in Nat /\ y <= lim
    BY <1>0, <1>4
  <2> QED BY <2>1, <2>2, <1>5, <1>9
<1>11. t < ns /\ \A i \in DOMAIN fs : fs[i].top < ns
  BY <1>0, <1>10
<1> QED BY <1>2, <1>9, <1>11

\* traversethread: the collector shrinks the stack.
LEMMA GCShrinkKeeps == ThreadInv /\ GCShrink => ThreadInv'
<1> SUFFICES ASSUME ThreadInv, GCShrink PROVE ThreadInv'
  OBVIOUS
<1>1. /\ Shrunk(frames, top) # size /\ size' = Shrunk(frames, top)
      /\ status' = status /\ running' = running /\ top' = top /\ frames' = frames
      /\ openupval' = openupval /\ tbclist' = tbclist /\ errfunc' = errfunc
      /\ marked' = marked /\ taken' = taken /\ declared' = declared
  BY DEF GCShrink, history
<1>2. /\ Stack(frames) /\ Handlers(frames, errfunc) /\ ToClose(frames, tbclist)
      /\ ValuesKept(frames, tbclist, top, size) /\ Upvalues(frames, openupval)
      /\ Fit(frames, status, top, size) /\ Status(frames, status, running, top)
      /\ Closes(tbclist, declared, marked, taken)
      /\ tbclist \in Seq(Variable) /\ ExtraStack \in Nat
  BY InvParts
<1>3. size \in Nat /\ top \in Nat
  BY <1>2 DEF Fit, Status
<1> PICK ns : ns = size'
  OBVIOUS
<1>4. /\ ns \in Nat /\ top < ns
      /\ \A i \in DOMAIN frames : frames[i].top \in Nat /\ frames[i].top <= ns
  BY <1>1, <1>2, <1>3, ShrunkFacts
<1>5. Fit(frames, status, top, ns)
  <2>1. top <= ns + ExtraStack
    <3>1. top \in Nat /\ ns \in Nat /\ ExtraStack \in Nat /\ top < ns
      BY <1>2, <1>3, <1>4
    <3>2. \A a, b, c \in Nat : a < b => a <= b + c
      OBVIOUS
    <3> QED BY <3>1, <3>2
  <2>2. \A i \in DOMAIN frames : frames[i].top <= ns + ExtraStack
    BY <1>2, <1>4
  <2>3. status # "ERR" => \A i \in DOMAIN frames :
          frames[i].kind = "lua" => frames[i].top = frames[i].func + 1 + FrameSize
    BY <1>2 DEF Fit
  <2> QED BY <2>1, <2>2, <2>3, <1>4 DEF Fit
<1>6. ValuesKept(frames, tbclist, top, ns)
  <2>1. \A v \in In(tbclist) : v.slot \in Nat
    BY <1>2, ListTypes
  <2> QED BY <2>1, <1>2, <1>3, <1>4 DEF ValuesKept
<1>7. Chain(frames, errfunc, status, running, top, ns, tbclist, openupval)
  BY <1>2, <1>5, <1>6 DEF Chain
<1>8. Chain(frames', errfunc', status', running', top', size', tbclist', openupval')
  BY <1>1, <1>7
<1> QED BY <1>1, <1>2, <1>8 DEF ThreadInv

\* A protected call that has caught an error and closed everything above.
LEMMA RecoverKeeps == ThreadInv /\ Recover => ThreadInv'
<1> SUFFICES ASSUME ThreadInv, Recover PROVE ThreadInv'
  OBVIOUS
<1> PICK f : f = frames[Len(frames) - 1]
  OBVIOUS
<1>1. /\ running /\ ci.recst /\ ~Pending /\ openupval' = Below(openupval, ci.u2)
      /\ size' = Shrunk(frames, ci.u2 + 1) /\ errfunc' = ci.old_errfunc
      /\ frames' = Callers /\ top' = ci.func + 2
      /\ status' = status /\ running' = running /\ tbclist' = tbclist
      /\ marked' = marked /\ taken' = taken /\ declared' = declared
  BY DEF Recover, Closing, history
<1>2. /\ status = "OK" /\ running = TRUE /\ size \in Nat /\ Proper(ci)
      /\ ci = frames[Len(frames)] /\ ci.func \in Nat /\ ci.u2 \in Nat
      /\ \A i \in DOMAIN frames : frames[i].top \in Nat /\ frames[i].top <= size
  BY <1>1, RunningFacts
<1>3. ci.ypcall
  BY <1>1, <1>2 DEF Proper
<1>4. /\ \A slot \in Nat : \A var : ~LiveAt(ci, slot, var)
      /\ f.kind = "lua" /\ f.doing = "run" /\ ~f.ypcall /\ ~f.recst
      /\ ci.func < f.top /\ f.top \in Nat
      /\ ci.old_errfunc = HandlerAt(frames, Len(frames) - 1)
  BY <1>1, <1>3, ProtectedFacts
<1>5. /\ Closes(tbclist, declared, marked, taken) /\ Upvalues(frames, openupval)
      /\ ExtraStack \in Nat /\ ExtraStack >= 5 /\ Stack(frames)
      /\ openupval \in Seq(Variable)
  BY InvParts
<1> PICK sz : sz = size'
  OBVIOUS
<1>6. sz \in Nat /\ \A i \in DOMAIN frames : frames[i].top <= sz
  <2> PICK t \in Nat : t = ci.u2 + 1
    BY <1>2
  <2>1. sz = Shrunk(frames, t)
    BY <1>1
  <2>2. CASE sz = size
    BY <2>2, <1>2
  <2>3. CASE sz # size
    BY <2>1, <2>3, <1>2, <1>5, ShrunkFacts
  <2> QED BY <2>2, <2>3
<1> PICK tp \in Nat : tp = ci.func + 2
  BY <1>2
<1>7. tp <= sz + ExtraStack
  <2>1. f.top <= sz
    BY <1>1, <1>6, CallerFacts
  <2> QED BY <2>1, <1>2, <1>4, <1>5, <1>6, SMTT(30)
<1>8. \A v \in In(tbclist) : /\ ~LiveAt(ci, v.slot, v.var)
                             /\ ~Unwinds(frames, Len(frames), v.slot)
  <2>1. Level = ci.u2
    BY <1>1 DEF Level
  <2>2. \A v \in In(tbclist) : v.slot \in Nat /\ v.slot < ci.u2
    BY <2>1, <1>1, NonePending
  <2>3. \A v \in In(tbclist) : ~(ci.u2 <= v.slot)
    BY <2>2, <1>2
  <2> QED BY <2>2, <2>3, <1>2, <1>4 DEF Unwinds
<1> PICK ups : ups = Below(openupval, ci.u2)
  OBVIOUS
<1>9. Upvalues(frames, ups) /\ \A u \in In(ups) : u \in In(openupval) /\ u.slot < ci.u2
  BY <1>5, BelowUpvalues
<1>10. \A u \in In(ups) : /\ LiveIn(frames, u.slot, u.var)
                          /\ ~LiveAt(ci, u.slot, u.var)
  <2>1. \A u \in In(ups) : u.slot \in Nat
    BY <1>5, <1>9, ListTypes
  <2>2. \A u \in In(ups) : ~(ci.u2 <= u.slot)
    BY <2>1, <1>2, <1>9
  <2> QED BY <2>1, <2>2, <1>2, <1>4, <1>5, <1>9 DEF Upvalues
<1>11. Chain(Callers, ci.old_errfunc, "OK", f.kind # "base", tp, sz, tbclist, ups)
  BY <1>1, <1>4, <1>6, <1>7, <1>8, <1>9, <1>10, LeaveKeeps
<1>12. Chain(frames', errfunc', status', running', top', size', tbclist', openupval')
  BY <1>1, <1>2, <1>4, <1>11
<1> QED BY <1>1, <1>5, <1>12 DEF ThreadInv
-----------------------------------------------------------------------------
\* The variables a list still has to close, in its order.
VarsOf(tbc) == [i \in DOMAIN tbc |-> tbc[i].var]

\* Each is there once.
LEMMA VarsFacts ==
  ASSUME NEW fs, NEW tbc, ToClose(fs, tbc)
  PROVE  /\ VarsOf(tbc) \in Seq(Nat) /\ In(VarsOf(tbc)) = Vars(tbc)
         /\ \A i, j \in DOMAIN VarsOf(tbc) : VarsOf(tbc)[i] = VarsOf(tbc)[j] => i = j
<1>1. tbc \in Seq(Variable) /\ Sorted(tbc, ByslotAndVar)
  BY DEF ToClose
<1> PICK n \in Nat : n = Len(tbc)
  BY <1>1
<1> PICK vs : vs = VarsOf(tbc)
  OBVIOUS
<1>2. /\ DOMAIN tbc = 1..n /\ DOMAIN vs = 1..n
      /\ \A i \in 1..n : vs[i] = tbc[i].var
  BY <1>1 DEF VarsOf
<1>3. \A i \in 1..n : tbc[i] \in Variable /\ tbc[i].var \in Nat
  <2> TAKE i \in 1..n
  <2>1. tbc[i] \in In(tbc)
    BY <1>2 DEF In
  <2> QED BY <2>1, <1>1, ListTypes
<1>4. vs = [i \in 1..n |-> tbc[i].var]
  BY <1>2 DEF VarsOf
<1>5. vs \in Seq(Nat)
  BY <1>3, <1>4
<1>6. In(vs) = Vars(tbc)
  <2>1. In(vs) = { vs[i] : i \in 1..n } /\ In(tbc) = { tbc[i] : i \in 1..n }
    BY <1>2 DEF In
  <2> QED BY <2>1, <1>2 DEF Vars
<1>7. ASSUME NEW i \in 1..n, NEW j \in 1..n, i < j PROVE vs[i] # vs[j]
  <2>1. <<tbc[i], tbc[j]>> \in ByslotAndVar
    BY <1>1, <1>2, <1>7 DEF Sorted
  <2>2. tbc[i].var > tbc[j].var
    BY <2>1 DEF ByslotAndVar
  <2> QED BY <2>2, <1>2, <1>3
<1>8. \A i, j \in 1..n : vs[i] = vs[j] => i = j
  <2> SUFFICES ASSUME NEW i \in 1..n, NEW j \in 1..n, i # j PROVE vs[i] # vs[j]
    OBVIOUS
  <2>1. i < j \/ j < i
    OBVIOUS
  <2> QED BY <2>1, <1>7
<1> QED BY <1>2, <1>5, <1>6, <1>8

\* Closing all that is pending closes every variable marked, each once.
LEMMA CloseAll ==
  ASSUME NEW fs, NEW tbc, ToClose(fs, tbc), NEW decl, NEW mark, NEW cl,
         Closes(tbc, decl, mark, cl)
  PROVE  Closes(<< >>, decl, mark, cl \o VarsOf(tbc))
<1> PICK vs : vs = VarsOf(tbc)
  OBVIOUS
<1>1. /\ vs \in Seq(Nat) /\ In(vs) = Vars(tbc)
      /\ \A i, j \in DOMAIN vs : vs[i] = vs[j] => i = j
  BY VarsFacts
<1>2. /\ decl \in Nat /\ mark \subseteq 1..decl /\ cl \in Seq(Nat)
      /\ \A i, j \in DOMAIN cl : cl[i] = cl[j] => i = j
      /\ Vars(tbc) \cup In(cl) = mark /\ Vars(tbc) \cap In(cl) = {}
  BY DEF Closes
<1> PICK cs : cs = cl \o vs
  OBVIOUS
<1>3. /\ cs \in Seq(Nat) /\ DOMAIN cs = 1..(Len(cl) + Len(vs))
      /\ DOMAIN cl = 1..Len(cl) /\ DOMAIN vs = 1..Len(vs)
      /\ Len(cl) \in Nat /\ Len(vs) \in Nat
      /\ \A i \in DOMAIN cs : IF i <= Len(cl) THEN cs[i] = cl[i]
                                              ELSE cs[i] = vs[i - Len(cl)]
  BY <1>1, <1>2
<1>4. In(cs) = In(cl) \cup In(vs)
  <2>1. ASSUME NEW s \in Seq(Nat), NEW t \in Seq(Nat)
        PROVE  In(s \o t) = In(s) \cup In(t)
    BY InConcat
  <2> QED BY <2>1, <1>1, <1>2
<1>5. \A i \in DOMAIN cs :
        \/ i \in DOMAIN cl /\ cs[i] = cl[i]
        \/ /\ i - Len(cl) \in DOMAIN vs /\ i > Len(cl)
           /\ cs[i] = vs[i - Len(cl)]
  BY <1>3
<1>6. \A i \in DOMAIN cl, j \in DOMAIN vs : cl[i] # vs[j]
  <2> TAKE i \in DOMAIN cl, j \in DOMAIN vs
  <2>1. cl[i] \in In(cl) /\ vs[j] \in In(vs)
    BY DEF In
  <2> QED BY <2>1, <1>1, <1>2
<1>7. \A i, j \in DOMAIN cs : cs[i] = cs[j] => i = j
  <2> SUFFICES ASSUME NEW i \in DOMAIN cs, NEW j \in DOMAIN cs, cs[i] = cs[j]
               PROVE  i = j
    OBVIOUS
  <2>1. CASE i \in DOMAIN cl /\ cs[i] = cl[i] /\ j \in DOMAIN cl /\ cs[j] = cl[j]
    BY <2>1, <1>2
  <2>2. CASE /\ i - Len(cl) \in DOMAIN vs /\ cs[i] = vs[i - Len(cl)]
             /\ j - Len(cl) \in DOMAIN vs /\ cs[j] = vs[j - Len(cl)]
    <3>1. i - Len(cl) = j - Len(cl)
      BY <2>2, <1>1
    <3>2. i \in Nat /\ j \in Nat
      BY <1>3
    <3> QED BY <3>1, <3>2, <1>3
  <2> QED BY <2>1, <2>2, <1>5, <1>6
<1>8. In(<< >>) = {} /\ Vars(<< >>) = {}
  BY InEmpty DEF Vars
<1>9. In(cs) = mark
  BY <1>1, <1>2, <1>4
<1>10. Closes(<< >>, decl, mark, cs)
  BY <1>2, <1>3, <1>7, <1>8, <1>9 DEF Closes
<1> QED BY <1>10

\* lua_closethread.
LEMMA CloseThreadKeeps == ThreadInv /\ CloseThread => ThreadInv'
<1> SUFFICES ASSUME ThreadInv, CloseThread PROVE ThreadInv'
  OBVIOUS
<1>1. /\ ~running /\ status' = "OK" /\ frames' = <<BaseFrame>> /\ top' = 1
      /\ size' = BaseFrame.top /\ errfunc' = 0 /\ openupval' = << >>
      /\ tbclist' = << >> /\ taken' = taken \o VarsOf(tbclist)
      /\ running' = running /\ declared' = declared /\ marked' = marked
  BY DEF CloseThread, VarsOf
<1>2. /\ MinStack \in Nat /\ ExtraStack \in Nat /\ ExtraStack >= 5
      /\ ToClose(frames, tbclist) /\ Closes(tbclist, declared, marked, taken)
      /\ Status(frames, status, running, top)
  BY InvParts
<1>3. running' = FALSE
  BY <1>1, <1>2 DEF Status
<1> PICK sz \in Nat : sz = 1 + MinStack
  BY <1>2
<1>4. size' = sz
  BY <1>1 DEF BaseFrame, Frame
<1>5. Chain(<<BaseFrame>>, 0, "OK", FALSE, 1, sz, << >>, << >>)
  <2>1. 1 + MinStack <= sz /\ 1 <= sz + ExtraStack
    BY <1>2
  <2> QED BY <2>1, BaseAlone
<1>6. Closes(<< >>, declared, marked, taken \o VarsOf(tbclist))
  BY <1>2, CloseAll
<1> QED BY <1>1, <1>3, <1>4, <1>5, <1>6 DEF ThreadInv
-----------------------------------------------------------------------------
\* What a frame is after it has been written and read back.
SameFrame(f, g) ==
  /\ g \in FrameType /\ Proper(g)
  /\ g.kind = f.kind /\ g.func = f.func /\ g.top = f.top /\ g.ypcall = f.ypcall
  /\ g.recst = f.recst /\ g.locals = f.locals /\ g.doing = f.doing
  /\ g.old_errfunc = f.old_errfunc /\ (f.ypcall => g.u2 = f.u2)

\* wobj_thread writes all that matters of a frame.
LEMMA WrittenSame ==
  ASSUME NEW f, Proper(f)
  PROVE  SameFrame(f, Written(f))
<1>1. f \in FrameType /\ f.ypcall \in BOOLEAN /\ f.u2 \in Nat
  BY DEF Proper, FrameType
<1> PICK x \in Nat : x = IF f.ypcall THEN f.u2 ELSE 0
  BY <1>1
<1> PICK g : g = [f EXCEPT !.u2 = x]
  OBVIOUS
<1>2. g = Written(f)
  BY DEF Written
<1>3. /\ g \in FrameType
      /\ g.kind = f.kind /\ g.func = f.func /\ g.top = f.top /\ g.ypcall = f.ypcall
      /\ g.recst = f.recst /\ g.locals = f.locals /\ g.doing = f.doing
      /\ g.old_errfunc = f.old_errfunc /\ g.u2 = x
  BY <1>1 DEF FrameType
<1>4. (f.ypcall => x = f.u2) /\ (~f.ypcall => x = 0)
  OBVIOUS
<1>5. f.kind = "lua" => ~f.ypcall
  BY DEF Proper
<1>6. Proper(g)
  BY <1>3, <1>4, <1>5 DEF Proper
<1>7. SameFrame(f, g)
  BY <1>3, <1>4, <1>6 DEF SameFrame
<1> QED BY <1>2, <1>7

\* A snapshot of a coroutine that has nothing at stake.
LEMMA SaveLoadKeeps == ThreadInv /\ NothingToLose /\ SaveLoadThread => ThreadInv'
<1> SUFFICES ASSUME ThreadInv, NothingToLose, SaveLoadThread PROVE ThreadInv'
  OBVIOUS
<1>1. /\ ~running /\ size' = (IF top > Basic THEN top + 4 ELSE Basic)
      /\ frames' = [i \in DOMAIN frames |-> Written(frames[i])]
      /\ tbclist' = << >> /\ errfunc' = 0 /\ status' = status /\ running' = running
      /\ top' = top /\ openupval' = openupval /\ declared' = declared
      /\ marked' = marked /\ taken' = taken
  BY DEF SaveLoadThread, history
<1>2. /\ tbclist = << >> /\ errfunc = 0
      /\ \A i \in DOMAIN frames :
           frames[i].top <= IF top > Basic THEN top + 4 ELSE Basic
  BY DEF NothingToLose
<1>3. /\ Stack(frames) /\ Handlers(frames, errfunc) /\ Upvalues(frames, openupval)
      /\ Fit(frames, status, top, size) /\ Status(frames, status, running, top)
      /\ Closes(tbclist, declared, marked, taken)
      /\ MinStack \in Nat /\ ExtraStack \in Nat
  BY InvParts
<1>4. top \in Nat /\ size \in Nat
  BY <1>3 DEF Fit, Status
<1> PICK sz : sz = size'
  OBVIOUS
<1>5. /\ sz \in Nat /\ top <= sz /\ top <= sz + ExtraStack
      /\ \A i \in DOMAIN frames : frames[i].top <= sz
  <2>1. sz = IF top > Basic THEN top + 4 ELSE Basic
    BY <1>1
  <2>2. Basic \in Nat
    BY <1>3 DEF Basic
  <2>3. sz \in Nat /\ top <= sz
    BY <2>1, <2>2, <1>4
  <2>4. \A i \in DOMAIN frames : frames[i].top <= sz
    BY <2>1, <1>2
  <2>5. top <= sz + ExtraStack
    <3>1. \A a, b, c \in Nat : a <= b => a <= b + c
      OBVIOUS
    <3> QED BY <3>1, <2>3, <1>3, <1>4
  <2> QED BY <2>3, <2>4, <2>5
<1> PICK gs : gs = frames'
  OBVIOUS
<1>6. /\ Len(frames) \in Nat /\ Len(frames) >= 1 /\ DOMAIN frames = 1..Len(frames)
      /\ \A i \in DOMAIN frames : frames[i] \in FrameType /\ Proper(frames[i])
  BY <1>3, StackFacts
<1>7. /\ DOMAIN gs = DOMAIN frames
      /\ \A i \in DOMAIN frames : SameFrame(frames[i], gs[i])
  <2>1. DOMAIN gs = DOMAIN frames /\ \A i \in DOMAIN frames : gs[i] = Written(frames[i])
    BY <1>1
  <2> QED BY <2>1, <1>6, WrittenSame
<1>8. gs \in Seq(FrameType) /\ Len(gs) = Len(frames) /\ gs # << >>
  <2>1. gs = [i \in 1..Len(frames) |-> Written(frames[i])]
    BY <1>1, <1>6
  <2>2. \A i \in 1..Len(frames) : Written(frames[i]) \in FrameType
    BY <1>6, WrittenSame DEF SameFrame
  <2> QED BY <2>1, <2>2, <1>6
<1>9. Stack(gs)
  <2>1. gs[1].kind = "base" /\ gs[1].func = 0
    BY <1>3, <1>6, <1>7 DEF Stack, SameFrame
  <2>2. \A i \in DOMAIN gs : Proper(gs[i])
    BY <1>7 DEF SameFrame
  <2>3. ASSUME NEW i \in DOMAIN gs, NEW j \in DOMAIN gs, i < j
        PROVE  Under(gs[i], gs[j])
    <3>1. Under(frames[i], frames[j])
      BY <2>3, <1>3, <1>7 DEF Stack
    <3> QED BY <3>1, <1>7 DEF Under, SameFrame, Last
  <2>4. ASSUME NEW i \in DOMAIN gs, i + 1 \in DOMAIN gs
        PROVE  Calls(gs[i], gs[i + 1])
    <3>1. Calls(frames[i], frames[i + 1])
      BY <2>4, <1>3, <1>7 DEF Stack
    <3> QED BY <3>1, <2>4, <1>7 DEF Calls, SameFrame
  <2> QED BY <2>1, <2>2, <2>3, <2>4, <1>8 DEF Stack
<1>10. Handlers(gs, 0)
  <2>1. ASSUME NEW n \in 0..Len(frames) PROVE HandlerAt(gs, n) = HandlerAt(frames, n)
    <3>1. n \in Nat /\ \A i \in 1..n : i \in DOMAIN frames
      BY <1>6
    <3>2. \A i \in 1..n : /\ frames[i].ypcall = gs[i].ypcall
                          /\ frames[i].kind = gs[i].kind /\ frames[i].func = gs[i].func
      BY <3>1, <1>7 DEF SameFrame
    <3> QED BY <3>1, <3>2, HandlerSame
  <2>2. 0 = HandlerAt(gs, Len(gs))
    <3>1. Len(frames) \in 0..Len(frames)
      BY <1>6
    <3> QED BY <3>1, <2>1, <1>2, <1>3, <1>8 DEF Handlers
  <2>3. ASSUME NEW i \in DOMAIN gs, gs[i].ypcall
        PROVE  gs[i].old_errfunc = HandlerAt(gs, i - 1)
    <3>1. i - 1 \in 0..Len(frames)
      BY <1>6, <1>7
    <3>2. frames[i].ypcall /\ gs[i].old_errfunc = frames[i].old_errfunc
      BY <2>3, <1>7 DEF SameFrame
    <3>3. frames[i].old_errfunc = HandlerAt(frames, i - 1)
      BY <3>2, <1>3, <1>7 DEF Handlers
    <3>4. HandlerAt(gs, i - 1) = HandlerAt(frames, i - 1)
      BY <3>1, <2>1
    <3> QED BY <3>2, <3>3, <3>4
  <2> QED BY <2>2, <2>3 DEF Handlers
<1>11. Len(gs) \in DOMAIN frames
  BY <1>6, <1>8
<1>12. Status(gs, status, running, top)
  BY <1>1, <1>3, <1>7, <1>8, <1>11 DEF Status, SameFrame
<1>13. Fit(gs, status, top, sz)
  <2>1. \A i \in DOMAIN gs : frames[i].top \in Nat /\ gs[i].top <= sz
    BY <1>5, <1>6, <1>7 DEF SameFrame, FrameType
  <2>2. \A i \in DOMAIN gs : gs[i].top <= sz + ExtraStack
    <3> TAKE i \in DOMAIN gs
    <3>1. gs[i].top \in Nat /\ gs[i].top <= sz
      BY <2>1, <1>7 DEF SameFrame
    <3> QED BY <3>1, <1>3, <1>5
  <2>3. status # "ERR" => \A i \in DOMAIN gs :
          gs[i].kind = "lua" => gs[i].top = gs[i].func + 1 + FrameSize
    BY <1>3, <1>7 DEF Fit, SameFrame
  <2> QED BY <2>1, <2>2, <2>3, <1>5 DEF Fit
<1>14. In(<< >>) = {}
  BY InEmpty
<1>15. ToClose(gs, << >>) /\ ValuesKept(gs, << >>, top, sz)
  BY <1>14 DEF ToClose, ValuesKept, Sorted
<1>16. Upvalues(gs, openupval)
  <2>1. ASSUME NEW slot, NEW var, LiveIn(frames, slot, var) PROVE LiveIn(gs, slot, var)
    <3>1. PICK k \in DOMAIN frames : LiveAt(frames[k], slot, var)
      BY <2>1 DEF LiveIn
    <3>2. LiveAt(gs[k], slot, var)
      BY <3>1, <1>7 DEF LiveAt, SameFrame
    <3> QED BY <3>1, <3>2, <1>7 DEF LiveIn
  <2>2. /\ gs[Len(gs)].recst = frames[Len(frames)].recst
        /\ gs[Len(gs)].recst => gs[Len(gs)].u2 = frames[Len(frames)].u2
    BY <1>6, <1>7, <1>8, <1>11 DEF SameFrame, Proper
  <2>3. ASSUME NEW i \in DOMAIN gs, gs[i].doing # "run", NEW u \in In(openupval),
               ClosedTo(gs[i]) <= u.slot
        PROVE  Last(gs[i]) < u.slot
    <3>1. /\ frames[i].doing = gs[i].doing /\ Last(frames[i]) = Last(gs[i])
          /\ ClosedTo(frames[i]) = ClosedTo(gs[i])
      BY <1>7 DEF SameFrame, Last, ClosedTo
    <3> QED BY <3>1, <2>3, <1>3, <1>7 DEF Upvalues
  <2> QED BY <2>1, <2>2, <2>3, <1>3 DEF Upvalues
<1>17. Chain(gs, 0, status, running, top, sz, << >>, openupval)
  BY <1>9, <1>10, <1>12, <1>13, <1>15, <1>16 DEF Chain
<1> QED BY <1>1, <1>2, <1>3, <1>17 DEF ThreadInv
-----------------------------------------------------------------------------
\* Every action of the coroutine.
LEMMA StepKeeps == ThreadInv /\ [ThreadPlainNext]_threadVars => ThreadInv'
<1> SUFFICES ASSUME ThreadInv, [ThreadPlainNext]_threadVars PROVE ThreadInv'
  OBVIOUS
<1>1. CASE Start \/ Resume \/ Declare \/ DeclareClose \/ Capture
  BY <1>1, StartKeeps, ResumeKeeps, DeclareKeeps, DeclareCloseKeeps, CaptureKeeps
<1>2. CASE CallLua \/ PCall \/ Yield \/ Error \/ EndBlock \/ Return
  BY <1>2, CallLuaKeeps, PCallKeeps, YieldKeeps, ErrorKeeps, EndBlockKeeps,
     ReturnKeeps
<1>3. CASE CallClose \/ BlockDone \/ ReturnDone \/ PCallReturn \/ Recover
  BY <1>3, CallCloseKeeps, BlockDoneKeeps, ReturnDoneKeeps, PCallReturnKeeps,
     RecoverKeeps
<1>4. CASE GCShrink \/ CloseThread
  BY <1>4, GCShrinkKeeps, CloseThreadKeeps
<1>5. CASE NothingToLose /\ SaveLoadThread
  BY <1>5, SaveLoadKeeps
<1>6. CASE UNCHANGED threadVars
  BY <1>6 DEF threadVars, ThreadInv
<1>7. ThreadPlainNext \/ UNCHANGED threadVars
  OBVIOUS
<1> QED BY <1>1, <1>2, <1>3, <1>4, <1>5, <1>6, <1>7 DEF ThreadPlainNext, NextThread

\* The variables whose call found no room were close to the end of the stack.
Refused(unc, tk) ==
  \A u \in unc : /\ u.var \in In(tk)
                 /\ u.slot + 2 * FrameSize + 3 > MaxStack

\* A stack has no room for a call only close to its end.
LEMMA NoRoom ==
  ASSUME NEW s \in Nat, NEW t \in Nat, ~Room(s, t)
  PROVE  t + FrameSize > MaxStack
<1>1. FrameSize \in Nat /\ MaxStack \in Nat
  BY ThreadAssumption
<1>2. ~(s - t > FrameSize)
  BY DEF Room, Fits
<1>3. CASE s > MaxStack
  BY <1>1, <1>2, <1>3
<1>4. CASE s <= MaxStack
  <2>1. ~(NewSize(s, t, FrameSize) <= MaxStack)
    BY <1>4 DEF Room, CanGrow
  <2> PICK h \in Nat : h = s + s \div 2
    OBVIOUS
  <2>2. NewSize(s, t, FrameSize) =
          Bigger(Smaller(h, MaxStack), t + FrameSize)
    BY DEF NewSize
  <2>3. Smaller(h, MaxStack) \in Nat /\ Smaller(h, MaxStack) <= MaxStack
    BY <1>1 DEF Smaller
  <2> QED BY <1>1, <2>1, <2>2, <2>3 DEF Bigger
<1> QED BY <1>1, <1>3, <1>4

\* One turn of luaF_close, and the call it found no room for.
LEMMA CallCloseRefuses ==
  ASSUME ThreadInv, CallClose, Refused(uncalled, taken)
  PROVE  Refused(uncalled', taken')
<1> PICK h : h = Head(tbclist)
  OBVIOUS
<1> PICK func : func = IF ci.recst THEN h.slot + 2
                       ELSE IF ci.doing = "block" THEN h.slot + 1 ELSE top
  OBVIOUS
<1> PICK nargs : nargs = IF ci.recst THEN 2 ELSE 1
  OBVIOUS
<1>1. /\ running /\ (ci.doing # "run" \/ ci.recst)
      /\ tbclist # << >> /\ h.slot >= Level
      /\ uncalled' = uncalled \cup IF Room(size, func + 1 + nargs) THEN {} ELSE {h}
      /\ taken' = Append(taken, h.var)
  BY DEF CallClose, Closing, Pending
<1>2. /\ ToClose(frames, tbclist) /\ Status(frames, status, running, top)
      /\ FrameSize \in Nat /\ FrameSize >= 3 /\ taken \in Seq(Nat)
  BY InvParts DEF Closes
<1>3. h \in Variable /\ h.slot \in Nat /\ h.var \in Nat
  BY <1>1, <1>2, TailClose DEF Variable
<1>4. /\ ci = frames[Len(frames)] /\ ci \in FrameType /\ Proper(ci) /\ size \in Nat
      /\ ci.func \in Nat /\ Len(ci.locals) \in Nat /\ top \in Nat
      /\ ci.doing \in {"run", "block", "return"} /\ MaxStack \in Nat
      /\ Len(frames) \in DOMAIN frames
      /\ ci.kind = "lua" => ci.top = ci.func + 1 + FrameSize
  <2>1. /\ ci = frames[Len(frames)] /\ ci \in FrameType /\ Proper(ci) /\ size \in Nat
        /\ ci.func \in Nat /\ Len(ci.locals) \in Nat /\ top \in Nat
        /\ Len(frames) \in Nat /\ Len(frames) > 1 /\ DOMAIN frames = 1..Len(frames)
        /\ \A i \in DOMAIN frames :
             frames[i].kind = "lua" => frames[i].top = frames[i].func + 1 + FrameSize
    BY <1>1, RunningFacts
  <2>2. ci.doing \in {"run", "block", "return"}
    BY <2>1 DEF FrameType
  <2>3. Len(frames) \in DOMAIN frames
    BY <2>1
  <2>4. MaxStack \in Nat
    BY ThreadAssumption
  <2>5. ci.kind = "lua" => ci.top = ci.func + 1 + FrameSize
    BY <2>1, <2>3
  <2> QED BY <2>1, <2>2, <2>3, <2>4, <2>5
<1>5. In(taken') = In(taken) \cup {h.var}
  BY <1>1, <1>2, <1>3, InAppend
<1>6. ~Room(size, func + 1 + nargs) => h.slot + 2 * FrameSize + 3 > MaxStack
  <2> SUFFICES ASSUME ~Room(size, func + 1 + nargs)
               PROVE  h.slot + 2 * FrameSize + 3 > MaxStack
    OBVIOUS
  <2>1. CASE ci.recst
    <3>1. func + 1 + nargs = h.slot + 5
      BY <2>1, <1>3
    <3>2. h.slot + 5 + FrameSize > MaxStack
      BY <3>1, <1>3, <1>4, NoRoom
    <3> QED BY <3>2, <1>2, <1>3, <1>4
  <2>2. CASE ~ci.recst /\ ci.doing = "block"
    <3>1. func + 1 + nargs = h.slot + 3
      BY <2>2, <1>3
    <3>2. h.slot + 3 + FrameSize > MaxStack
      BY <3>1, <1>3, <1>4, NoRoom
    <3> QED BY <3>2, <1>2, <1>3, <1>4
  <2>3. CASE ~ci.recst /\ ci.doing = "return"
    <3>1. func + 1 + nargs = top + 2
      BY <2>3, <1>4
    <3>2. top + 2 + FrameSize > MaxStack
      BY <3>1, <1>4, NoRoom
    <3>3. ci.kind = "lua"
      BY <2>3, <1>4 DEF Proper
    <3>4. top <= ci.func + FrameSize + 2
      BY <2>3, <3>3, <1>1, <1>2, <1>4 DEF Status
    <3>5. ci.func + 1 <= h.slot
      BY <2>3, <1>1, <1>3, <1>4 DEF Level
    <3> QED BY <3>2, <3>4, <3>5, <1>2, <1>3, <1>4
  <2> QED BY <2>1, <2>2, <2>3, <1>1, <1>4
<1> QED BY <1>1, <1>5, <1>6 DEF Refused

\* lua_closethread, and the calls it found no room for.
LEMMA CloseThreadRefuses ==
  ASSUME ThreadInv, CloseThread, Refused(uncalled, taken)
  PROVE  Refused(uncalled', taken')
<1>1. PICK refused \in SUBSET In(tbclist) :
        /\ \A v \in In(tbclist) : ClosingMeets(v, v \notin refused)
        /\ uncalled' = uncalled \cup refused
  BY DEF CloseThread
<1>2. taken' = taken \o VarsOf(tbclist)
  BY DEF CloseThread, VarsOf
<1>3. /\ ToClose(frames, tbclist) /\ tbclist \in Seq(Variable) /\ taken \in Seq(Nat)
      /\ FrameSize \in Nat /\ FrameSize >= 3
      /\ MaxStack \in Nat /\ ErrorSpace \in Nat
  BY InvParts, ThreadAssumption DEF Closes
<1>4. VarsOf(tbclist) \in Seq(Nat) /\ In(VarsOf(tbclist)) = Vars(tbclist)
  BY <1>3, VarsFacts
<1>5. In(taken') = In(taken) \cup Vars(tbclist)
  BY <1>2, <1>3, <1>4, InConcat
<1>6. ASSUME NEW v \in refused
      PROVE  v.var \in Vars(tbclist) /\ v.slot + 2 * FrameSize + 3 > MaxStack
  <2>1. v \in In(tbclist) /\ v.slot \in Nat
    BY <1>3, ListTypes
  <2>2. PICK nargs \in 1..2, s \in {MaxStack, MaxStack + ErrorSpace} :
          ~Room(s, v.slot + nargs + nargs + 1)
    BY <1>1, <2>1 DEF ClosingMeets
  <2>3. s \in Nat /\ v.slot + nargs + nargs + 1 \in Nat
        /\ v.slot + nargs + nargs + 1 <= v.slot + 5
    BY <1>3, <2>1
  <2>4. v.slot + nargs + nargs + 1 + FrameSize > MaxStack
    BY <2>2, <2>3, NoRoom
  <2>5. v.slot + 2 * FrameSize + 3 > MaxStack
    BY <2>1, <2>3, <2>4, <1>3
  <2> QED BY <2>1, <2>5 DEF Vars
<1> QED BY <1>1, <1>5, <1>6 DEF Refused

\* No other action takes a variable off the list.
LEMMA RefusedKept ==
  ThreadInv /\ Refused(uncalled, taken) /\ [ThreadPlainNext]_threadVars
    => Refused(uncalled', taken')
<1> SUFFICES ASSUME ThreadInv, Refused(uncalled, taken), [ThreadPlainNext]_threadVars
             PROVE  Refused(uncalled', taken')
  OBVIOUS
<1>1. CASE Start \/ Resume \/ Declare \/ DeclareClose \/ Capture \/ CallLua
           \/ PCall \/ Yield \/ Error \/ EndBlock \/ Return
  BY <1>1 DEF Start, Resume, Declare, DeclareClose, Capture, CallLua, PCall, Yield,
     Error, EndBlock, Return, history
<1>2. CASE BlockDone \/ ReturnDone \/ PCallReturn \/ Recover \/ GCShrink
           \/ SaveLoadThread \/ UNCHANGED threadVars
  BY <1>2 DEF BlockDone, ReturnDone, PCallReturn, Recover, GCShrink, SaveLoadThread,
     history, threadVars
<1>3. CASE CallClose
  BY <1>3, CallCloseRefuses
<1>4. CASE CloseThread
  BY <1>4, CloseThreadRefuses
<1> QED BY <1>1, <1>2, <1>3, <1>4 DEF ThreadPlainNext, NextThread

(* What a coroutine keeps through calls, protected calls, yields, closes,   *)
(* errors anywhere among them, collections that shrink its stack, its       *)
(* closing, and snapshots taken while nothing is at stake (ldo.c, lfunc.c,  *)
(* lstate.c, lstasis.c).                                                    *)
THEOREM ThreadInvariant == ThreadPlainSpec => []ThreadInv
<1>1. InitThread => ThreadInv
  BY InitHolds
<1>2. ThreadInv /\ [ThreadPlainNext]_threadVars => ThreadInv'
  BY StepKeeps
<1> QED BY <1>1, <1>2, PTL DEF ThreadPlainSpec

(* A coroutine that is never saved is one whose snapshots are all taken     *)
(* while nothing is at stake: what is proved of ThreadPlainSpec holds of    *)
(* ThreadSpec.                                                              *)
THEOREM UnsavedIsPlain == ThreadSpec => ThreadPlainSpec
<1>1. [NextThread]_threadVars => [ThreadPlainNext]_threadVars
  BY DEF ThreadPlainNext
<1> QED BY <1>1, PTL DEF ThreadSpec, ThreadPlainSpec

(* L->errfunc is the handler of the innermost protected call, whatever      *)
(* error or return left the ones above it (lua_pcallk, finishpcallk).       *)
THEOREM HandlerIsInnermost == ThreadPlainSpec => []HandlerOfInnermost
<1>1. ThreadInv => HandlerOfInnermost
  <2> SUFFICES ASSUME ThreadInv PROVE HandlerOfInnermost
    OBVIOUS
  <2>1. errfunc = HandlerAt(frames, Len(frames)) /\ Stack(frames)
    BY InvParts DEF Handlers
  <2>2. DOMAIN frames = 1..Len(frames)
    BY <2>1, StackFacts
  <2> QED BY <2>1, <2>2 DEF HandlerOfInnermost, HandlerAt
<1> QED BY <1>1, ThreadInvariant, PTL

(* Every frame has its registers inside the stack, through growth,          *)
(* shrinking and overflow (luaD_growstack, luaD_shrinkstack).               *)
THEOREM FramesStayFit == ThreadPlainSpec => []FramesFit
<1>1. ThreadInv => FramesFit
  <2> SUFFICES ASSUME ThreadInv PROVE FramesFit
    OBVIOUS
  <2>1. Fit(frames, status, top, size) /\ Stack(frames)
    BY InvParts
  <2>2. \A i \in DOMAIN frames : frames[i].top \in Nat
    BY <2>1, StackFacts DEF FrameType
  <2>3. CASE status = "ERR"
    BY <2>1, <2>3 DEF Fit, FramesFit
  <2>4. CASE status # "ERR"
    <3>1. \A i \in DOMAIN frames : frames[i].top <= size + 0
      BY <2>1, <2>2, <2>4 DEF Fit
    <3> QED BY <3>1, <2>1, <2>4 DEF Fit, FramesFit
  <2> QED BY <2>3, <2>4
<1> QED BY <1>1, ThreadInvariant, PTL

(* An open upvalue names a variable in scope, or one that the protected     *)
(* call about to recover closes before anything else runs                   *)
(* (luaF_findupval, luaF_closeupval).                                       *)
THEOREM UpvaluesStayLive == ThreadPlainSpec => []OpenUpvaluesLive
<1>1. ThreadInv => OpenUpvaluesLive
  <2> SUFFICES ASSUME ThreadInv PROVE OpenUpvaluesLive
    OBVIOUS
  <2>1. Upvalues(frames, openupval) /\ Stack(frames)
    BY InvParts
  <2>2. openupval \in Seq(Variable)
    BY <2>1 DEF Upvalues
  <2>3. ASSUME NEW i \in DOMAIN openupval
        PROVE  \/ Live(openupval[i].slot, openupval[i].var)
               \/ ci.recst /\ openupval[i].slot >= ci.u2
    <3> PICK u : u = openupval[i]
      OBVIOUS
    <3>1. u \in In(openupval)
      BY DEF In
    <3>2. u.slot \in Nat /\ ci.u2 \in Nat
      BY <3>1, <2>1, <2>2, ListTypes, StackFacts DEF ci, FrameType
    <3>3. CASE LiveIn(frames, u.slot, u.var)
      BY <3>3 DEF LiveIn, LiveAt, Live
    <3>4. CASE ci.recst /\ ci.u2 <= u.slot
      BY <3>2, <3>4
    <3> QED BY <3>1, <3>3, <3>4, <2>1 DEF Upvalues, ci
  <2>4. ASSUME NEW i \in DOMAIN openupval, NEW j \in DOMAIN openupval, i < j
        PROVE  openupval[i].slot > openupval[j].slot
    <3>1. <<openupval[i], openupval[j]>> \in Byslot
      BY <2>1, <2>4 DEF Upvalues, Sorted
    <3> QED BY <3>1 DEF Byslot
  <2> QED BY <2>3, <2>4 DEF OpenUpvaluesLive
<1> QED BY <1>1, ThreadInvariant, PTL

(* The variables that wait to be closed are a stack of their own, and no    *)
(* frame is ever pushed over the value of one, not even by the calls of     *)
(* the __close methods of others (luaF_newtbcupval, luaF_close).            *)
THEOREM PendingStayIntact == ThreadPlainSpec => []TbcIntact
<1>1. ThreadInv => TbcIntact
  <2> SUFFICES ASSUME ThreadInv PROVE TbcIntact
    OBVIOUS
  <2>1. ToClose(frames, tbclist) /\ Stack(frames) /\ tbclist \in Seq(Variable)
    BY InvParts
  <2>2. /\ DOMAIN frames = 1..Len(frames) /\ Len(frames) \in Nat
        /\ \A i \in DOMAIN frames : frames[i].func \in Nat /\ frames[i].u2 \in Nat
    BY <2>1, StackFacts DEF FrameType
  <2>3. ASSUME NEW i \in DOMAIN tbclist, NEW j \in DOMAIN tbclist, i < j
        PROVE  /\ tbclist[i].slot > tbclist[j].slot
               /\ tbclist[i].var > tbclist[j].var
    <3>1. <<tbclist[i], tbclist[j]>> \in ByslotAndVar
      BY <2>1, <2>3 DEF ToClose, Sorted
    <3> QED BY <3>1 DEF ByslotAndVar
  <2>4. ASSUME NEW i \in DOMAIN tbclist
        PROVE  \/ Live(tbclist[i].slot, tbclist[i].var)
               \/ \E k \in DOMAIN frames :
                    /\ frames[k].recst /\ tbclist[i].slot >= frames[k].u2
                    /\ \A j \in (k + 1)..Len(frames) : frames[j].func > tbclist[i].slot
    <3> PICK t : t = tbclist[i]
      OBVIOUS
    <3>1. t \in In(tbclist)
      BY DEF In
    <3>2. t.slot \in Nat
      BY <3>1, <2>1, ListTypes
    <3>3. CASE LiveIn(frames, t.slot, t.var)
      BY <3>3 DEF LiveIn, LiveAt, Live
    <3>4. ASSUME NEW k \in DOMAIN frames, Unwinds(frames, k, t.slot)
          PROVE  /\ frames[k].recst /\ t.slot >= frames[k].u2
                 /\ \A j \in (k + 1)..Len(frames) : frames[j].func > t.slot
      <4>1. \A j \in (k + 1)..Len(frames) : j \in DOMAIN frames /\ k < j
        BY <2>2
      <4> QED BY <4>1, <3>2, <3>4, <2>2 DEF Unwinds
    <3> QED BY <3>1, <3>3, <3>4, <2>1 DEF ToClose
  <2> QED BY <2>3, <2>4 DEF TbcIntact
<1> QED BY <1>1, ThreadInvariant, PTL

(* A to-be-closed variable is taken off the list once, whatever its scope   *)
(* goes through, and its __close is called unless the variable was within a *)
(* call's reach of the end of the stack; a coroutine at its end has none    *)
(* left (luaF_close, luaD_closeprotected).                                  *)
THEOREM EachIsClosedOnce == ThreadPlainSpec => []ClosedOnce
<1>1. ThreadInv /\ Refused(uncalled, taken) => ClosedOnce
  <2> SUFFICES ASSUME ThreadInv, Refused(uncalled, taken) PROVE ClosedOnce
    OBVIOUS
  <2>1. /\ ToClose(frames, tbclist) /\ Upvalues(frames, openupval) /\ Stack(frames)
        /\ Closes(tbclist, declared, marked, taken)
        /\ Status(frames, status, running, top)
        /\ tbclist \in Seq(Variable) /\ openupval \in Seq(Variable)
    BY InvParts
  <2>2. /\ \A i, j \in DOMAIN taken : taken[i] = taken[j] => i = j
        /\ Vars(tbclist) \cup In(taken) = marked
        /\ Vars(tbclist) \cap In(taken) = {}
    BY <2>1 DEF Closes
  <2>3. \A v \in marked : (\E i \in DOMAIN taken : taken[i] = v)
                           <=> ~(\E i \in DOMAIN tbclist : tbclist[i].var = v)
    <3>1. \A v : v \in In(taken) <=> \E i \in DOMAIN taken : taken[i] = v
      BY DEF In
    <3>2. \A v : v \in Vars(tbclist) <=> \E i \in DOMAIN tbclist : tbclist[i].var = v
      BY DEF In, Vars
    <3> QED BY <3>1, <3>2, <2>2
  <2>4. ASSUME ~running, status = "OK" PROVE tbclist = << >> /\ openupval = << >>
    <3>1. Len(frames) = 1 /\ DOMAIN frames = 1..1 /\ Proper(frames[1])
          /\ frames[1] \in FrameType
      BY <2>1, <2>4, StackFacts DEF Status
    <3>2. frames[1].locals = << >> /\ ~frames[1].recst
      BY <2>1, <3>1 DEF Stack, Proper
    <3>3. \A slot \in Nat : \A var : ~LiveIn(frames, slot, var)
      BY <3>1, <3>2, LiveSlot DEF LiveIn
    <3>4. \A k \in DOMAIN frames : \A slot : ~Unwinds(frames, k, slot)
      BY <3>1, <3>2 DEF Unwinds
    <3>5. \A t \in In(tbclist) : FALSE
      BY <2>1, <3>3, <3>4, ListTypes DEF ToClose
    <3>6. \A u \in In(openupval) : FALSE
      BY <2>1, <3>1, <3>2, <3>3, ListTypes DEF Upvalues
    <3>7. tbclist # << >> => tbclist[1] \in In(tbclist)
      BY <2>1 DEF In
    <3>8. openupval # << >> => openupval[1] \in In(openupval)
      BY <2>1 DEF In
    <3> QED BY <3>5, <3>6, <3>7, <3>8
  <2>5. \A u \in uncalled : /\ \E i \in DOMAIN taken : taken[i] = u.var
                           /\ u.slot + 2 * FrameSize + 3 > MaxStack
    <3>1. \A v : v \in In(taken) <=> \E i \in DOMAIN taken : taken[i] = v
      BY DEF In
    <3> QED BY <3>1 DEF Refused
  <2> QED BY <2>2, <2>3, <2>4, <2>5 DEF ClosedOnce
<1>2. InitThread => Refused(uncalled, taken)
  BY DEF InitThread, Refused
<1>3. ThreadInv /\ Refused(uncalled, taken) /\ [ThreadPlainNext]_threadVars
        => Refused(uncalled, taken)'
  BY RefusedKept DEF Refused
<1> QED BY <1>1, <1>2, <1>3, ThreadInvariant, PTL DEF ThreadPlainSpec
=============================================================================
