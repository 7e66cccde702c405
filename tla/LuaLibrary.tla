------------------------------- MODULE LuaLibrary ------------------------------
(***************************************************************************)
(* A program that calls a function of the standard library, in one step;    *)
(* table.sort, which calls back, is LuaSort.                                *)
(* What each returns is held against a definition of its own: sequences and *)
(* integers without bound for the table functions, the meaning of patterns, *)
(* the fields a format describes, the function a chunk was made from.       *)
(***************************************************************************)
EXTENDS LuaTableLib, PatternMeaning, LuaPack, LuaChunk

CONSTANTS
  Calls(_),       \* whether a call is made
  Library(_),     \* what a call returns (Perform)
  Meaning(_)      \* what the call of a pattern function means (MeaningOf)

VARIABLES
  call,           \* the call
  result          \* what it returned, in a row; none before

callVars == <<call, result>>

(*------------------------------- the calls -----------------------------*)

\* What each function returns.
Perform(c) ==
  CASE c.fn = "move" -> TMove(c.t, c.u, c.same, c.f, c.e, c.d)
    [] c.fn = "insert" -> TInsert(c.t, c.n, c.pos, c.v)
    [] c.fn = "insertlast" -> TInsertLast(c.t, c.n, c.v)
    [] c.fn = "remove" -> TRemove(c.t, c.n, c.pos)
    [] c.fn = "tunpack" -> TUnpack(c.t, c.f, c.e)
    [] c.fn = "find" -> StrFind(c.src, c.pat, c.pos)
    [] c.fn = "gmatch" -> GMatch(X(c.src, c.pat), 1, NULL)
    [] c.fn = "gsub" -> StrGSub(c.src, c.pat, c.news)
    [] c.fn = "pack" -> StrPack(c.fmt, c.args)
    [] c.fn = "unpack" -> StrUnpack(c.fmt, c.data)
    [] c.fn = "dump" -> Dump(c.f, c.build, c.strip, c.failing)

InitCall == Calls(call) /\ result = <<>>
Call ==
  /\ result = <<>>
  /\ result' = <<Library(call)>>
  /\ UNCHANGED call
HasReturned == result # <<>> /\ UNCHANGED callVars
NextCall == Call \/ HasReturned

Returned(fn) == call.fn = fn /\ result # <<>>
R == result[1]

(*------------------------- shifting elements ---------------------------*)

Ints == MININTEGER..MAXINTEGER
\* Tables that answer the same for every key.
Same(t, u) == \A k \in Ints : Geti(t, k) = Geti(u, k)
AfterLast(n) == IF n = MAXINTEGER THEN MININTEGER ELSE n + 1
\* The counts and indices the manual's words are about, computed without bound.
Moved(c) ==
  LET n == Max({c.e - c.f + 1, 0})
      to == c.d..(c.d + n - 1)
  IN  [k \in DOMAIN c.u \cup to |-> IF k \in to THEN Geti(c.t, c.f + (k - c.d)) ELSE c.u[k]]
\* The elements from pos to n make room for v. A list of MAXINTEGER elements has
\* none left at its end: nothing moves there, and the position after its last
\* element is the least integer (testes/nextvar.lua:655).
Inserted(c) ==
  LET shifts == IF c.n = MAXINTEGER THEN {} ELSE (c.pos + 1)..(c.n + 1)
  IN  [k \in Ints |-> IF k = c.pos THEN c.v ELSE Geti(c.t, IF k \in shifts THEN k - 1 ELSE k)]
\* The elements after pos close the gap, and the last one is erased.
Removed(c) ==
  [k \in Ints |-> IF k = Max({c.pos, c.n}) THEN Nil
                  ELSE Geti(c.t, IF k \in c.pos..(c.n - 1) THEN k + 1 ELSE k)]
MoveRefused(c) == c.e >= c.f /\ (c.e - c.f + 1 > MAXINTEGER \/ c.d + (c.e - c.f) > MAXINTEGER)

\* table.move copies as if all at once, whatever overlaps, table.insert and
\* table.remove shift the elements after the position and touch no others, the
\* element removed is returned, and each refuses just what does not fit the
\* integers or the table (tmove, tinsert, tremove and tunpack in ltablib.c, whose
\* checks wrap around).
ElementsMove ==
  /\ Returned("move") =>
       /\ (R.err # "") = MoveRefused(call)
       /\ R.err = "" => Same(R.t, Moved(call))
  /\ Returned("insert") =>
       /\ (R.err # "") = (call.pos \notin (1..call.n) \cup {AfterLast(call.n)})
       /\ R.err = "" => Same(R.t, Inserted(call))
  /\ Returned("insertlast") =>
       R.err = "" /\ Same(R.t, Inserted(call @@ [pos |-> AfterLast(call.n)]))
  /\ Returned("remove") =>
       /\ (R.err # "") = (call.pos \notin (1..call.n) \cup {call.n, AfterLast(call.n)})
       /\ R.err = "" => Same(R.t, Removed(call)) /\ R.val = Geti(call.t, call.pos)
  /\ Returned("tunpack") =>
       /\ (R.err # "") = (call.e - call.f >= INT_MAX)
       /\ R.err = "" => /\ Len(R.vals) = Max({call.e - call.f + 1, 0})
                             /\ \A i \in DOMAIN R.vals :
                                  R.vals[i] = Geti(call.t, call.f + i - 1)

(*------------------------------ patterns -------------------------------*)

MeaningOf(c) ==
  CASE c.fn = "find" -> MeaningOfFind(c.src, c.pat, c.pos)
    [] c.fn = "gmatch" -> MeaningOfGMatch(c.src, c.pat)
    [] c.fn = "gsub" -> MeaningOfGSub(c.src, c.pat, c.news)

\* The match found, its captures, the matches of gmatch and the result of gsub
\* are the preferred ones among all the ways the pattern can match, and a
\* malformed pattern is an error only when the match gets to it (do_match and its
\* callers in lstrlib.c, which undo captures as they go back).
MatchesAsDefined ==
  call.fn \in {"find", "gmatch", "gsub"} /\ result # <<>> => R = Meaning(call)

(*---------------------------- pack and unpack --------------------------*)

\* The options that stand for a value: all but those only an X refers to.
Options(fmt) ==
  LET valued(i) == TakesArgument(GetOption(fmt[i], Header).kind) /\ (i = 1 \/ fmt[i - 1].o # "X")
  IN  FlattenSeq([i \in DOMAIN fmt |-> IF valued(i) THEN <<fmt[i]>> ELSE <<>>])
\* Whether a value fits an option, by the range of the integers of its size.
Suits(opt, v) ==
  LET o == GetOption(opt, Header)
      n == BYTES^o.size
  IN  CASE o.kind = "int" -> o.size >= SZINT \/ v \in (-(n \div 2))..(n \div 2 - 1)
        [] o.kind = "uint" -> o.size >= SZINT \/ v \in 0..(n - 1)
        [] o.kind = "char" -> Len(v) <= o.size
        [] o.kind = "string" -> o.size >= SZINT \/ Len(v) < n
        [] o.kind = "zstr" -> 0 \notin Range(v)
        [] OTHER -> TRUE
\* What comes back: a fixed string with its padding.
Back(opt, v) ==
  IF opt.o = "c" THEN v \o Zeros(opt.n - Len(v)) ELSE v

\* string.unpack returns what string.pack was given, string.packsize the length,
\* values that do not fit their option are refused, as is a string cut short;
\* and bytes that unpack to values are the bytes those pack to (str_pack,
\* str_packsize and str_unpack in lstrlib.c).
UnpackReturnsPacked ==
  /\ Returned("pack") =>
       LET opts == Options(call.fmt)
           values == [i \in DOMAIN opts |-> Back(opts[i], call.args[i])]
       IN  /\ (R.err = "") =
                (call.wellformed /\ \A i \in DOMAIN opts : Suits(opts[i], call.args[i]))
           /\ R.err = "" =>
                /\ StrUnpack(call.fmt, R.bytes) =
                     [err |-> "", next |-> Len(R.bytes) + 1, vals |-> values]
                /\ \A n \in 0..(Len(R.bytes) - 1) : StrUnpack(call.fmt, SubSeq(R.bytes, 1, n)).err # ""
                /\ PackSize(call.fmt, Header, 0) =
                     IF \E i \in DOMAIN opts : opts[i].o \in {"s", "z"}
                     THEN Fail("variable-length format") ELSE [err |-> "", size |-> Len(R.bytes)]
  /\ Returned("unpack") /\ R.err = "" =>
       StrPack(call.fmt, R.vals) = [err |-> "", bytes |-> SubSeq(call.data, 1, R.next - 1)]

(*------------------------- precompiled chunks --------------------------*)

RECURSIVE Kept(_, _)
\* What a chunk keeps of a function.
Kept(f, strip) ==
  LET fixed == IF (f.flag \div PF_FIXED) % 2 = 1 THEN PF_FIXED ELSE 0
      g == [f EXCEPT !.flag = @ - fixed, !.p = [i \in DOMAIN f.p |-> Kept(f.p[i], strip)]]
  IN  IF ~strip THEN g
      ELSE [g EXCEPT !.source = NoString, !.lineinfo = <<>>, !.abslines = <<>>,
                     !.locvars = <<>>, !.ups = [i \in DOMAIN f.ups |->
                                                  [f.ups[i] EXCEPT !.name = NoString]]]

\* A precompiled chunk loads as the function it was dumped from, strings shared
\* between functions and alignment included; cut short, or made by another build,
\* it is refused; and once its client failed, the writer does not call it again
\* (luaU_dump in ldump.c, luaU_undump in lundump.c).
ChunkComesBack ==
  Returned("dump") =>
    IF call.failing # 0
    THEN /\ R.status = 1 /\ R.calls = call.failing
         /\ IsPrefix(R.out, Dump(call.f, call.build, call.strip, 0).out)
    ELSE /\ R.status = 0 /\ R.asserts
         /\ Undump(R.out, call.build) =
              [Loading(R.out) EXCEPT !.at = Len(R.out), !.v = Kept(call.f, call.strip),
                                     !.saved = R.saved]
         /\ \A n \in 0..(Len(R.out) - 1) : Undump(SubSeq(R.out, 1, n), call.build).err # ""
         /\ \A build \in call.others : Undump(R.out, build).err # ""
=============================================================================
