-------------------------------- MODULE MCLibrary ------------------------------
(***************************************************************************)
(* The calls of the library that are checked. A behavior is one call of a   *)
(* function that returns at once, or one sort: of arrays of different       *)
(* elements with any answers of the order function, and of all small arrays *)
(* with consistent ones.                                                    *)
(***************************************************************************)
EXTENDS LuaLibrary, LuaSort, TLC

VARIABLE sorts    \* whether the call is one of table.sort

InitLibrary ==
  \/ sorts = FALSE /\ InitCall /\ array = <<>> /\ fair = TRUE /\ a = <<>> /\ s = Idle
  \/ sorts = TRUE /\ call = [fn |-> "sort"] /\ result = <<>> /\ InitSort
NextLibrary ==
  \/ sorts = FALSE /\ NextCall /\ UNCHANGED <<sorts, sortVars>>
  \/ sorts = TRUE /\ NextSort /\ UNCHANGED <<sorts, callVars>>

MCSorts ==
  { [array |-> [i \in 1..n |-> i], fair |-> FALSE] : n \in 0..6 }
  \cup { [array |-> t, fair |-> TRUE] :
           t \in UNION { [1..n -> 1..3] : n \in 0..5 } \cup Permutations(1..6) }

Rows(S, n) == UNION { [1..m -> S] : m \in 0..n }

(* Integers of 4 bits; a table with an element at every key, or at some.    *)
Names == <<"a", "b", "c", "d", "e", "f", "g", "h", "i", "j", "k", "l", "m", "n", "o", "p">>
Full == [k \in Ints |-> Names[k - MININTEGER + 1]]
FirstNames(n) == [k \in 1..n |-> Names[k]]
TableCalls(c) ==
  \/ \E u \in {Full, <<>>}, f \in Ints, e \in Ints, d \in Ints :
       c = [fn |-> "move", t |-> Full, u |-> u, same |-> u = Full, f |-> f, e |-> e, d |-> d]
  \/ \E n \in 0..MAXINTEGER, pos \in Ints : \E t \in {FirstNames(n), Full} :
       \/ c = [fn |-> "insert", t |-> t, n |-> n, pos |-> pos, v |-> "z"]
       \/ c = [fn |-> "insertlast", t |-> t, n |-> n, v |-> "z"]
       \/ c = [fn |-> "remove", t |-> t, n |-> n, pos |-> pos]
  \/ \E f \in Ints, e \in Ints : c = [fn |-> "tunpack", t |-> Full, f |-> f, e |-> e]

(* Patterns of up to three parts, and some longer or malformed ones.        *)
MCChars == <<"nul", "%", "(", ")", "*", "-", ".", "1", "[", "]", "^", "a", "b">>
MCCType == [a |-> {"a", "b"}, d |-> {"1"}]
MCUpper == {<<"A", "a">>, <<"D", "d">>}
Pieces == { <<"a">>, <<".">>, <<"%", "A">>, <<"[", "a", "]">>, <<"[", "^", "a", "]">>, <<"(">>, <<")">>,
           <<"(", ")">>, <<"%", "1">>, <<"a", "*">>, <<".", "-">>, <<"b", "?">>, <<".", "+">>,
           <<"%", "b", "a", "b">>, <<"%", "f", "[", "b", "]">>, <<"$">>, <<"^">> }
Longer ==
  { <<"(", "(", ".", ")", ".", "-", ")", "%", "2", "$">>,
    <<"(", ".", "-", ")", "(", "b", "*", ")", "%", "1">>,
    <<"(", ".", "*", ")", "%", "1", "(", ")">>,
    <<"(", "a", "?", ")", "(", "%", "a", "-", ")", "b", "$">>,
    <<"^", "(", "a", "+", ")", "(", ")", "b">>,
    <<"[", "]", "a", "]", "+", ".">>, <<"[", "^", "]", "]", "-", "b">>, <<"[", "a", "-", "b", "]", "*", "$">>,
    <<"[", "%", "a", "1", "]", "+">>, <<"[", "a", "-", "]", "+">>, <<"%", "b", "a", "a", ".", "*">>,
    <<"%">>, <<"a", "%">>, <<"[", "a">>, <<"[", "]">>, <<"[", "^">>, <<"a", "[", "%">>, <<"[", "a", "%">>,
    <<"%", "b", "a">>, <<"%", "f", "a">>, <<"%", "f", "[", "a">>, <<"%", "0">>, <<"(", "%", "1", ")">>,
    <<"a", "*", "(", "a", "*", "a">>, <<"(", "(", "a", ")">>, <<".", ")", "b">>,
    <<"%", "%", "a">>, <<"(", ")", "%", "1">>, <<"%", "d", "*", "(", "%", "D", "+", ")">> }
TwoPieces == { p \o q : p \in Pieces, q \in Pieces \cup {<<>>} }
Subjects(n) == Rows({"a", "b"}, n)
Find(src, pat, pos) == [fn |-> "find", src |-> src, pat |-> pat, pos |-> pos]
GMatchOf(src, pat) == [fn |-> "gmatch", src |-> src, pat |-> pat]
GSubOf(src, pat, news) == [fn |-> "gsub", src |-> src, pat |-> pat, news |-> news]
Replacements == {<<>>, <<"1", "%", "1">>, <<"%", "0", "%", "%">>, <<"%", "2">>, <<"%", "a">>}
PatternCalls(c) ==
  \/ \E src \in [1..3 -> {"a", "b"}], p \in TwoPieces, q \in Pieces : c = Find(src, p \o q, 1)
  \/ \E src \in Subjects(3), pat \in TwoPieces :
       c = GMatchOf(src, pat) \/ \E pos \in {-2, 0, 2} : c = Find(src, pat, pos)
  \/ \E src \in Subjects(2), pat \in TwoPieces, news \in Replacements : c = GSubOf(src, pat, news)
  \/ \E src \in Subjects(4) \cup {<<"]", "1", "b">>, <<"-", "a", "a", "b", "b">>, <<"%", "a">>},
        pat \in Longer :
       c = Find(src, pat, 1) \/ c = GMatchOf(src, pat) \/ c = GSubOf(src, pat, <<"%", "1", "-">>)

(* Formats of one or two options after some for the order and alignment;     *)
(* bytes have two bits, a lua_Integer two bytes.                            *)
Opt(o) == [o |-> o, n |-> -1]
Sized(o, n) == [o |-> o, n |-> n]
MCSizeOf == [short |-> 1, int |-> 2, long |-> 2, size_t |-> 2, number |-> 2]
IntOptions == { Opt(o) : o \in {"b", "B", "h", "H", "l", "L", "j", "J", "T", "i", "I"} }
                \cup { Sized(o, n) : o \in {"i", "I"}, n \in 1..4 }
StrOptions == {Opt("z"), Opt("s"), Sized("s", 1), Sized("s", 4), Sized("c", 0), Sized("c", 2)}
ArgOptions == IntOptions \cup StrOptions \cup {Opt("n")}
Aligning == { <<Opt("!"), Opt("=")>>, <<Opt("x"), Opt(">"), Sized("!", 4)>>,
              <<Opt("B"), Opt("!"), Opt("X"), Sized("i", 4)>> }
Starts == Aligning \cup { <<>>, <<Opt(">")>>, <<Opt("h"), Sized("!", 2), Opt("<")>> }
Values(opt) ==
  IF opt \in IntOptions THEN -(UINTS \div 2)..(UINTS \div 2 - 1)
  ELSE IF opt \in StrOptions THEN { <<>>, <<3>>, <<0, 1>>, <<1, 2, 3>>, <<1, 1, 1, 1>> }
  ELSE { <<1, 2>> }
Some(opt) ==
  IF opt \in IntOptions THEN {-(UINTS \div 2), -1, 1}
  ELSE IF opt \in StrOptions THEN { <<>>, <<2, 1>> } ELSE { <<1, 2>> }
Ones(p) == [i \in 1..Len(Options(p)) |-> 1]
\* Only a size that is no power of two cannot be aligned to four.
Wellformed(p, opt) == opt.n # 3 \/ p \notin Aligning
Packing(p, opts, args, wellformed) ==
  [fn |-> "pack", fmt |-> p \o opts, args |-> Ones(p) \o args, wellformed |-> wellformed]
Malformed == { <<Sized("i", 0)>>, <<Sized("I", 5)>>, <<Sized("!", 5)>>, <<Opt("c")>>, <<Opt("y")>>,
               <<Opt("X")>>, <<Opt("X"), Sized("c", 2)>>, <<Opt("X"), Opt("z")>>, <<Opt("X"), Opt("X")>>,
               <<Opt("X"), Opt("y")>>, <<Opt("!"), Opt("X"), Sized("i", 3)>> }
Bytes == 0..(BYTES - 1)
PackCalls(c) ==
  \/ \E p \in Starts, opt \in ArgOptions : \E v \in Values(opt) :
       c = Packing(p, <<opt>>, <<v>>, Wellformed(p, opt))
  \/ \E p \in Aligning, o1 \in ArgOptions, o2 \in ArgOptions : \E v1 \in Some(o1), v2 \in Some(o2) :
       c = Packing(p, <<o1, o2>>, <<v1, v2>>, Wellformed(p, o1) /\ Wellformed(p, o2))
  \/ \E p \in Starts, bad \in Malformed : c = Packing(p, bad, <<>>, FALSE)
  \/ \E p \in {<<>>, <<Opt(">")>>}, opt \in ArgOptions, data \in Rows(Bytes, 4) :
       c = [fn |-> "unpack", fmt |-> p \o <<opt>>, data |-> data]

(* Functions of two builds; their strings are shared within and among them. *)
Text(n) == <<"str", [i \in 1..n |-> i]>>
Instr(n) == <<n, 7 - n, 0, n>>
Upvalue(name, idx) == [instack |-> 1, idx |-> idx, kind |-> 0, name |-> name]
Plain == [line |-> 0, lastline |-> 0, nparams |-> 0, flag |-> 1, maxstack |-> 2,
          code |-> <<Instr(1)>>, k |-> <<>>, ups |-> <<Upvalue(Text(2), 0)>>, p |-> <<>>,
          source |-> Text(1), lineinfo |-> <<1>>, abslines |-> <<>>, locvars |-> <<>>]
Inner == [Plain EXCEPT !.line = 9, !.lastline = 20, !.nparams = 2, !.flag = 4,
            !.code = <<Instr(2), Instr(3)>>, !.ups = <<>>,
            !.k = << Text(2), <<"int", -1>>, <<"int", 31>>, <<"int", -32>>, <<"flt", <<1, 2>>>>, <<"nil">>,
                     <<"false">>, <<"true">>, Text(0), Text(9), Text(9) >>,
            !.locvars = <<[name |-> Text(2), first |-> 0, last |-> 9], [name |-> Text(3), first |-> 1, last |-> 2]>>,
            !.abslines = <<<<1, 2, 3, 4>>, <<5, 6, 7, 0>>>>, !.lineinfo = <<1, 2>>]
Outer == [Plain EXCEPT !.p = <<Inner, [Inner EXCEPT !.source = NoString, !.ups = <<Upvalue(NoString, 3), Upvalue(Text(3), 1)>>]>>,
            !.k = <<Text(3), Text(2)>>, !.flag = 4 + PF_FIXED, !.code = <<>>]
Build == [version |-> 5, format |-> 0, int |-> <<1, 2>>, instr |-> <<1, 2, 3, 4>>,
          integer |-> <<5, 6, 7, 8>>, number |-> <<3, 4>>]
OtherBuilds == { [Build EXCEPT !.version = 6], [Build EXCEPT !.format = 1], [Build EXCEPT !.int = <<2, 1>>],
                 [Build EXCEPT !.instr = <<4, 3, 2, 1>>], [Build EXCEPT !.integer = <<5, 6>>],
                 [Build EXCEPT !.number = <<4, 3>>], [Build EXCEPT !.number = <<3, 4, 5>>] }
ChunkCalls(c) ==
  \E f \in {Plain, Inner, Outer}, strip \in BOOLEAN, n \in 0..30 :
    c = [fn |-> "dump", f |-> f, build |-> Build, others |-> OtherBuilds, strip |-> strip, failing |-> n]

MCCalls(c) == TableCalls(c) \/ PatternCalls(c) \/ PackCalls(c) \/ ChunkCalls(c)
=============================================================================
