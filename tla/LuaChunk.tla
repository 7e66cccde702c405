-------------------------------- MODULE LuaChunk -------------------------------
(***************************************************************************)
(* Precompiled chunks: the writer ldump.c and the reader lundump.c.  A      *)
(* chunk is a row of bytes of VARBITS + 1 bits, so that numbers take        *)
(* several; an instruction has SZINSTR of them, an int SZINT_C.  The client *)
(* of the writer may fail at any block.                                     *)
(***************************************************************************)
EXTENDS Integers, Sequences, SequencesExt

CONSTANTS
  VARBITS,           \* 7: bits of a number in a byte
  SZINSTR, SZINT_C,  \* sizeof(Instruction), sizeof(int)
  MAX_INT,           \* INT_MAX
  MAXUNSIGNED,       \* LUA_MAXUNSIGNED
  PF_FIXED           \* the flag of a function in a fixed buffer

MORE == 2^VARBITS    \* the 0x80 of a byte: others follow
NoString == <<"null">>   \* no string; a string is <<"str", bytes>>

(* A build is what the header tells: its version and format, the sizes and  *)
(* the representation of its numbers.                                       *)
SIGNATURE == <<1, 2, 3, 4>>
LUAC_DATA == <<5, 6>>
HeaderBlocks(build) ==
  << SIGNATURE, <<build.version>>, <<build.format>>, LUAC_DATA,
     <<SZINT_C>>, build.int, <<SZINSTR>>, build.instr, <<Len(build.integer)>>, build.integer,
     <<Len(build.number)>>, build.number >>

(*------------------------------- ldump.c -------------------------------*)
(* D is the state of a dump: the offset, what the client took, how often it *)
(* was called, the call that fails or 0, the strings saved, and whether the *)
(* assertions on the alignment held.                                        *)

\* dumpBlock: nothing is written after an error.
DumpBlock(D, bytes) ==
  IF D.status # 0 THEN D
  ELSE LET fails == D.calls + 1 = D.failing
       IN  [D EXCEPT !.calls = @ + 1,
                     !.status = IF fails THEN 1 ELSE 0,
                     !.out = IF fails THEN @ ELSE @ \o bytes,
                     !.offset = @ + Len(bytes)]
DumpAlign(D, align) ==
  LET padding == align - (D.offset % align)
      d == IF padding < align THEN DumpBlock(D, [i \in 1..padding |-> 0]) ELSE D
  IN  [d EXCEPT !.asserts = @ /\ d.offset % align = 0]
DumpByte(D, y) == DumpBlock(D, <<y>>)
\* dumpVarint: the most significant bits first, all bytes but the last marked.
RECURSIVE Varint(_, _)
Varint(x, mark) ==
  (IF x \div MORE = 0 THEN <<>> ELSE Varint(x \div MORE, MORE)) \o <<(x % MORE) + mark>>
DumpVarint(D, x) == DumpBlock(D, Varint(x, 0))
\* dumpInteger: small values stay small.
DumpInteger(D, x) == DumpVarint(D, IF x >= 0 THEN 2 * x ELSE 2 * (-x - 1) + 1)
\* dumpString: a string that was written before is referred to by its number.
DumpString(D, ts) ==
  LET saved == SelectInSeq(D.saved, LAMBDA t : t = ts)
      written == DumpBlock(DumpVarint(D, Len(ts[2]) + 1), Append(ts[2], 0))
  IN  IF ts = NoString THEN DumpVarint(DumpVarint(D, 0), 0)
      ELSE IF saved # 0 THEN DumpVarint(DumpVarint(D, 0), saved)
      ELSE [written EXCEPT !.saved = Append(@, ts)]
DumpCode(D, f) ==
  DumpBlock(DumpAlign(DumpVarint(D, Len(f.code)), SZINSTR), FlattenSeq(f.code))
\* The type tags of constants.
Tag == [nil |-> 0, false |-> 1, true |-> 2, int |-> 3, flt |-> 4, str |-> 5]
DumpConstants(D, f) ==
  FoldLeft(LAMBDA d, o :
             LET t == DumpByte(d, Tag[o[1]])
             IN  CASE o[1] = "flt" -> DumpBlock(t, o[2])
                   [] o[1] = "int" -> DumpInteger(t, o[2])
                   [] o[1] = "str" -> DumpString(t, o)
                   [] OTHER -> t,
           DumpVarint(D, Len(f.k)), f.k)
DumpUpvalues(D, f) ==
  FoldLeft(LAMBDA d, u : DumpByte(DumpByte(DumpByte(d, u.instack), u.idx), u.kind),
           DumpVarint(D, Len(f.ups)), f.ups)
\* dumpDebug: nothing of it when the chunk is stripped.
DumpDebug(D, f, strip) ==
  LET of(part) == IF strip THEN <<>> ELSE part
      lines == DumpBlock(DumpVarint(D, Len(of(f.lineinfo))), of(f.lineinfo))
      n == DumpVarint(lines, Len(of(f.abslines)))
      abslines == IF of(f.abslines) = <<>> THEN n
                  ELSE DumpBlock(DumpAlign(n, SZINT_C), FlattenSeq(f.abslines))
      locals == FoldLeft(LAMBDA d, v : DumpVarint(DumpVarint(DumpString(d, v.name), v.first), v.last),
                         DumpVarint(abslines, Len(of(f.locvars))), of(f.locvars))
      names == FoldLeft(LAMBDA d, u : DumpString(d, u.name),
                        DumpVarint(locals, Len(of(f.ups))), of(f.ups))
  IN  Last(<<lines, n, abslines, locals, names>>)
RECURSIVE DumpFunction(_, _, _)
DumpFunction(D, f, strip) ==
  LET lines == DumpVarint(DumpVarint(D, f.line), f.lastline)
      bytes == DumpByte(DumpByte(DumpByte(lines, f.nparams), f.flag), f.maxstack)
      code == DumpCode(bytes, f)
      k == DumpConstants(code, f)
      ups == DumpUpvalues(k, f)
      protos == FoldLeft(LAMBDA d, p : DumpFunction(d, p, strip), DumpVarint(ups, Len(f.p)), f.p)
      source == DumpString(protos, IF strip THEN NoString ELSE f.source)
  IN  DumpDebug(Last(<<lines, bytes, code, k, ups, protos, source>>), f, strip)
\* luaU_dump; 'failing' is the block at which the client fails, 0 for never.
Dump(f, build, strip, failing) ==
  LET D == [out |-> <<>>, offset |-> 0, status |-> 0, calls |-> 0, failing |-> failing,
            saved |-> <<>>, asserts |-> TRUE]
      header == DumpByte(FoldLeft(DumpBlock, D, HeaderBlocks(build)), Len(f.ups))
  IN  DumpBlock(DumpFunction(header, f, strip), <<>>)
(*------------------------------ lundump.c ------------------------------*)
(* S is the state of a load: the chunk, how much of it was read, the        *)
(* strings met, the error that ended it, and the last value read.           *)

Stop(S, what) == [S EXCEPT !.err = IF @ = "" THEN what ELSE @, !.v = 0]
Got(S, v) == [S EXCEPT !.v = v]
LoadBlock(S, n) ==
  IF S.err # "" \/ S.at + n > Len(S.chunk) THEN [Stop(S, "truncated chunk") EXCEPT !.v = <<>>]
  ELSE [S EXCEPT !.at = @ + n, !.v = SubSeq(S.chunk, S.at + 1, S.at + n)]
LoadAlign(S, align) ==
  LET padding == align - (S.at % align) IN IF padding < align THEN LoadBlock(S, padding) ELSE S
First(S) == IF S.err # "" THEN Stop(S, "") ELSE Got(S, S.v[1])
LoadByte(S) == First(LoadBlock(S, 1))
\* loadVarint: a number may not exceed its limit; b is its next byte, x what is read.
RECURSIVE LoadMore(_, _, _)
LoadMore(b, limit, x) ==
  IF b.err # "" THEN b
  ELSE IF x > limit \div MORE THEN Stop(b, "integer overflow")
  ELSE IF b.v >= MORE THEN LoadMore(LoadByte(b), limit, x * MORE + (b.v % MORE))
  ELSE Got(b, x * MORE + b.v)
LoadVarint(S, limit) == LoadMore(LoadByte(S), limit, 0)
LoadInt(S) == LoadVarint(S, MAX_INT)
ToInteger(S) == Got(S, IF S.v % 2 = 1 THEN -(S.v \div 2) - 1 ELSE S.v \div 2)
LoadInteger(S) == ToInteger(LoadVarint(S, MAXUNSIGNED))

\* loadString: after its size the text of a new string, or the number of one met
\* before, and no string for 0.
NewString(S) ==
  LET ts == <<"str", Front(S.v)>>
  IN  IF S.err # "" THEN S ELSE [Got(S, ts) EXCEPT !.saved = Append(@, ts)]
\* Mutant: a string met before is counted again.
SavedStringAgain(S) ==
  IF S.err # "" \/ S.v = 0 THEN Got(S, NoString)
  ELSE IF S.v > Len(S.saved) THEN Stop(S, "invalid string index")
  ELSE [Got(S, S.saved[S.v]) EXCEPT !.saved = Append(@, S.saved[S.v])]
SavedString(S) ==
  IF S.err # "" \/ S.v = 0 THEN Got(S, NoString)
  ELSE IF S.v > Len(S.saved) THEN Stop(S, "invalid string index")
  ELSE Got(S, S.saved[S.v])
StringOf(S) ==
  IF S.err # "" THEN S
  ELSE IF S.v = 0 THEN SavedString(LoadVarint(S, MAXUNSIGNED)) ELSE NewString(LoadBlock(S, S.v))
LoadString(S) == StringOf(LoadVarint(S, MAX_INT))

\* n values, each read by Load.
Several(S, n, Load(_)) ==
  LET r == FoldLeft(LAMBDA r, i : LET t == Load(r.S) IN [S |-> t, vs |-> Append(r.vs, t.v)],
                    [S |-> S, vs |-> <<>>], [i \in 1..n |-> i])
  IN  Got(r.S, r.vs)
LoadCode(S) ==
  LET n == LoadInt(S) IN Several(LoadAlign(n, SZINSTR), n.v, LAMBDA t : LoadBlock(t, SZINSTR))
Number(S) == Got(S, <<"flt", S.v>>)
Integer(S) == Got(S, <<"int", S.v>>)
StringConstant(S) ==
  IF S.err # "" \/ S.v = NoString THEN Stop(S, "bad format for constant string") ELSE S
\* The constant of a type that was read.
ConstantOf(t, numbersize) ==
  CASE t.err # "" -> t
    [] t.v \in {Tag.nil, Tag.false, Tag.true} ->
         Got(t, << CHOOSE name \in {"nil", "false", "true"} : Tag[name] = t.v >>)
    [] t.v = Tag.flt -> Number(LoadBlock(t, numbersize))
    [] t.v = Tag.int -> Integer(LoadInteger(t))
    [] t.v = Tag.str -> StringConstant(LoadString(t))
    [] OTHER -> Stop(t, "invalid constant")
LoadConstant(S, numbersize) == ConstantOf(LoadByte(S), numbersize)
\* loadUpvalues: without their names.
LoadUpvalue(S) ==
  LET instack == LoadByte(S)
      idx == LoadByte(instack)
      kind == LoadByte(idx)
  IN  Got(kind, [instack |-> instack.v, idx |-> idx.v, kind |-> kind.v, name |-> NoString])
LoadLocVar(S) ==
  LET name == LoadString(S)
      first == LoadInt(name)
      last == LoadInt(first)
  IN  Got(last, [name |-> name.v, first |-> first.v, last |-> last.v])
\* A counted row of values, each read by Load, after an alignment.
Row(S, align, Load(_)) ==
  LET n == LoadInt(S) IN Several(IF align > 1 /\ n.v > 0 THEN LoadAlign(n, align) ELSE n, n.v, Load)
\* The names of upvalues: for all or none.
LoadNames(S, ups) ==
  LET n == LoadInt(S) IN Several(n, IF n.v # 0 THEN Len(ups) ELSE 0, LoadString)
Named(ups, names) ==
  [i \in DOMAIN ups |-> [ups[i] EXCEPT !.name = IF i \in DOMAIN names THEN names[i] ELSE NoString]]
\* The parts of a function in the order they are loaded, those of loadDebug last.
Parts == <<"line", "lastline", "nparams", "flag", "maxstack", "code", "k", "ups", "p", "source",
           "lineinfo", "abslines", "locvars", "names">>
RECURSIVE LoadFunction(_, _)
\* What is loaded for a part.
LoadPart(S, f, part, numbersize) ==
  CASE part \in {"line", "lastline"} -> LoadInt(S)
    [] part \in {"nparams", "flag", "maxstack"} -> LoadByte(S)
    [] part = "code" -> LoadCode(S)
    [] part = "k" -> Row(S, 1, LAMBDA t : LoadConstant(t, numbersize))
    [] part = "ups" -> Row(S, 1, LoadUpvalue)
    [] part = "p" -> Row(S, 1, LAMBDA t : LoadFunction(t, numbersize))
    [] part = "source" -> LoadString(S)
    [] part = "lineinfo" -> Row(S, 1, LoadByte)
    [] part = "abslines" -> Row(S, SZINT_C, LAMBDA t : LoadBlock(t, 2 * SZINT_C))
    [] part = "locvars" -> Row(S, 1, LoadLocVar)
    [] part = "names" -> LoadNames(S, f.ups)
\* The function with a part that was loaded; PF_FIXED is not kept.
WithPart(f, part, v) ==
  CASE part = "flag" -> [f EXCEPT !.flag = v - PF_FIXED * ((v \div PF_FIXED) % 2)]
    [] part = "names" -> [f EXCEPT !.ups = Named(@, v)]
    [] OTHER -> [f EXCEPT ![part] = v]
AddPart(r, part, t) == [S |-> t, f |-> IF t.err # "" THEN r.f ELSE WithPart(r.f, part, t.v)]
Whole(r) == Got(r.S, r.f)
LoadFunction(S, numbersize) ==
  LET none == [part \in Range(Parts) \ {"names"} |-> 0]
      add(r, part) == IF r.S.err # "" THEN r
                      ELSE AddPart(r, part, LoadPart(r.S, r.f, part, numbersize))
  IN  Whole(FoldLeft(add, [S |-> S, f |-> none], Parts))
\* checkHeader: literals and numbers of this build.
CheckHeader(S, build) ==
  FoldLeft(LAMBDA t, block :
             LET r == LoadBlock(t, Len(block))
             IN  IF r.err # "" \/ r.v = block THEN r ELSE Stop(r, "mismatch"),
           S, HeaderBlocks(build))
\* luaU_undump; the main function has the upvalues its closure was made for.
Checked(f, n) == IF f.err = "" /\ n # Len(f.v.ups) THEN Stop(f, "corrupted chunk") ELSE f
Loading(chunk) == [chunk |-> chunk, at |-> 0, err |-> "", saved |-> <<>>, v |-> 0]
LoadMain(n, build) ==
  IF n.err # "" THEN n ELSE Checked(LoadFunction(n, Len(build.number)), n.v)
Undump(chunk, build) == LoadMain(LoadByte(CheckHeader(Loading(chunk), build)), build)
=============================================================================
