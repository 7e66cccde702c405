-------------------------------- MODULE LuaPack --------------------------------
(***************************************************************************)
(* string.pack and string.unpack (lstrlib.c).  A byte has NB bits and a     *)
(* lua_Integer SZINT bytes; a format is a row of options [o, n], n their    *)
(* numeral or -1; strings are rows of bytes, a float the bytes it has in    *)
(* memory on a little-endian machine.                                       *)
(***************************************************************************)
EXTENDS Integers, Sequences, SequencesExt

CONSTANTS
  NB, SZINT,       \* bits of a byte, bytes of a lua_Integer
  MAXINTSIZE,      \* largest size of an integer
  SizeOf,          \* bytes of the C types: short, int, long, size_t, lua_Number
  MAXALIGN,        \* the alignment of the machine
  MAX_SIZE

BYTES == 2^NB
MC == BYTES - 1
UINTS == BYTES^SZINT
Signed(u) == IF u < UINTS \div 2 THEN u ELSE u - UINTS
Zeros(n) == [i \in 1..n |-> 0]
Fail(what) == [err |-> what]

(*------------------------------ the format -----------------------------*)

Option(kind, size, h) == [err |-> "", kind |-> kind, size |-> size, h |-> h]
\* getnum, getnumlimit
Limited(kind, n, df, h) ==
  LET size == IF n = -1 THEN df ELSE n
  IN  IF size \notin 1..MAXINTSIZE THEN Fail("integral size out of limits")
      ELSE IF kind = "nop" THEN Option("nop", 0, [h EXCEPT !.maxalign = size])
      ELSE Option(kind, size, h)
\* getoption
GetOption(opt, h) ==
  CASE opt.o \in {"b", "B"} -> Option(IF opt.o = "b" THEN "int" ELSE "uint", 1, h)
    [] opt.o \in {"h", "H"} -> Option(IF opt.o = "h" THEN "int" ELSE "uint", SizeOf.short, h)
    [] opt.o \in {"l", "L"} -> Option(IF opt.o = "l" THEN "int" ELSE "uint", SizeOf.long, h)
    [] opt.o \in {"j", "J"} -> Option(IF opt.o = "j" THEN "int" ELSE "uint", SZINT, h)
    [] opt.o = "T" -> Option("uint", SizeOf.size_t, h)
    [] opt.o = "n" -> Option("float", SizeOf.number, h)
    [] opt.o = "i" -> Limited("int", opt.n, SizeOf.int, h)
    [] opt.o = "I" -> Limited("uint", opt.n, SizeOf.int, h)
    [] opt.o = "s" -> Limited("string", opt.n, SizeOf.size_t, h)
    [] opt.o = "c" -> IF opt.n = -1 THEN Fail("missing size for format option 'c'")
                      ELSE Option("char", opt.n, h)
    [] opt.o = "z" -> Option("zstr", 0, h)
    [] opt.o = "x" -> Option("padding", 1, h)
    [] opt.o = "X" -> Option("paddalign", 0, h)
    [] opt.o = " " -> Option("nop", 0, h)
    [] opt.o \in {"<", "="} -> Option("nop", 0, [h EXCEPT !.little = TRUE])
    [] opt.o = ">" -> Option("nop", 0, [h EXCEPT !.little = FALSE])
    [] opt.o = "!" -> Limited("nop", opt.n, MAXALIGN, h)
    [] OTHER -> Fail("invalid format option")

IsPow2(n) == \E k \in 0..NB * MAXINTSIZE : n = 2^k
\* getdetails: how an option is aligned, X as the option after it, which it takes
\* from the format.
Detail(o, h, align, rest) ==
  [err |-> "", kind |-> o.kind, size |-> o.size, align |-> align, h |-> h, rest |-> rest]
Align(o, h, size, rest, total) ==
  LET least == IF size > h.maxalign THEN h.maxalign ELSE size
  IN  IF size <= 1 \/ o.kind = "char" THEN Detail(o, h, 0, rest)
      ELSE IF ~IsPow2(least) THEN Fail("format asks for alignment not power of 2")
      ELSE Detail(o, h, (least - (total % least)) % least, rest)
AlignAs(o, next, rest, total) ==
  IF next.err # "" THEN next
  ELSE IF next.kind = "char" \/ next.size = 0 THEN Fail("invalid next option for option 'X'")
  ELSE Align(o, next.h, next.size, rest, total)
DetailsOf(o, rest, total) ==
  IF o.err # "" THEN o
  ELSE IF o.kind # "paddalign" THEN Align(o, o.h, o.size, rest, total)
  ELSE IF rest = <<>> THEN Fail("invalid next option for option 'X'")
  ELSE AlignAs(o, GetOption(rest[1], o.h), Tail(rest), total)
GetDetails(fmt, h, total) == DetailsOf(GetOption(fmt[1], h), Tail(fmt), total)
Header == [little |-> TRUE, maxalign |-> 1]

(*----------------------------- the bytes -------------------------------*)

InOrder(bytes, little) == IF little THEN bytes ELSE Reverse(bytes)
Byte(u, i) == (u \div BYTES^(i - 1)) % BYTES
\* packint: u is the integer as an unsigned one.
\* Mutant: no sign extension beyond a lua_Integer.
PackIntZeros(u, little, size, neg) == InOrder([i \in 1..size |-> Byte(u, i)], little)
PackInt(u, little, size, neg) ==
  InOrder([i \in 1..size |-> IF i > SZINT /\ neg THEN MC ELSE Byte(u, i)], little)
\* unpackint
UnpackInt(bytes, little, signed) ==
  LET b == InOrder(bytes, little)
      size == Len(b)
      limit == IF size <= SZINT THEN size ELSE SZINT
      value[i \in 0..limit] == IF i = 0 THEN 0 ELSE value[i - 1] + b[i] * BYTES^(i - 1)
      u == value[limit]
      half == BYTES^size \div 2
      extended == IF u >= half THEN u - BYTES^size ELSE u
      fill == IF ~signed \/ Signed(u) >= 0 THEN 0 ELSE MC
  IN  IF size < SZINT THEN [err |-> "", v |-> IF signed THEN extended ELSE u]
      ELSE IF \E i \in (limit + 1)..size : b[i] # fill
      THEN Fail("integer does not fit into Lua Integer")
      ELSE [err |-> "", v |-> Signed(u)]

(*------------------------- pack and unpack -----------------------------*)

Fits(kind, n, size) ==
  \/ size >= SZINT
  \/ IF kind = "int" THEN -(BYTES^size \div 2) <= n /\ n < BYTES^size \div 2
     ELSE n % UINTS < BYTES^size
\* The bytes of an argument, or an error.
PackOne(d, v) ==
  LET little == d.h.little
      good(bytes) == [err |-> "", bytes |-> bytes]
  IN  CASE d.kind \in {"int", "uint"} ->
             IF ~Fits(d.kind, v, d.size) THEN Fail("overflow")
             ELSE good(PackInt(v % UINTS, little, d.size, d.kind = "int" /\ v < 0))
        [] d.kind = "float" -> good(InOrder(v, little))
        [] d.kind = "char" -> IF Len(v) > d.size THEN Fail("string longer than given size")
                              ELSE good(v \o Zeros(d.size - Len(v)))
        [] d.kind = "string" ->
             IF d.size < SZINT /\ Len(v) >= BYTES^d.size
             THEN Fail("string length does not fit in given size")
             ELSE good(PackInt(Len(v), little, d.size, FALSE) \o v)
        [] d.kind = "zstr" -> IF 0 \in Range(v) THEN Fail("string contains zeros")
                              ELSE good(Append(v, 0))
        [] d.kind = "padding" -> good(<<0>>)
        [] OTHER -> good(<<>>)
TakesArgument(kind) == kind \notin {"padding", "paddalign", "nop"}

RECURSIVE Pack(_, _, _, _)
\* str_pack: what is left of the format and the arguments, after b.
PackBytes(d, args, b, one) ==
  IF one.err # "" THEN one ELSE Pack(d.rest, d.h, args, b \o Zeros(d.align) \o one.bytes)
PackNext(d, args, b) ==
  IF d.err # "" THEN d
  ELSE IF d.size + d.align > MAX_SIZE - Len(b) THEN Fail("result too long")
  ELSE IF ~TakesArgument(d.kind) THEN PackBytes(d, args, b, PackOne(d, 0))
  ELSE IF args = <<>> THEN Fail("no value")
  ELSE PackBytes(d, Tail(args), b, PackOne(d, args[1]))
Pack(fmt, h, args, b) ==
  IF fmt = <<>> THEN [err |-> "", bytes |-> b] ELSE PackNext(GetDetails(fmt, h, Len(b)), args, b)
StrPack(fmt, args) == Pack(fmt, Header, args, <<>>)

RECURSIVE PackSize(_, _, _)
\* str_packsize
SizeNext(d, total) ==
  IF d.err # "" THEN d
  ELSE IF d.kind \in {"string", "zstr"} THEN Fail("variable-length format")
  ELSE IF total > MAX_SIZE - (d.size + d.align) THEN Fail("format result too large")
  ELSE PackSize(d.rest, d.h, total + d.size + d.align)
PackSize(fmt, h, total) ==
  IF fmt = <<>> THEN [err |-> "", size |-> total] ELSE SizeNext(GetDetails(fmt, h, total), total)

\* What an option reads at a place, and how much it skips beyond its size.
UnpackOne(d, data, at) ==
  LET field == SubSeq(data, at + 1, at + d.size)
      rest == SubSeq(data, at + d.size + 1, Len(data))
      len == UnpackInt(field, d.h.little, FALSE)
      zero == SelectInSeq(rest, LAMBDA c : c = 0)
      good(v, skip) == [err |-> "", v |-> v, skip |-> skip]
      n == UnpackInt(field, d.h.little, d.kind = "int")
  IN  CASE d.kind \in {"int", "uint"} -> IF n.err # "" THEN n ELSE good(n.v, 0)
        [] d.kind = "float" -> good(InOrder(field, d.h.little), 0)
        [] d.kind = "char" -> good(field, 0)
        [] d.kind = "string" ->
             IF len.err # "" THEN len
             ELSE IF len.v % UINTS > Len(rest) THEN Fail("data string too short")
             ELSE good(SubSeq(rest, 1, len.v), len.v)
        [] d.kind = "zstr" -> IF zero = 0 THEN Fail("unfinished string for format 'z'")
                              ELSE good(SubSeq(rest, 1, zero - 1), zero)
        [] OTHER -> good(<<>>, 0)

RECURSIVE Unpack(_, _, _, _, _)
\* str_unpack: pos bytes are read already.
UnpackValue(d, data, pos, vals, one) ==
  IF one.err # "" THEN one
  ELSE Unpack(d.rest, d.h, data, pos + d.align + one.skip + d.size,
              IF TakesArgument(d.kind) THEN Append(vals, one.v) ELSE vals)
UnpackNext(d, data, pos, vals) ==
  IF d.err # "" THEN d
  ELSE IF d.align + d.size > Len(data) - pos THEN Fail("data string too short")
  ELSE UnpackValue(d, data, pos, vals, UnpackOne(d, data, pos + d.align))
Unpack(fmt, h, data, pos, vals) ==
  IF fmt = <<>> THEN [err |-> "", vals |-> vals, next |-> pos + 1]
  ELSE UnpackNext(GetDetails(fmt, h, pos), data, pos, vals)
StrUnpack(fmt, data) == Unpack(fmt, Header, data, 0, <<>>)
=============================================================================
