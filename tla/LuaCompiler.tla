------------------------------- MODULE LuaCompiler -----------------------------
(***************************************************************************)
(* A chunk from its source to its results: it is compiled in one step       *)
(* (luaY_parser), then called and run one instruction at a time.  The       *)
(* compiler is that of LuaParser, the meaning that of LuaSemantics; both    *)
(* are parameters so that this module depends on no detail of theirs.       *)
(***************************************************************************)
EXTENDS LuaVM

CONSTANTS
  Translate(_),    \* MainFunc: from statements to code
  Sense(_, _),     \* Meaning: of statements, called with arguments
  Programs,    \* a row of chunks: their statements, and the error expected or ""
  Arguments    \* the rows of arguments of a call

VARIABLES
  prog,        \* the chunk: its index in Programs
  args,
  asserts      \* whether the assertions of the compiler held

chunkVars == <<prog, args, asserts, vmvars>>

InitChunk ==
  /\ prog \in DOMAIN Programs
  /\ args \in Arguments
  /\ asserts = TRUE
  /\ proto = <<>>
  /\ vm = <<>>
  /\ result = <<"source">>

\* luaY_parser, and the call of its closure.
Compile ==
  /\ result = <<"source">>
  /\ LET main == Translate(Programs[prog].body)
     IN  /\ proto' = main.proto
         /\ asserts' = main.asserts
         /\ result' = IF main.err = "" THEN <<"running">> ELSE <<"rejected", main.err>>
  /\ vm' = Started(args)
  /\ UNCHANGED <<prog, args>>

Stopped == result[1] \in {"rejected", "returned"} /\ UNCHANGED chunkVars
NextChunk == Compile \/ (Step /\ UNCHANGED <<prog, args, asserts>>) \/ Stopped
ChunkSpec == InitChunk /\ [][NextChunk]_chunkVars

-----------------------------------------------------------------------------

\* What the chunk asked of the world, in which order, and what it returned is
\* what the reference manual says of its source (lcode.c, lparser.c and lvm.c
\* together).
CodeMeansSource ==
  result[1] = "returned" => Observed(vm, result[2]) = Sense(Programs[prog].body, args)

\* Chunks the manual refuses are refused, for the reason it gives, and no others:
\* assignments to constants, gotos into the scope of a local variable or without
\* a label, names no declaration covers (luaK_semerror in lparser.c).
OnlyInvalidRefused ==
  /\ result[1] \in {"running", "returned"} => Programs[prog].err = ""
  /\ result[1] = "rejected" => result[2] = Programs[prog].err

\* The highest register an instruction uses, the values of an open list apart.
LastReg(i) ==
  CASE i.op \in {"JMP", "SETTABUP", "CLOSE"} -> 0
    [] i.op = "SELF" -> i.a + 1
    [] i.op \in {"LOADNIL", "SETLIST"} -> i.a + Max({i.b, 0})
    [] i.op \in {"CALL", "TAILCALL"} -> i.a + Max({i.b, i.c - 1, 0})
    [] i.op \in {"FORPREP", "FORLOOP"} -> i.a + 2
    [] i.op \in {"TFORPREP", "TFORLOOP"} -> i.a + 3
    [] i.op = "TFORCALL" -> i.a + Max({5, 2 + i.c})
    [] i.op = "VARARG" -> i.a + Max({i.c, 1}) - 1
    [] i.op = "CONCAT" -> i.a + i.b - 1
    [] i.op = "RETURN" -> i.a + Max({i.b, 1}) - 1
    [] OTHER -> i.a

\* The assertions of the code generator hold: registers are freed as a stack, a
\* statement leaves none in use, and no scope is left open (lua_assert in
\* lcode.c and lparser.c); and so does that of the interpreter: a frame has room
\* for the registers its instructions use (luaK_checkstack and its callers),
\* without which they would write past the end of the stack.
AssertionsHold ==
  /\ asserts
  /\ Running => LastReg(I) < P.maxstack
=============================================================================
