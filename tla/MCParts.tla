-------------------------------- MODULE MCParts ---------------------------------
(***************************************************************************)
(* Four parts that do not meet, each with behaviors of its own while the    *)
(* others stay as they begin: the names of C functions, a state with        *)
(* finalizers and a coroutine that are saved and loaded, and chunks that    *)
(* are compiled and run.                                                    *)
(*                                                                          *)
(* The libraries are base, package and string, cut down to a few functions: *)
(* the same functions come up again under the registry, the string          *)
(* metatable and the globals.  package.searchers is a list; one library has *)
(* a function only a long key leads to; two tables of the registry have     *)
(* keys that begin alike.                                                   *)
(*                                                                          *)
(* Objects with finalizers are interchangeable: nothing orders or tells     *)
(* them apart but the history of the behavior.                              *)
(***************************************************************************)
EXTENDS CFuncNames, FinalizerSnapshot, ThreadSnapshot, MCCompiler

VARIABLE part   \* "names", "finalizers", "thread" or "chunk"

NoChunk ==
  /\ prog = 1 /\ args = <<>> /\ asserts = TRUE
  /\ proto = <<>> /\ vm = <<>> /\ result = <<"source">>
InitParts ==
  /\ \/ part \in {"names", "finalizers", "thread"} /\ NoChunk
     \/ part = "chunk" /\ InitChunk
  /\ InitNames /\ Init /\ InitThread
  /\ part # "finalizers" => hasgc = {}
NextParts ==
  /\ UNCHANGED part
  /\ \/ part = "names" /\ NextNames /\ UNCHANGED <<vars, threadVars, chunkVars>>
     \/ part = "finalizers" /\ PlainNext /\ UNCHANGED <<namesVars, threadVars, chunkVars>>
     \/ part = "thread" /\ ThreadPlainNext /\ UNCHANGED <<namesVars, vars, chunkVars>>
     \/ part = "chunk" /\ NextChunk /\ UNCHANGED <<namesVars, vars, threadVars>>
PartsSpec == InitParts /\ [][NextParts]_<<part, namesVars, vars, threadVars, chunkVars>>

Objects == Permutations(Obj)

MCFunction == {"print", "loadlib", "sub", "f_gc", "f_read", "lua", "croot",
               "remote", "a_gc", "b_gc"}
MCComponent == {"base", "package", "string", "_G", "_registry", "_LOADED", "searchers",
                "_string_meta", "print", "loadlib", "sub", "long", "a", "b",
                "__index", "twice", "FILE*", "__gc", "read"}

Fun(key, fn) == [key |-> key, fn |-> fn]
E(key, fn) == [key |-> key, n |-> 0, fn |-> fn]
Nth(n, fn) == [key |-> Index, n |-> n, fn |-> fn]
T(key, entries) == [key |-> key, entries |-> entries]
L(prefix, fields, subs) == [head |-> << >>, tail |-> prefix, fields |-> fields, subs |-> subs]
InRegistry(key, tail, fields, subs) ==
  [head |-> <<"_registry">> \o key, tail |-> tail, fields |-> fields, subs |-> subs]

Strings == {E(<<"sub">>, "sub")}
Long == <<"long", "long", "long">>
StringLib == L(<<"string">>, {Fun(<<"sub">>, "sub"), Fun(<<"twice">>, "sub"), Fun(Long, "remote")},
               {T(Long, Strings)})
Printing == {Fun(<<"print">>, "print")}
Searchers == T(<<"searchers">>, {Nth(1, "lua"), Nth(2, "croot")})
PackageLib == L(<<"package">>, {Fun(<<"loadlib">>, "loadlib")}, {Searchers})

Rest ==
  << InRegistry(<<"_LOADED">>, << >>, {}, {T(<<"string">>, Strings)}),
     InRegistry(<<"FILE*">>, << >>, {Fun(<<"__gc">>, "f_gc")}, {}),
     InRegistry(<<"FILE*">>, <<"__index">>, {Fun(<<"read">>, "f_read")}, {}),
     InRegistry(<<"long", "a">>, << >>, {Fun(<<"__gc">>, "a_gc")}, {}),
     InRegistry(<<"long", "b">>, << >>, {Fun(<<"__gc">>, "b_gc")}, {}),
     L(<<"_string_meta">>, {}, {T(<<"__index">>, Strings)}),
     L(<<"_G">>, Printing, {T(<<"string">>, Strings)}) >>

\* The loader opens its libraries in another order.
MCSave == <<L(<<"base">>, Printing, {}), PackageLib, StringLib>> \o Rest
MCLoad == <<StringLib, PackageLib, L(<<"base">>, Printing, {})>> \o Rest
=============================================================================
