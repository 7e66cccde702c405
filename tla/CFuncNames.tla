------------------------------ MODULE CFuncNames ------------------------------
(***************************************************************************)
(* How a snapshot names C functions.  The saver and the loader each open    *)
(* the given libraries on a state of their own and enumerate the same       *)
(* tables: the library tables, the registry's and their __index, the string *)
(* metatable and the globals.  The saver maps a function to the first name  *)
(* it meets it under, the loader a name to the first function it meets      *)
(* under it.  lua_next visits a table in an order of its own on each state  *)
(* (string hashes are seeded per state).                                    *)
(*                                                                          *)
(* A name is the sequence of its dotted components, and a long name one of  *)
(* many.  A key is such a sequence too (a key may have dots in it), or      *)
(* Index: a key that is not a string, which a subtable may have.            *)
(***************************************************************************)
EXTENDS Lists, FiniteSets

CONSTANTS
  Function,   \* C functions
  Component,
  Index,
  SaveLibs,   \* the tables enumerated, in order: [head, tail, fields, subs]
  LoadLibs,
  NameSize,   \* the longest name that fits the buffer "key"
  HeadSize    \* and the longest that fits the buffer "libname"

Key == Seq(Component) \ {<< >>}
Field == [key : Key, fn : Function]
\* Entries of a subtable; n tells the Index keys of a table apart.
Entry == [key : Key \cup {Index}, n : Nat, fn : Function]
Sub == [key : Key, entries : SUBSET Entry]
\* The head of the prefix is empty, or the key of a table in the registry.
Library == [head : Seq(Component), tail : Seq(Component),
            fields : SUBSET Field, subs : SUBSET Sub]

ASSUME NamesAssumption ==
  /\ SaveLibs \in Seq(Library) /\ LoadLibs \in Seq(Library)
  /\ Index \notin Key /\ <<"?">> \notin Key
  /\ NameSize \in Nat /\ HeadSize \in Nat

VARIABLES
  side,      \* "save", then "load", then "done"
  lib,       \* the table being enumerated
  todo,      \* its fields and subtables not yet visited
  outer,     \* the subtable being enumerated and its entries not yet visited
  cfmap,     \* the saver's list of <<function, name>>
  cfrev      \* the loader's list of <<name, function>>

namesVars == <<side, lib, todo, outer, cfmap, cfrev>>

Libs == IF side = "save" THEN SaveLibs ELSE LoadLibs
Contents(table) == table.fields \cup table.subs
None == [key |-> << >>, entries |-> {}]

InitNames ==
  /\ side = "save" /\ lib = 1
  /\ todo = IF SaveLibs = << >> THEN {} ELSE Contents(SaveLibs[1])
  /\ outer = None /\ cfmap = << >> /\ cfrev = << >>

\* Mutant: the guard looks up the other half of the entry.
InsertByValue(list, k, v) ==
  IF \E i \in DOMAIN list : list[i][2] = v THEN list ELSE Append(list, <<k, v>>)

\* cfmap_add and cfrev_add, when the lookup that guards them finds nothing.
Insert(list, k, v) ==
  IF \E i \in DOMAIN list : list[i][1] = k THEN list ELSE Append(list, <<k, v>>)

\* What has no name is passed over.
TooLong == << >>
Add(fn, name) ==
  /\ cfmap' = IF side = "save" /\ name # TooLong THEN Insert(cfmap, fn, name) ELSE cfmap
  /\ cfrev' = IF side # "save" /\ name # TooLong THEN Insert(cfrev, name, fn) ELSE cfrev

join_name(prefix, key) ==
  LET name == prefix \o key IN IF Len(name) <= NameSize THEN name ELSE TooLong

\* The name of a table in the registry is cut where its buffer ends.
Prefix(table) ==
  (IF Len(table.head) <= HeadSize THEN table.head ELSE SubSeq(table.head, 1, HeadSize))
  \o table.tail

FieldName(table, f) == join_name(Prefix(table), f.key)
SubName(table, sub) == join_name(Prefix(table), sub.key)

\* A key that is no string is "?".
EntryName(table, sub, e) ==
  IF SubName(table, sub) = TooLong THEN TooLong
  ELSE join_name(SubName(table, sub), IF e.key = Index THEN <<"?">> ELSE e.key)

\* One turn of lua_next on the table: a C function, or the start of a subtable.
VisitField ==
  /\ outer = None
  /\ \E f \in todo :
       /\ todo' = todo \ {f}
       /\ IF "fn" \in DOMAIN f
          THEN Add(f.fn, FieldName(Libs[lib], f)) /\ UNCHANGED outer
          ELSE /\ outer' = IF SubName(Libs[lib], f) = TooLong THEN None ELSE f
               /\ UNCHANGED <<cfmap, cfrev>>
  /\ UNCHANGED <<side, lib>>

\* One turn of lua_next on the subtable.
VisitEntry ==
  /\ outer.entries # {}
  /\ \E e \in outer.entries :
       /\ Add(e.fn, EntryName(Libs[lib], outer, e))
       /\ outer' = [outer EXCEPT !.entries = @ \ {e}]
  /\ UNCHANGED <<side, lib, todo>>

\* Mutant: a subtable is left at its first entry.
EndSubEarly ==
  /\ outer # None
  /\ outer' = None
  /\ UNCHANGED <<side, lib, todo, cfmap, cfrev>>

EndSub ==
  /\ outer # None /\ outer.entries = {}
  /\ outer' = None
  /\ UNCHANGED <<side, lib, todo, cfmap, cfrev>>

\* The next table, or the end of build_cfmap_for_save / _for_load.
NextLib ==
  /\ side # "done" /\ outer = None /\ todo = {}
  /\ IF lib < Len(Libs)
     THEN lib' = lib + 1 /\ todo' = Contents(Libs[lib + 1]) /\ UNCHANGED side
     ELSE /\ side' = IF side = "save" THEN "load" ELSE "done"
          /\ lib' = 1
          /\ todo' = IF side = "save" /\ LoadLibs # << >>
                     THEN Contents(LoadLibs[1]) ELSE {}
  /\ UNCHANGED <<outer, cfmap, cfrev>>

NextNames == VisitField \/ VisitEntry \/ EndSub \/ NextLib

NamesSpec == InitNames /\ [][NextNames]_namesVars
-----------------------------------------------------------------------------
cfrev_lookup(name) ==
  IF \E i \in DOMAIN cfrev : cfrev[i][1] = name
  THEN { cfrev[CHOOSE i \in DOMAIN cfrev : cfrev[i][1] = name][2] } ELSE {}

\* The functions of a table and the names it publishes them under.
Published(table) ==
  { p \in { <<f.fn, FieldName(table, f)>> : f \in table.fields }
        \cup UNION { { <<e.fn, EntryName(table, s, e)>> : e \in s.entries } :
                      s \in table.subs } : p[2] # TooLong }
PublishedIn(libs) == UNION { Published(l) : l \in In(libs) }

\* The loader publishes the name, and for one function only.
Clear(p) == { q \in PublishedIn(LoadLibs) : q[2] = p[2] } = {p}

(* A C function is resolved through the libraries to itself: a name the     *)
(* saver picked leads the loader back to the very function, whatever order  *)
(* the two states visit their tables in, if it is published for no other;   *)
(* and if it is, to one of those.                                           *)
NamesResolve ==
  side = "done" =>
    \A i \in DOMAIN cfmap :
      /\ Clear(cfmap[i]) => cfrev_lookup(cfmap[i][2]) = {cfmap[i][1]}
      /\ \A fn \in cfrev_lookup(cfmap[i][2]) : <<fn, cfmap[i][2]>> \in PublishedIn(LoadLibs)

(* Every C function the libraries publish, in a table or a table of that,   *)
(* under a name short enough, can be saved.                                 *)
AllNamed ==
  side = "done" =>
    \A p \in PublishedIn(SaveLibs) : \E i \in DOMAIN cfmap : cfmap[i][1] = p[1]
=============================================================================
