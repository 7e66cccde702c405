------------------------------ MODULE LuaHeap ------------------------------
(***************************************************************************)
(* The object graph of a lua_State, as the snapshot writer sees it.  An    *)
(* object is its kind and the sequence of the places in it that can hold a *)
(* value, in the order process_obj goes over them.  A place has a role:    *)
(*                                                                         *)
(*   array             a slot of a table's array part                      *)
(*   key, nodeval      the key and the value of a hash node; the value of  *)
(*                     a value-cleared key (t[k] = nil) is Absent          *)
(*   deadkey           the key of a node the collector has cleared         *)
(*   meta              a metatable pointer                                 *)
(*   const, inner, name      constants, nested prototypes and names        *)
(*   proto, upref      the prototype and the upvalues of a Lua closure     *)
(*   cfn, cupval       the C function and the values of a C closure        *)
(*   closed, open      the value of an upvalue: its own, or one that still *)
(*                     lives in a thread's stack                           *)
(*   stack, openuv     a stack slot and an open upvalue of a thread        *)
(*   frame             the prototype of a Lua call frame                   *)
(*   kont              the continuation of a C call frame                  *)
(*   uservalue         a user value of a userdata                          *)
(*                                                                         *)
(* Strings, numbers and names are members of small sets: no property here  *)
(* looks inside them.                                                      *)
(***************************************************************************)
EXTENDS Naturals, Sequences, FiniteSets

CONSTANTS
  Obj,        \* garbage-collected objects
  Scalar,     \* nil, booleans and numbers
  CFunction,  \* C functions: light values, closure codes, continuations
  LightPtr,   \* light userdata
  Absent,     \* no value: an empty slot, a NULL pointer
  NameOf,     \* the save-side map of C functions: a name, or Absent
  BuiltinKonts, \* the continuations lstasis_builtin_konts lists
  Heaps       \* the heaps considered

Kinds == {"string", "table", "proto", "lclosure", "cclosure",
          "upval", "thread", "userdata"}

Roles == {"array", "key", "nodeval", "deadkey", "meta", "const", "inner",
          "name", "proto", "upref", "cfn", "cupval", "closed", "open",
          "stack", "openuv", "frame", "kont", "uservalue"}

Value == Obj \cup Scalar \cup CFunction \cup LightPtr

Place == [role : Roles, val : Value \cup {Absent}]

\* persist: the tables with a truthy __persist field; huge: the userdata
\* whose payload does not fit the length field of a record; gcfield: the
\* tables with a __gc field; seq: allocation numbers; next_seq: their counter.
Heap == [kind    : [Obj -> Kinds],
         places  : [Obj -> Seq(Place)],
         persist : SUBSET Obj,
         huge    : SUBSET Obj,
         gcfield : SUBSET Obj,
         seq     : [Obj -> Nat],
         next_seq : Nat,
         roots   : Seq(Obj \cup {Absent})]

\* What the C types of the places that are pointers let them point to.
PointsTo == [meta |-> "table", inner |-> "proto", name |-> "string",
             proto |-> "proto", upref |-> "upval", openuv |-> "upval",
             frame |-> "proto"]
Pointers == DOMAIN PointsTo \cup {"deadkey"}

\* The roots are the registry, the main thread (the second, never missing) and
\* the type metatables; the function of a call frame is in the stack of its
\* thread (ci->func); the list of a thread holds open upvalues only,
\* which hold nothing but their value.
ASSUME HeapAssumption ==
  /\ Heaps \subseteq Heap
  /\ \A h \in Heaps : \A i \in DOMAIN h.roots :
       h.roots[i] # Absent =>
         h.kind[h.roots[i]] = IF i = 2 THEN "thread" ELSE "table"
  /\ \A h \in Heaps : 2 \in DOMAIN h.roots /\ h.roots[2] # Absent
  /\ \A h \in Heaps : \A o \in Obj : \A i \in DOMAIN h.places[o] :
       h.places[o][i].role \in Pointers =>
         h.places[o][i].val \in Obj \cup {Absent}
  /\ \A h \in Heaps : \A o \in Obj : \A i \in DOMAIN h.places[o] :
       LET p == h.places[o][i] IN
         p.role \in DOMAIN PointsTo /\ p.val # Absent =>
           h.kind[p.val] = PointsTo[p.role]
  /\ \A h \in Heaps : \A o, q \in Obj :
       /\ h.seq[o] < h.next_seq
       /\ h.seq[o] = h.seq[q] => o = q
  /\ \A h \in Heaps : \A o \in Obj : \A i \in DOMAIN h.places[o] :
       LET p == h.places[o][i] IN
         p.role = "frame" /\ p.val # Absent =>
           \E q \in Obj : \E j \in DOMAIN h.places[o], k \in DOMAIN h.places[q] :
             /\ h.places[o][j] = [role |-> "stack", val |-> q]
             /\ h.places[q][k] = [role |-> "proto", val |-> p.val]
  /\ \A h \in Heaps : \A o \in Obj : \A p \in { h.places[o][i] :
                                             i \in DOMAIN h.places[o] } :
       p.role = "openuv" /\ p.val # Absent =>
         \E j \in DOMAIN h.places[p.val] : h.places[p.val][j].role = "open"
  /\ \A h \in Heaps : \A o \in Obj : \A i \in DOMAIN h.places[o] :
       h.places[o][i].role = "open" => DOMAIN h.places[o] = {i}
  /\ Absent \notin Value
  /\ Obj \cap (Scalar \cup CFunction \cup LightPtr) = {}
  /\ LightPtr \cap (Scalar \cup CFunction) = {}
  /\ DOMAIN NameOf = CFunction
  /\ BuiltinKonts \subseteq CFunction

Places(h, o) == { h.places[o][i] : i \in DOMAIN h.places[o] }

\* ud_metatable_persists
Persists(h, o) ==
  \E p \in Places(h, o) : p.role = "meta" /\ p.val \in h.persist

is_serializable(h, o) == h.kind[o] = "userdata" => Persists(h, o)

\* Mutant: metatables are not followed.
VisitsButMeta(p) ==
  p.val # Absent /\ p.role \notin {"deadkey", "open", "frame", "meta"}

\* The places process_obj looks into.  A node key the collector has cleared,
\* the stack slot behind an open upvalue and the code of a call frame are
\* left to the other references to the same object.
Visits(p) == p.val # Absent /\ p.role \notin {"deadkey", "open", "frame"}

\* What an object leads to on the way of the snapshot writer.
Refs(h, o) == { p.val : p \in { q \in Places(h, o) : Visits(q) } } \cap Obj

\* What the collector marks from an object: an upvalue keeps its value, open
\* or closed (reallymarkobject), and a key is kept only with its value
\* (traversestrongtable clears the keys of empty nodes).
Marks(h, o) ==
  { h.places[o][i].val : i \in { j \in DOMAIN h.places[o] :
      LET p == h.places[o][j] IN
        /\ p.role \notin {"deadkey", "frame"}
        /\ p.role = "key" => h.places[o][j + 1].val # Absent } } \cap Obj

\* The places whose value is written with its tag (write_tv); the others
\* hold a pointer of known type, a C function or a continuation.
Tagged == {"array", "key", "nodeval", "const", "cupval", "closed", "stack"}

\* A place whose value has no form in a snapshot.
Unsaveable(h, p) ==
  \/ p.role = "uservalue"
  \/ p.role = "kont" /\ p.val \notin BuiltinKonts \cup {Absent}
  \/ /\ p.role \in Tagged \cup {"cfn"}
     /\ p.val \in CFunction
     /\ NameOf[p.val] = Absent
  \/ /\ Visits(p)
     /\ \/ p.val \in LightPtr
        \/ p.val \in Obj /\ ~is_serializable(h, p.val)

Offends(h, o) == o \in h.huge \/ \E p \in Places(h, o) : Unsaveable(h, p)

Roots(h) == { h.roots[i] : i \in DOMAIN h.roots } \ {Absent}

\* Nothing in S leads out of it on the way of the snapshot writer.
Closed(h, S) == Roots(h) \subseteq S /\ \A q \in S : Refs(h, q) \subseteq S

\* The thread an open upvalue points into, which holds the value in its stack,
\* is met by every walk from the roots that meets the upvalue.  A coroutine
\* that nothing refers to may leave an open upvalue without one.
OwnersAreMet ==
  \A h \in Heaps : \A o \in Obj : \A p \in Places(h, o) : p.role = "open" =>
    \E t \in Obj :
      /\ h.kind[t] = "thread"
      /\ { [role |-> "openuv", val |-> o], [role |-> "stack", val |-> p.val] }
           \subseteq Places(h, t)
      /\ \A S \in SUBSET Obj : Closed(h, S) /\ o \in S => t \in S
=============================================================================
