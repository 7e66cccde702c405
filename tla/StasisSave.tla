----------------------------- MODULE StasisSave -----------------------------
(***************************************************************************)
(* lstasis_save: discovery of every object to be saved, each given an id in *)
(* the order it is first met, then one record per object in id order and    *)
(* the ids of the roots.  The first error is kept; an error met during      *)
(* discovery stops the save before the first byte.                          *)
(***************************************************************************)
EXTENDS LuaHeap

VARIABLES
  heap,      \* the state being saved; no Lua code runs during a save
  pc,        \* where lstasis_save is
  id,        \* map: object -> id, 0 when the object is not known
  next_id,
  ordered,   \* the objects in id order
  queue,     \* discovered and not yet processed
  rootpos,   \* next root to discover
  cur, pos,  \* the object process_obj is at, and its next place
  error,     \* the latched reason, or "none"
  stream,    \* the records written
  footer     \* the ids of the roots

vars == <<heap, pc, id, next_id, ordered, queue, rootpos, cur, pos, error,
          stream, footer>>
discovery == <<id, next_id, ordered, queue>>
output == <<stream, footer>>

PCs == {"roots", "pop", "places", "write", "footer", "done", "failed"}
Reasons == {"light userdata", "userdata", "C function", "continuation",
            "user values", "payload"}

\* ser_fail: the first failure wins.
Latched(reason) == IF error = "none" THEN reason ELSE error

Init ==
  /\ heap \in Heaps
  /\ pc = "roots"
  /\ id = [o \in Obj |-> 0]
  /\ next_id = 1
  /\ ordered = << >>
  /\ queue = << >>
  /\ rootpos = 1
  /\ cur = Absent
  /\ pos = 1
  /\ error = "none"
  /\ stream = << >>
  /\ footer = << >>

\* discover_obj and discover_tv, one action for each outcome.
Accept(o) ==
  /\ o \in Obj
  /\ id[o] = 0
  /\ is_serializable(heap, o)
  /\ id' = [id EXCEPT ![o] = next_id]
  /\ next_id' = next_id + 1
  /\ ordered' = Append(ordered, o)
  /\ queue' = Append(queue, o)
  /\ UNCHANGED error

Reject(v) ==
  /\ \/ /\ v \in Obj
        /\ id[v] = 0
        /\ ~is_serializable(heap, v)
        /\ error' = Latched("userdata")
     \/ /\ v \in LightPtr
        /\ error' = Latched("light userdata")
  /\ UNCHANGED discovery

Pass(v) ==
  /\ IF v \in Obj THEN id[v] # 0 ELSE v \notin LightPtr
  /\ UNCHANGED <<discovery, error>>

discover_tv(v) == Accept(v) \/ Reject(v) \/ Pass(v)

\* discover_all: the registry, the main thread and the type metatables.
DiscoverRoot ==
  /\ pc = "roots"
  /\ rootpos <= Len(heap.roots)
  /\ discover_tv(heap.roots[rootpos])
  /\ rootpos' = rootpos + 1
  /\ UNCHANGED <<heap, pc, cur, pos, output>>

EndRoots ==
  /\ pc = "roots"
  /\ rootpos > Len(heap.roots)
  /\ pc' = "pop"
  /\ UNCHANGED <<heap, discovery, rootpos, cur, pos, error, output>>

\* discover_all's loop: oq_pop and process_obj.
PopObj ==
  /\ pc = "pop"
  /\ queue # << >>
  /\ cur' = Head(queue)
  /\ queue' = Tail(queue)
  /\ pos' = 1
  /\ pc' = "places"
  /\ UNCHANGED <<heap, id, next_id, ordered, rootpos, error, output>>

\* Mutant: the key of a cleared node is followed like any other.
DiscoverAnyPlace ==
  /\ pc = "places"
  /\ pos <= Len(heap.places[cur])
  /\ discover_tv(heap.places[cur][pos].val)
  /\ pos' = pos + 1
  /\ UNCHANGED <<heap, pc, rootpos, cur, output>>

DiscoverPlace ==
  /\ pc = "places"
  /\ pos <= Len(heap.places[cur])
  /\ LET p == heap.places[cur][pos] IN
       IF Visits(p) THEN discover_tv(p.val) ELSE UNCHANGED <<discovery, error>>
  /\ pos' = pos + 1
  /\ UNCHANGED <<heap, pc, rootpos, cur, output>>

\* Mutant: the last place of an object is skipped.
EndObjEarly ==
  /\ pc = "places"
  /\ pos >= Len(heap.places[cur])
  /\ pc' = "pop"
  /\ cur' = Absent
  /\ UNCHANGED <<heap, discovery, rootpos, pos, error, output>>

EndObj ==
  /\ pc = "places"
  /\ pos > Len(heap.places[cur])
  /\ pc' = "pop"
  /\ cur' = Absent
  /\ UNCHANGED <<heap, discovery, rootpos, pos, error, output>>

\* lstasis_save between discovery and the write pass.
EndDiscovery ==
  /\ pc = "pop"
  /\ queue = << >>
  /\ pc' = IF error = "none" THEN "write" ELSE "failed"
  /\ UNCHANGED <<heap, discovery, rootpos, cur, pos, error, output>>

ser_get_id(o) == IF o = Absent THEN 0 ELSE id[o]

\* write_tv, and the ids the wobj_* functions write for pointers.
Wire(v) == IF v \in Obj \cup {Absent} THEN <<"id", ser_get_id(v)>>
           ELSE IF v \in CFunction THEN <<"cfn", NameOf[v]>>
           ELSE <<"scalar", v>>

\* The tag write_tv puts before the id of an object: its type.
TagOf(p) == IF p.role \in Tagged /\ p.val \in Obj THEN heap.kind[p.val] ELSE "none"

\* Mutant: a thread does not write its open upvalues.
WireBarePlace(p) == [role |-> p.role, tag |-> TagOf(p),
                     val  |-> CASE p.role \in {"open", "openuv"} -> <<"id", 0>>
                                [] p.role = "kont" /\ p.val # Absent
                                     -> <<"kont", p.val>>
                                [] OTHER -> Wire(p.val)]

\* The open upvalue's record is empty: its thread writes the stack offset.
\* A continuation is written by its name in lstasis_builtin_konts.
WirePlace(p) == [role |-> p.role, tag |-> TagOf(p),
                 val  |-> CASE p.role = "open" -> <<"id", 0>>
                            [] p.role = "kont" /\ p.val # Absent
                                 -> <<"kont", p.val>>
                            [] OTHER -> Wire(p.val)]

\* Why a place cannot be written, or "none".
PlaceFault(p) ==
  CASE p.role = "kont" /\ p.val \notin BuiltinKonts \cup {Absent}
         -> "continuation"
    [] p.role = "uservalue" -> "user values"
    [] /\ p.role \in Tagged \cup {"cfn"}
       /\ p.val \in CFunction /\ NameOf[p.val] = Absent -> "C function"
    [] p.role \in Tagged /\ p.val \in LightPtr -> "light userdata"
    [] /\ p.role \in Tagged
       /\ p.val \in Obj /\ heap.kind[p.val] = "userdata" /\ id[p.val] = 0
         -> "userdata"
    [] OTHER -> "none"

\* Mutant: the length of a payload is not checked.
WriteFaultsAnyLength(o) ==
  LET ps == heap.places[o]
      bad == { i \in DOMAIN ps : PlaceFault(ps[i]) # "none" } IN
    IF bad = {} THEN {"none"}
    ELSE { PlaceFault(ps[i]) : i \in { j \in bad : \A k \in bad : j <= k } }

\* The errors the record of an object raises; ser_fail keeps the first.
WriteFaults(o) ==
  LET ps == heap.places[o]
      bad == { i \in DOMAIN ps : PlaceFault(ps[i]) # "none" } IN
    IF bad # {}
    THEN { PlaceFault(ps[i]) : i \in { j \in bad : \A k \in bad : j <= k } }
    ELSE IF o \in heap.huge THEN {"payload"} ELSE {"none"}

\* Type code, and the record with the references replaced by ids.
Record(o) ==
  [kind   |-> heap.kind[o],
   gc     |-> o \in heap.gcfield,
   places |-> [i \in DOMAIN heap.places[o] |-> WirePlace(heap.places[o][i])]]

\* write_obj for the next object; the loop leaves at the first error.
WriteObj ==
  /\ pc = "write"
  /\ error = "none"
  /\ Len(stream) < Len(ordered)
  /\ LET o == ordered[Len(stream) + 1] IN
       /\ stream' = Append(stream, Record(o))
       /\ \E reason \in WriteFaults(o) :
            error' = IF reason = "none" THEN error ELSE Latched(reason)
  /\ UNCHANGED <<heap, pc, discovery, rootpos, cur, pos, footer>>

WriteRoots ==
  /\ pc = "write"
  /\ error # "none" \/ Len(stream) = Len(ordered)
  /\ footer' = [i \in DOMAIN heap.roots |-> ser_get_id(heap.roots[i])]
  /\ pc' = "footer"
  /\ UNCHANGED <<heap, discovery, rootpos, cur, pos, error, stream>>

\* The buffer is handed out, or freed with the reason left in errbuf.
Return ==
  /\ pc = "footer"
  /\ IF error = "none"
     THEN pc' = "done" /\ UNCHANGED output
     ELSE pc' = "failed" /\ stream' = << >> /\ footer' = << >>
  /\ UNCHANGED <<heap, discovery, rootpos, cur, pos, error>>

Next == \/ DiscoverRoot \/ EndRoots
        \/ PopObj \/ DiscoverPlace \/ EndObj \/ EndDiscovery
        \/ WriteObj \/ WriteRoots \/ Return

Spec == Init /\ [][Next]_vars /\ WF_vars(Next)
-----------------------------------------------------------------------------
WireValue == ({"id"} \X Nat) \cup ({"scalar"} \X (Scalar \cup LightPtr))
             \cup ({"cfn"} \X { NameOf[f] : f \in CFunction })
             \cup ({"kont"} \X Value)

StreamRecord == [kind : Kinds, gc : BOOLEAN,
                 places : Seq([role : Roles, tag : Kinds \cup {"none"},
                               val : WireValue])]

(* Every variable has the type of the C object it stands for, and the       *)
(* object being processed is one whenever the place loop runs.              *)
TypeOK ==
  /\ heap \in Heaps
  /\ pc \in PCs
  /\ id \in [Obj -> Nat]
  /\ next_id \in Nat \ {0}
  /\ ordered \in Seq(Obj)
  /\ queue \in Seq(Obj)
  /\ rootpos \in Nat \ {0}
  /\ cur \in Obj \cup {Absent}
  /\ pos \in Nat \ {0}
  /\ error \in Reasons \cup {"none"}
  /\ pc = "places" => cur \in Obj
  /\ stream \in Seq(StreamRecord)
  /\ footer \in Seq(Nat)

Known == { o \in Obj : id[o] # 0 }

(* Ids are dense and in discovery order, and the pointer map and the        *)
(* ordered array are inverse of each other: the position of a record in the *)
(* stream is the only id the loader has for it.                             *)
IdsAreStreamPositions ==
  /\ next_id = Len(ordered) + 1
  /\ \A i \in DOMAIN ordered : id[ordered[i]] = i
  /\ \A o \in Known : id[o] \in DOMAIN ordered /\ ordered[id[o]] = o

(* The work-list is what is discovered and not processed: no object is      *)
(* queued twice, none is left out, and they are taken in id order.          *)
QueueIsUnprocessed ==
  /\ Len(queue) <= Len(ordered)
  /\ \A i \in DOMAIN queue :
       queue[i] = ordered[Len(ordered) - Len(queue) + i]
  /\ pc = "places" => /\ Len(queue) < Len(ordered)
                      /\ cur = ordered[Len(ordered) - Len(queue)]

Processed == { o \in Known : id[o] <= Len(ordered) - Len(queue) }

(* Everything behind the cursor has been followed: what a processed object  *)
(* refers to is known, or it is not serializable and the save is doomed.    *)
Resolved(v) ==
  \/ v \in Obj /\ id[v] # 0
  \/ v \in Obj /\ ~is_serializable(heap, v) /\ error # "none"
  \/ v \in LightPtr /\ error # "none"
  \/ v \notin Obj \cup LightPtr

FollowedBehindCursor ==
  /\ \A i \in 1..(rootpos - 1) : i \in DOMAIN heap.roots =>
       Resolved(heap.roots[i])
  /\ \A o \in Processed : \A i \in DOMAIN heap.places[o] :
       (Visits(heap.places[o][i]) /\ (o = cur => i < pos))
         => Resolved(heap.places[o][i].val)

(* Nothing is saved that no root leads to: every object but a root is       *)
(* referred to by one with a smaller id.                                    *)
EarlierReferrer ==
  \A o \in Known : \/ o \in Roots(heap)
                   \/ \E q \in Known : id[q] < id[o] /\ o \in Refs(heap, q)

\* What is true of the control of lstasis_save besides the named invariants.
Phases ==
  /\ pc # "roots" => rootpos > Len(heap.roots)
  /\ pc \in {"write", "footer", "done"} => queue = << >>
  /\ pc # "places" => cur = Absent
  /\ pc \in {"roots", "pop", "places"} => stream = << >>
  /\ pc \in {"footer", "done"} /\ error = "none" => Len(stream) = Len(ordered)
  /\ pc = "done" => error = "none"
  /\ pc = "failed" => error # "none"

KnownAreSerializable == \A o \in Obj : id[o] # 0 => is_serializable(heap, o)

WrittenWithoutFault ==
  /\ Len(stream) \in Nat
  /\ error = "none" => \A k \in 1..Len(stream) : k <= Len(ordered) =>
       /\ ordered[k] \notin heap.huge
       /\ \A i \in DOMAIN heap.places[ordered[k]] :
            PlaceFault(heap.places[ordered[k]][i]) = "none"

(* No save is refused without an object of its own that asks for it.        *)
ErrorHasCause ==
  error # "none" => \E o \in Obj : id[o] # 0 /\ Offends(heap, o)

(* The discipline of lstasis_save, which its theorems rest on: dense ids,    *)
(* the queue in step with them, everything behind the cursor followed, each  *)
(* object led to by an earlier one, records written without a fault and      *)
(* every error with its cause.  No part of it is inductive alone.            *)
SaveInv ==
  /\ TypeOK /\ Phases
  /\ IdsAreStreamPositions /\ QueueIsUnprocessed
  /\ KnownAreSerializable /\ FollowedBehindCursor /\ EarlierReferrer
  /\ ErrorHasCause /\ WrittenWithoutFault

(* A snapshot handed out holds everything the collector would keep alive:   *)
(* the roots, and whatever a saved object makes the collector mark.         *)
SnapshotHoldsAllLive ==
  pc = "done" => /\ Roots(heap) \subseteq Known
                 /\ \A o \in Known : Marks(heap, o) \subseteq Known

(* Discovery and the write pass agree on reachability: a record that names  *)
(* no object stands for an absent pointer, a key the collector cleared, or  *)
(* an open upvalue, never for an object discovery missed.                   *)
NoStrandedReference ==
  \A k \in DOMAIN stream : \A i \in DOMAIN stream[k].places :
    LET p == heap.places[ordered[k]][i] IN
      stream[k].places[i].val = <<"id", 0>> =>
        \/ p.val = Absent \/ p.role \in {"deadkey", "open"}
        \/ error # "none"

(* The outcome is the heap's, not the order's: a save succeeds exactly when *)
(* no reachable object holds anything without a form in a snapshot.         *)
OutcomeMatchesHeap ==
  /\ pc = "done" => \A o \in Known : ~Offends(heap, o)
  /\ error # "none" => \E o \in Known : Offends(heap, o)

(* The reason reported is the first one, whatever fails after it.           *)
FirstErrorKept == [][error # "none" => error' = error]_vars

Promise == INSTANCE SnapshotPromise WITH
             found  <- Known,
             result <- IF pc \in {"done", "failed"} THEN pc ELSE "pending"
ImplementsPromise == Promise!Spec
=============================================================================
