-------------------------- MODULE SnapshotPromise --------------------------
(***************************************************************************)
(* What lstasis_save promises, without ids, queue or records: it gathers   *)
(* objects reachable from the roots, one at a time and in any order, and   *)
(* either delivers them when nothing reachable is left out and nothing in  *)
(* them lacks a form in a snapshot, or fails because something does.       *)
(***************************************************************************)
EXTENDS LuaHeap

VARIABLES heap, found, result

svars == <<heap, found, result>>

Init == heap \in Heaps /\ found = {} /\ result = "pending"

Gather ==
  /\ result = "pending"
  /\ \E o \in Obj \ found :
       /\ is_serializable(heap, o)
       /\ o \in Roots(heap) \/ \E q \in found : o \in Refs(heap, q)
       /\ found' = found \cup {o}
  /\ UNCHANGED <<heap, result>>

Deliver ==
  /\ result = "pending"
  /\ Roots(heap) \subseteq found
  /\ \A o \in found : Refs(heap, o) \subseteq found /\ ~Offends(heap, o)
  /\ result' = "done"
  /\ UNCHANGED <<heap, found>>

Fail ==
  /\ result = "pending"
  /\ \E o \in found : Offends(heap, o)
  /\ result' = "failed"
  /\ UNCHANGED <<heap, found>>

Next == Gather \/ Deliver \/ Fail

Safety == Init /\ [][Next]_svars

Spec == Safety /\ WF_svars(Next)
=============================================================================
