---------------------------- MODULE TablePromise ----------------------------
(***************************************************************************)
(* What a table is for its program: a set of keys that have a value.  An    *)
(* assignment changes the entry of its own key and no other; nothing else   *)
(* changes any.                                                             *)
(***************************************************************************)
CONSTANTS Keys
VARIABLE entries

Assign(k) == k \notin entries /\ entries' = entries \cup {k}
Remove(k) == k \in entries /\ entries' = entries \ {k}

Init == entries = {}
Next == \E k \in Keys : Assign(k) \/ Remove(k)
Spec == Init /\ [][Next]_entries
=============================================================================
