-------------------------------- MODULE Lists --------------------------------
(***************************************************************************)
(* Lists the collector and the coroutines thread through their objects, as  *)
(* sequences.  Filtering one is a recursive function, which can be reasoned *)
(* about by induction.                                                      *)
(***************************************************************************)
EXTENDS Naturals, Sequences

In(s) == { s[i] : i \in DOMAIN s }

\* What remains of a list when the members outside S are unlinked.
Keep(s, S) ==
  LET kept[n \in 0..Len(s)] ==
        IF n = 0 THEN << >>
        ELSE IF s[n] \in S THEN Append(kept[n - 1], s[n]) ELSE kept[n - 1]
  IN  kept[Len(s)]
=============================================================================
