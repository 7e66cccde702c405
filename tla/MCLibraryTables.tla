----------------------------- MODULE MCLibraryTables ----------------------------
(***************************************************************************)
(* The calls of MCLibrary, and the behaviors of the table of MCTables: one  *)
(* or the other, which do not meet.                                         *)
(***************************************************************************)
EXTENDS MCLibrary, MCTables

VARIABLE stores    \* whether the behavior is one of the table

NoCall ==
  /\ sorts = FALSE /\ call = [fn |-> "none"] /\ result = <<>>
  /\ array = <<>> /\ fair = TRUE /\ a = <<>> /\ s = Idle
InitBoth ==
  /\ Init
  /\ \/ stores = FALSE /\ t.arr = <<>> /\ InitLibrary
     \/ stores = TRUE /\ NoCall
NextBoth ==
  /\ UNCHANGED stores
  /\ \/ stores = FALSE /\ NextLibrary /\ UNCHANGED vars
     \/ stores = TRUE /\ Next /\ UNCHANGED <<sorts, callVars, sortVars>>
BothSpec ==
  InitBoth /\ [][NextBoth]_<<stores, sorts, callVars, sortVars, vars>> /\ WF_sortVars(SortStep)
=============================================================================
