------------------------------ MODULE MCTables ------------------------------
(* A table with a few keys that collide. *)
EXTENDS LuaTable, TLC

CONSTANTS p, q

MCHash == (p :> 0) @@ (q :> 0)
MCSizes == {<<0, 0>>, <<2, 2>>}
MCArray == {<<16, 0>>}
=============================================================================
