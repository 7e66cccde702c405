---- MODULE MCLuaCollector ----
(* The collector with a few objects: each choice of their kinds is a system. *)
EXTENDS LuaCollector, TLC

CONSTANTS m, a, b, c

MCPairs == { (m :> "thread") @@ (a :> ks[1]) @@ (b :> ks[2]) :
               ks \in {<<"closure", "userdata">>, <<"thread", "upval">>, <<"closure", "upval">>,
                       <<"weakvalue", "string">>, <<"ephemeron", "ephemeron">>,
                       <<"allweak", "closure">>, <<"bareudata", "table">>} }
MCMetatable == { (m :> "thread") @@ (a :> "bareudata") @@ (b :> "table")
                   @@ (c :> "upval") }
MCUpval == { (m :> "thread") @@ (a :> "thread") @@ (b :> "upval")
               @@ (c :> "string") }
MCJoin == { (m :> "thread") @@ (a :> "thread") @@ (b :> "upval")
              @@ (c :> "closure") }
====
