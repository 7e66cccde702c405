---------------------------- MODULE MCStasisSave ----------------------------
(***************************************************************************)
(* Heaps for model-checking StasisSave.  GraphHeaps varies the edges among  *)
(* tables (cycles, sharing, value-cleared and GC-cleared keys, metatables); *)
(* FeatureHeaps puts one of each kind of object in a heap and varies what a *)
(* save may refuse; OrphanHeap is a closure whose open upvalue lives in the *)
(* stack of a coroutine nothing refers to.                                  *)
(***************************************************************************)
EXTENDS StasisSave, TLC

CONSTANTS reg, main, a, b, c, d, e,     \* objects
          num, print, sort, hidden, ptr, absent

MCObj == {reg, main, a, b, c, d, e}
MCScalar == {num}
MCCFunction == {print, sort, hidden}
MCLightPtr == {ptr}
MCNameOf == [f \in MCCFunction |-> IF f = hidden THEN absent
                                   ELSE IF f = print THEN "_G.print" ELSE "table.sort"]
MCBuiltinKonts == {sort}

P(role, val) == [role |-> role, val |-> val]
Const(o, s) == [x \in o |-> s]
Seqs == reg :> 3 @@ main :> 0 @@ a :> 7 @@ b :> 5 @@ c :> 6 @@ d :> 8 @@ e :> 4

Tables == Const({reg, b, c, d, e}, "table") @@ Const({main}, "thread")
          @@ Const({a}, "table")

GraphHeap(x, y, z, u, v) ==
  [kind    |-> Tables,
   places  |-> (reg :> <<P("array", x), P("key", num), P("nodeval", b)>>)
               @@ (main :> <<P("stack", reg), P("stack", num)>>)
               @@ (a :> <<P("key", y), P("nodeval", z), P("meta", u)>>)
               @@ (b :> <<P("deadkey", v), P("nodeval", absent),
                          P("array", z)>>)
               @@ (c :> <<P("array", y), P("key", v), P("nodeval", absent)>>)
               @@ (d :> <<P("array", a)>>)
               @@ (e :> << >>),
   persist |-> {}, huge |-> {}, gcfield |-> {d}, seq |-> Seqs, next_seq |-> 9,
   roots |-> <<reg, main, absent, x>>]

GraphHeaps == { GraphHeap(x, y, z, u, v) : x \in {a, absent},
                y \in {a, c, num}, z \in {b, c, d, absent},
                u \in {absent, a, d}, v \in {a, c, e} }

\* a: Lua closure, b: its prototype, c: upvalue, d: coroutine, e: userdata.
FeatureHeap(f, w, k, pers, ups, big, uv) ==
  [kind    |-> Const({reg}, "table") @@ Const({main, d}, "thread")
               @@ Const({a}, "lclosure") @@ Const({b}, "proto")
               @@ Const({c}, "upval") @@ Const({e}, "userdata"),
   places  |-> (reg :> <<P("array", d), P("array", f), P("key", a),
                         P("nodeval", w)>>)
               @@ (main :> <<P("stack", w),
                          P("stack", IF f = num THEN e ELSE num)>>)
               @@ (a :> <<P("proto", b), P("upref", c)>>)
               @@ (b :> <<P("const", num), P("inner", b), P("name", absent)>>)
               @@ (c :> <<P(ups, f)>>)
               @@ (d :> <<P("stack", a), P("stack", f), P("openuv",
                          IF ups = "open" THEN c ELSE absent),
                          P("frame", b), P("kont", k)>>)
               @@ (e :> <<P("meta", reg)>> \o uv),
   persist |-> pers, huge |-> big, gcfield |-> {reg}, seq |-> Seqs, next_seq |-> 9,
   roots |-> <<reg, main, absent, absent>>]

FeatureHeaps ==
  { FeatureHeap(f, w, k, pers, ups, big, uv) :
      f \in {print, hidden, num}, w \in {num, e, ptr},
      k \in {absent, sort, print}, pers \in {{}, {reg}},
      ups \in {"open", "closed"}, big \in {{}, {e}},
      uv \in {<< >>, <<P("uservalue", num)>>} }

\* b: a C closure counting in its upvalue, c: an open upvalue of coroutine d.
OrphanHeap ==
  [kind    |-> Const({reg, e}, "table") @@ Const({main, d}, "thread")
               @@ Const({a}, "lclosure") @@ Const({b}, "proto")
               @@ Const({c}, "upval"),
   places  |-> (reg :> <<P("array", a)>>) @@ (main :> << >>)
               @@ (a :> <<P("proto", b), P("upref", c)>>) @@ (b :> << >>)
               @@ (c :> <<P("open", e)>>)
               @@ (d :> <<P("stack", e), P("openuv", c)>>) @@ (e :> << >>),
   persist |-> {}, huge |-> {}, gcfield |-> {}, seq |-> Seqs, next_seq |-> 9,
   roots |-> <<reg, main, absent, absent>>]

OrphanHeaps == {OrphanHeap}
=============================================================================
