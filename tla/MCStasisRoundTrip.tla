-------------------------- MODULE MCStasisRoundTrip --------------------------
(***************************************************************************)
(* Heaps for a save followed by a load: table graphs, one of each kind of   *)
(* object, and objects with finalizers behind metatables of every age.  The *)
(* loading program's libraries do not have table.sort.                      *)
(***************************************************************************)
EXTENDS StasisRoundTrip, MCStasisSave

MCFnOf == [n \in {"_G.print", "table.sort"} |->
             IF n = "_G.print" THEN print ELSE absent]

\* Tables a, b, c with metatables x, y, z; d and reg have a __gc field.
FinalizerHeap(x, y, z, f) ==
  [kind    |-> Tables @@ << >>,
   places  |-> (reg :> <<P("array", a), P("array", f)>>)
               @@ (main :> <<P("stack", c)>>)
               @@ (a :> <<P("array", b), P("meta", x)>>)
               @@ (b :> <<P("key", c), P("nodeval", d), P("meta", y)>>)
               @@ (c :> <<P("meta", z)>>)
               @@ (d :> << >>) @@ (e :> <<P("array", d)>>),
   persist |-> {}, huge |-> {}, gcfield |-> {d, reg}, seq |-> Seqs,
   next_seq |-> 9,
   roots |-> <<reg, main, absent, e>>]

FinalizerHeaps == { FinalizerHeap(x, y, z, f) : x \in {absent, d, e},
                      y \in {d, reg}, z \in {absent, e, reg},
                      f \in {print, sort, num} }

\* The loader's view of the other two families: closures of table.sort too.
SortHeaps ==
  { FeatureHeap(sort, w, k, {reg}, ups, {}, << >>) :
      w \in {num, e}, k \in {absent, sort}, ups \in {"open", "closed"} }

\* Named apart from RoundTripHeaps: TLC evaluates a substituted definition anew
\* at every use, and one it refers to only once.
AllHeaps == FinalizerHeaps \cup GraphHeaps \cup FeatureHeaps \cup SortHeaps
RoundTripHeaps == AllHeaps

\* None of these heaps has an open upvalue that outlived its thread.
ASSUME Anchored == OwnersAreMet
\* The two libraries give one name to one function.
ASSUME Named == LibrariesAgree
=============================================================================
