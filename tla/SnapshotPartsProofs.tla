------------------------- MODULE SnapshotPartsProofs -------------------------
(***************************************************************************)
(* Proofs about two parts of a snapshot that are apart from its graph of    *)
(* objects. The names of C functions: for every sequence of libraries, in   *)
(* every order lua_next visits them. The finalizers: for the program that   *)
(* is saved and loaded where a snapshot carries its state over (PlainSpec). *)
(***************************************************************************)
EXTENDS CFuncNames, FinalizerSnapshot, ListLemmas, FiniteSetTheorems

(***************************************************************************)
(* The names of C functions                                                *)
(***************************************************************************)

\* What the loader's list may hold.
Reverse(pairs) == { <<p[2], p[1]>> : p \in pairs }

\* A pair's function is known to the side that enumerates, or its name.
HasFn(p) == \E e \in In(cfmap) : e[1] = p[1]
HasName(p) == \E e \in In(cfrev) : e[1] = p[2]
Has(p) == IF side = "save" THEN HasFn(p) ELSE HasName(p)
\* Or it was passed over, as its name is too long.
Named(p) == p[2] = TooLong \/ Has(p)

\* Of the subtable being enumerated some entries may be gone.
PartOf(rest, s) == rest.key = s.key /\ rest.entries \subseteq s.entries

Place ==
  /\ side \in {"save", "load", "done"} /\ lib \in Nat \ {0}
  /\ \/ /\ side # "done" /\ lib \in DOMAIN Libs
        /\ todo \subseteq Contents(Libs[lib])
        /\ outer = None \/ \E s \in Libs[lib].subs : PartOf(outer, s)
     \/ todo = {} /\ outer = None

MapTypes ==
  /\ cfmap \in Seq(PublishedIn(SaveLibs))
  /\ cfrev \in Seq(Reverse(PublishedIn(LoadLibs)))

\* Whole tables that have been enumerated.
Behind ==
  /\ \A k \in DOMAIN SaveLibs :
       side # "save" \/ k < lib => \A p \in Published(SaveLibs[k]) : HasFn(p)
  /\ \A k \in DOMAIN LoadLibs :
       side = "done" \/ (side = "load" /\ k < lib) =>
         \A p \in Published(LoadLibs[k]) : HasName(p)

\* And the one that is being enumerated.
Current ==
  side # "done" /\ lib \in DOMAIN Libs =>
    /\ \A f \in Libs[lib].fields :
         f \in todo \/ Named(<<f.fn, FieldName(Libs[lib], f)>>)
    /\ \A s \in Libs[lib].subs : \A e \in s.entries :
         \/ s \in todo
         \/ outer.key = s.key /\ e \in outer.entries
         \/ Named(<<e.fn, EntryName(Libs[lib], s, e)>>)

NamesInv == Place /\ MapTypes /\ Behind /\ Current
-----------------------------------------------------------------------------
(* cfmap_add and cfrev_add: the list keeps what it holds, gets nothing but  *)
(* the new pair, and has the key afterwards.                                *)
LEMMA InsertFacts ==
  ASSUME NEW P, NEW list \in Seq(P), NEW k, NEW v, <<k, v>> \in P
  PROVE  /\ Insert(list, k, v) \in Seq(P)
         /\ In(list) \subseteq In(Insert(list, k, v))
         /\ \E e \in In(Insert(list, k, v)) : e[1] = k
<1>1. CASE \E i \in DOMAIN list : list[i][1] = k
  BY <1>1 DEF Insert, In
<1>2. CASE ~\E i \in DOMAIN list : list[i][1] = k
  <2>1. Insert(list, k, v) = Append(list, <<k, v>>)
    BY <1>2 DEF Insert
  <2>2. In(Append(list, <<k, v>>)) = In(list) \cup {<<k, v>>}
    BY InAppend
  <2>3. Append(list, <<k, v>>) \in Seq(P)
    OBVIOUS
  <2>4. <<k, v>>[1] = k
    OBVIOUS
  <2> QED BY <2>1, <2>2, <2>3, <2>4
<1> QED BY <1>1, <1>2

\* What the assumption says of one table.
LEMMA TableFacts ==
  ASSUME NEW libs \in Seq(Library), NEW l \in DOMAIN libs
  PROVE  /\ \A f \in libs[l].fields :
              /\ "fn" \in DOMAIN f
              /\ FieldName(libs[l], f) # TooLong =>
                   <<f.fn, FieldName(libs[l], f)>> \in Published(libs[l])
         /\ \A s \in libs[l].subs : /\ "fn" \notin DOMAIN s /\ s.key # None.key
                                    /\ s # None
         /\ Published(libs[l]) \subseteq PublishedIn(libs)
<1>1. libs[l] \in Library
  OBVIOUS
<1>2. libs[l].fields \subseteq Field /\ libs[l].subs \subseteq Sub
  BY <1>1 DEF Library
<1>3. \A f \in Field : "fn" \in DOMAIN f
  BY DEF Field
<1>4. \A s \in Sub : "fn" \notin DOMAIN s /\ s.key \in Key
  BY DEF Sub
<1>5. None.key \notin Key
  BY DEF None, Key
<1>6. \A f \in libs[l].fields : FieldName(libs[l], f) # TooLong =>
        <<f.fn, FieldName(libs[l], f)>> \in Published(libs[l])
  BY DEF Published
<1>7. Published(libs[l]) \subseteq PublishedIn(libs)
  BY DEF PublishedIn, In
<1> QED BY <1>2, <1>3, <1>4, <1>5, <1>6, <1>7
\* Neither side forgets.
Keeps == \A p : (HasFn(p) => HasFn(p)') /\ (HasName(p) => HasName(p)')

(* A visit adds its pair to the map of the side it is made on.              *)
LEMMA AddFacts ==
  ASSUME MapTypes, NEW fn, NEW name, side \in {"save", "load"},
         name # TooLong => <<fn, name>> \in PublishedIn(Libs),
         Add(fn, name), side' = side
  PROVE  MapTypes' /\ Named(<<fn, name>>)' /\ Keeps
<1> DEFINE p == <<fn, name>>
<1>0. p[1] = fn /\ p[2] = name
  OBVIOUS
<1> HIDE DEF p
<1>3. CASE name = TooLong
  <2>1. UNCHANGED <<cfmap, cfrev>>
    BY <1>3 DEF Add
  <2>2. MapTypes' /\ Keeps
    BY <2>1 DEF MapTypes, Keeps, HasFn, HasName
  <2>3. Named(p)'
    BY <1>0, <1>3 DEF Named
  <2> QED BY <2>2, <2>3 DEF p
<1>1. CASE name # TooLong /\ side = "save"
  <2>1. cfmap' = Insert(cfmap, fn, name) /\ cfrev' = cfrev
    BY <1>1 DEF Add
  <2>2. <<fn, name>> \in PublishedIn(SaveLibs) /\ cfmap \in Seq(PublishedIn(SaveLibs))
    BY <1>1 DEF Libs, MapTypes
  <2>3. /\ Insert(cfmap, fn, name) \in Seq(PublishedIn(SaveLibs))
        /\ In(cfmap) \subseteq In(Insert(cfmap, fn, name))
        /\ \E e \in In(Insert(cfmap, fn, name)) : e[1] = fn
    BY <2>2, InsertFacts
  <2>4. MapTypes'
    BY <2>1, <2>3 DEF MapTypes
  <2>5. Keeps
    BY <2>1, <2>3 DEF Keeps, HasFn, HasName
  <2>6. Named(p)'
    BY <1>0, <1>1, <2>1, <2>3 DEF Has, HasFn, Named
  <2> QED BY <2>4, <2>5, <2>6 DEF p
<1>2. CASE name # TooLong /\ side = "load"
  <2>1. cfrev' = Insert(cfrev, name, fn) /\ cfmap' = cfmap
    BY <1>2 DEF Add
  <2>2. /\ <<name, fn>> \in Reverse(PublishedIn(LoadLibs))
        /\ cfrev \in Seq(Reverse(PublishedIn(LoadLibs)))
    <3>1. p \in PublishedIn(LoadLibs)
      BY <1>2 DEF Libs, p
    <3> QED BY <1>0, <3>1 DEF MapTypes, Reverse
  <2>3. /\ Insert(cfrev, name, fn) \in Seq(Reverse(PublishedIn(LoadLibs)))
        /\ In(cfrev) \subseteq In(Insert(cfrev, name, fn))
        /\ \E e \in In(Insert(cfrev, name, fn)) : e[1] = name
    BY <2>2, InsertFacts
  <2>4. MapTypes'
    BY <2>1, <2>3 DEF MapTypes
  <2>5. Keeps
    BY <2>1, <2>3 DEF Keeps, HasFn, HasName
  <2>6. Named(p)'
    BY <1>0, <1>2, <2>1, <2>3 DEF Has, HasName, Named
  <2> QED BY <2>4, <2>5, <2>6 DEF p
<1> QED BY <1>1, <1>2, <1>3

(* What was known of the tables behind stays known.                         *)
LEMMA BehindKept ==
  ASSUME Behind, Keeps, UNCHANGED <<side, lib>>
  PROVE  Behind' /\ \A p : Named(p) => Named(p)'
<1>1. Behind'
  BY DEF Behind, Keeps
<1>2. \A p : Named(p) => Named(p)'
  BY DEF Has, Keeps, Named
<1> QED BY <1>1, <1>2

\* Nothing has been enumerated yet.
LEMMA NamesFirst == InitNames => NamesInv
<1> SUFFICES ASSUME InitNames PROVE NamesInv
  OBVIOUS
<1> USE DEF InitNames
<1>1. Place
  <2>1. CASE SaveLibs = << >>
    BY <2>1 DEF Place
  <2>2. CASE SaveLibs # << >>
    <3>1. 1 \in DOMAIN SaveLibs
      BY <2>2, NamesAssumption
    <3> QED BY <2>2, <3>1 DEF Place, Libs
  <2> QED BY <2>1, <2>2
<1>2. MapTypes
  BY DEF MapTypes
<1>3. Behind
  <2>1. \A k \in DOMAIN SaveLibs : ~(k < 1)
    BY NamesAssumption
  <2> QED BY <2>1 DEF Behind
<1>4. Current
  <2>1. lib \in DOMAIN Libs => todo = Contents(Libs[lib])
    BY DEF Libs
  <2> QED BY <2>1 DEF Current, Contents
<1> QED BY <1>1, <1>2, <1>3, <1>4 DEF NamesInv

\* A field of a table names its function or starts its subtable.
LEMMA VisitFieldStep == NamesInv /\ VisitField => NamesInv'
<1> SUFFICES ASSUME NamesInv, VisitField PROVE NamesInv'
  OBVIOUS
<1> USE DEF NamesInv
<1>1. PICK f \in todo :
        /\ todo' = todo \ {f}
        /\ IF "fn" \in DOMAIN f
           THEN Add(f.fn, FieldName(Libs[lib], f)) /\ UNCHANGED outer
           ELSE /\ outer' = IF SubName(Libs[lib], f) = TooLong THEN None ELSE f
                /\ UNCHANGED <<cfmap, cfrev>>
  BY DEF VisitField
<1>2. /\ outer = None /\ UNCHANGED <<side, lib>> /\ Libs' = Libs
      /\ side \in {"save", "load"} /\ lib \in DOMAIN Libs
      /\ todo \subseteq Contents(Libs[lib]) /\ lib \in Nat \ {0}
  BY <1>1 DEF VisitField, Place, Libs
<1>3. Libs \in Seq(Library)
  BY NamesAssumption DEF Libs
<1> PICK l : l = Libs[lib]
  OBVIOUS
<1> PICK libs : libs = Libs
  OBVIOUS
<1>4. /\ \A g \in l.fields :
           /\ "fn" \in DOMAIN g
           /\ FieldName(l, g) # TooLong => <<g.fn, FieldName(l, g)>> \in Published(l)
      /\ \A s \in l.subs : "fn" \notin DOMAIN s /\ s.key # None.key /\ s # None
      /\ Published(l) \subseteq PublishedIn(libs)
  BY <1>2, <1>3, TableFacts
<1>5. f \in l.fields \/ f \in l.subs
  BY <1>2 DEF Contents
<1>6. CASE f \in l.fields
  <2>1. Add(f.fn, FieldName(l, f)) /\ outer' = None
    BY <1>1, <1>2, <1>4, <1>6
  <2>2. MapTypes' /\ Named(<<f.fn, FieldName(l, f)>>)' /\ Keeps
    BY <1>2, <1>4, <1>6, <2>1, AddFacts
  <2>3. Behind' /\ \A p : Named(p) => Named(p)'
    BY <1>2, <2>2, BehindKept
  <2>4. Place'
    BY <1>1, <1>2, <2>1 DEF Place
  <2>5. ASSUME NEW g \in l.fields
        PROVE  g \in todo' \/ Named(<<g.fn, FieldName(l, g)>>)'
    BY <1>1, <1>2, <2>2, <2>3 DEF Current
  <2>6. ASSUME NEW s \in l.subs, NEW e \in s.entries
        PROVE  s \in todo' \/ Named(<<e.fn, EntryName(l, s, e)>>)'
    <3>1. s # f /\ outer.key # s.key
      BY <1>2, <1>4, <1>6
    <3> QED BY <1>1, <1>2, <2>3, <3>1 DEF Current
  <2>7. Current'
    BY <1>2, <2>5, <2>6 DEF Current
  <2> QED BY <2>2, <2>3, <2>4, <2>7
<1>7. CASE f \in l.subs
  <2>1. /\ outer' = IF SubName(l, f) = TooLong THEN None ELSE f
        /\ UNCHANGED <<cfmap, cfrev>>
    BY <1>1, <1>4, <1>7
  <2>2. MapTypes' /\ Keeps
    BY <2>1 DEF MapTypes, Keeps, HasFn, HasName
  <2>3. Behind' /\ \A p : Named(p) => Named(p)'
    BY <1>2, <2>2, BehindKept
  <2>4. Place'
    BY <1>1, <1>2, <1>7, <2>1 DEF Place, PartOf
  <2>5. ASSUME NEW g \in l.fields
        PROVE  g \in todo' \/ Named(<<g.fn, FieldName(l, g)>>)'
    <3>1. g # f
      BY <1>4, <1>7
    <3> QED BY <1>1, <1>2, <2>3, <3>1 DEF Current
  <2>6. ASSUME NEW s \in l.subs, NEW e \in s.entries
        PROVE  \/ s \in todo'
               \/ outer'.key = s.key /\ e \in outer'.entries
               \/ Named(<<e.fn, EntryName(l, s, e)>>)'
    <3>1. outer.key # s.key
      BY <1>2, <1>4
    <3>2. CASE s = f
      <4>1. SubName(l, f) = TooLong => EntryName(l, s, e) = TooLong
        BY <3>2 DEF EntryName
      <4>2. <<e.fn, EntryName(l, s, e)>>[2] = EntryName(l, s, e)
        OBVIOUS
      <4> QED BY <2>1, <3>2, <4>1, <4>2 DEF Named
    <3>3. CASE s # f
      BY <1>1, <1>2, <2>3, <3>1, <3>3 DEF Current
    <3> QED BY <3>2, <3>3
  <2>7. Current'
    BY <1>2, <2>5, <2>6 DEF Current
  <2> QED BY <2>2, <2>3, <2>4, <2>7
<1> QED BY <1>5, <1>6, <1>7
\* An entry of a subtable names its function.
LEMMA VisitEntryStep == NamesInv /\ VisitEntry => NamesInv'
<1> SUFFICES ASSUME NamesInv, VisitEntry PROVE NamesInv'
  OBVIOUS
<1> USE DEF NamesInv
<1>1. PICK e \in outer.entries :
        /\ Add(e.fn, EntryName(Libs[lib], outer, e))
        /\ outer' = [outer EXCEPT !.entries = @ \ {e}]
  BY DEF VisitEntry
<1>2. /\ outer # None /\ UNCHANGED <<side, lib, todo>> /\ Libs' = Libs
      /\ side \in {"save", "load"} /\ lib \in DOMAIN Libs /\ lib \in Nat \ {0}
      /\ todo \subseteq Contents(Libs[lib])
      /\ \E s \in Libs[lib].subs : PartOf(outer, s)
  BY <1>1 DEF VisitEntry, Place, Libs, None
<1>3. Libs \in Seq(Library)
  BY NamesAssumption DEF Libs
<1> PICK l : l = Libs[lib]
  OBVIOUS
<1> PICK libs : libs = Libs
  OBVIOUS
<1>4. Published(l) \subseteq PublishedIn(libs)
  BY <1>2, <1>3, TableFacts
<1>5. PICK r \in l.subs : PartOf(outer, r)
  BY <1>2
<1>6. outer'.key = outer.key /\ outer'.entries = outer.entries \ {e}
  BY <1>1
<1>7. EntryName(l, outer, e) = EntryName(l, r, e) /\ e \in r.entries
  BY <1>1, <1>5 DEF PartOf, EntryName, SubName
<1> PICK name : name = EntryName(l, r, e)
  OBVIOUS
<1>8. (name # TooLong => <<e.fn, name>> \in PublishedIn(libs)) /\ Add(e.fn, name)
  BY <1>1, <1>4, <1>5, <1>7 DEF Published
<1>9. MapTypes' /\ Named(<<e.fn, name>>)' /\ Keeps
  BY <1>2, <1>8, AddFacts
<1>10. Behind' /\ \A p : Named(p) => Named(p)'
  BY <1>2, <1>9, BehindKept
<1>11. Place'
  <2>1. PartOf(outer', r)
    BY <1>5, <1>6 DEF PartOf
  <2> QED BY <1>2, <1>5, <2>1 DEF Place, PartOf
<1>12. ASSUME NEW g \in l.fields
       PROVE  g \in todo' \/ Named(<<g.fn, FieldName(l, g)>>)'
  BY <1>2, <1>10 DEF Current
<1>13. ASSUME NEW s \in l.subs, NEW x \in s.entries
       PROVE  \/ s \in todo'
              \/ outer'.key = s.key /\ x \in outer'.entries
              \/ Named(<<x.fn, EntryName(l, s, x)>>)'
  <2>1. \/ s \in todo
        \/ outer.key = s.key /\ x \in outer.entries
        \/ Named(<<x.fn, EntryName(l, s, x)>>)
    BY <1>2 DEF Current
  <2>2. CASE outer.key = s.key /\ x = e
    <3>1. EntryName(l, s, x) = name
      BY <1>5, <2>2 DEF EntryName, SubName, PartOf
    <3> QED BY <1>9, <2>2, <3>1
  <2>3. CASE ~(outer.key = s.key /\ x = e)
    BY <1>2, <1>6, <1>10, <2>1, <2>3
  <2> QED BY <2>2, <2>3
<1>14. Current'
  BY <1>2, <1>12, <1>13 DEF Current
<1> QED BY <1>9, <1>10, <1>11, <1>14

\* A subtable ends when nothing of it is left.
LEMMA EndSubStep == NamesInv /\ EndSub => NamesInv'
<1> SUFFICES ASSUME NamesInv, EndSub PROVE NamesInv'
  OBVIOUS
<1> USE DEF NamesInv, EndSub
<1>1. Place' /\ MapTypes' /\ Keeps /\ Libs' = Libs
  BY DEF Place, MapTypes, Keeps, HasFn, HasName, Libs
<1>2. Behind' /\ \A p : Named(p) => Named(p)'
  BY <1>1, BehindKept
<1>3. Current'
  BY <1>1, <1>2 DEF Current
<1> QED BY <1>1, <1>2, <1>3

(* A table is done when nothing of it is left to visit.                     *)
LEMMA TableDone ==
  ASSUME Current, side # "done", lib \in DOMAIN Libs, todo = {}, outer = None
  PROVE  \A p \in Published(Libs[lib]) : Has(p)
<1>1. \A f \in Libs[lib].fields : Named(<<f.fn, FieldName(Libs[lib], f)>>)
  BY DEF Current
<1>2. \A s \in Libs[lib].subs : \A e \in s.entries :
        Named(<<e.fn, EntryName(Libs[lib], s, e)>>)
  BY DEF Current, None
<1>3. \A p \in Published(Libs[lib]) : Named(p) /\ p[2] # TooLong
  BY <1>1, <1>2 DEF Published
<1> QED BY <1>3 DEF Named

\* A table ends when nothing of it is left; the loader follows the saver.
LEMMA NextLibStep == NamesInv /\ NextLib => NamesInv'
<1> SUFFICES ASSUME NamesInv, NextLib PROVE NamesInv'
  OBVIOUS
<1> USE DEF NamesInv
<1>1. /\ side \in {"save", "load"} /\ todo = {} /\ outer = None
      /\ UNCHANGED <<outer, cfmap, cfrev>> /\ lib \in Nat \ {0}
  BY DEF NextLib, Place
<1>2. /\ SaveLibs \in Seq(Library) /\ LoadLibs \in Seq(Library)
      /\ Libs \in Seq(Library)
  BY NamesAssumption DEF Libs
<1>3. lib \in DOMAIN Libs => \A p \in Published(Libs[lib]) : Has(p)
  BY <1>1, TableDone
<1>4. MapTypes' /\ Keeps
  BY <1>1 DEF MapTypes, Keeps, HasFn, HasName
<1>5. side = "save" => Libs = SaveLibs /\ \A p : Has(p) <=> HasFn(p)
  BY DEF Libs, Has
<1>6. side = "load" => Libs = LoadLibs /\ \A p : Has(p) <=> HasName(p)
  BY DEF Libs, Has
<1>7. /\ \A k \in DOMAIN SaveLibs : side # "save" \/ k <= lib =>
           \A p \in Published(SaveLibs[k]) : HasFn(p)
      /\ \A k \in DOMAIN LoadLibs : side = "load" /\ k <= lib =>
           \A p \in Published(LoadLibs[k]) : HasName(p)
  <2>1. ASSUME NEW k \in DOMAIN SaveLibs, side # "save" \/ k <= lib
        PROVE  \A p \in Published(SaveLibs[k]) : HasFn(p)
    <3>1. CASE side = "save" /\ k = lib
      BY <1>3, <1>5, <3>1
    <3>2. CASE side # "save" \/ k < lib
      BY <3>2 DEF Behind
    <3> QED BY <1>1, <1>2, <2>1, <3>1, <3>2
  <2>2. ASSUME NEW k \in DOMAIN LoadLibs, side = "load", k <= lib
        PROVE  \A p \in Published(LoadLibs[k]) : HasName(p)
    <3>1. CASE k = lib
      BY <1>3, <1>6, <2>2, <3>1
    <3>2. CASE k < lib
      BY <2>2, <3>2 DEF Behind
    <3> QED BY <1>1, <1>2, <2>2, <3>1, <3>2
  <2> QED BY <2>1, <2>2
<1>8. CASE lib < Len(Libs)
  <2>1. lib' = lib + 1 /\ todo' = Contents(Libs[lib + 1]) /\ side' = side /\ Libs' = Libs
    BY <1>8 DEF NextLib, Libs
  <2>2. lib + 1 \in DOMAIN Libs /\ \A k \in Nat : k < lib + 1 => k <= lib
    BY <1>1, <1>2, <1>8
  <2>3. Place'
    BY <1>1, <2>1, <2>2 DEF Place
  <2>4. Behind'
    <3>1. DOMAIN SaveLibs \subseteq Nat /\ DOMAIN LoadLibs \subseteq Nat
      BY <1>2
    <3> QED BY <1>1, <1>4, <1>7, <2>1, <2>2, <3>1 DEF Behind, Keeps
  <2>5. Current'
    BY <2>1 DEF Current, Contents
  <2> QED BY <1>4, <2>3, <2>4, <2>5
<1>9. CASE ~(lib < Len(Libs))
  <2>1. /\ side' = IF side = "save" THEN "load" ELSE "done"
        /\ lib' = 1
        /\ todo' = IF side = "save" /\ LoadLibs # << >>
                   THEN Contents(LoadLibs[1]) ELSE {}
    BY <1>9 DEF NextLib
  <2>2. \A k \in DOMAIN Libs : k <= lib
    BY <1>1, <1>2, <1>9
  <2>3. LoadLibs # << >> => 1 \in DOMAIN LoadLibs
    BY <1>2
  <2>4. Place'
    BY <1>1, <2>1, <2>3 DEF Place, Libs
  <2>5. Behind'
    <3>1. \A k \in DOMAIN LoadLibs : ~(k < 1)
      BY <1>2
    <3>2. \A k \in DOMAIN SaveLibs : \A p \in Published(SaveLibs[k]) : HasFn(p)
      BY <1>1, <1>5, <1>7, <2>2
    <3>3. side = "load" =>
            \A k \in DOMAIN LoadLibs : \A p \in Published(LoadLibs[k]) : HasName(p)
      BY <1>6, <1>7, <2>2
    <3> QED BY <1>1, <1>4, <2>1, <3>1, <3>2, <3>3 DEF Behind, Keeps
  <2>6. Current'
    <3>1. side' # "done" => /\ Libs' = LoadLibs
                            /\ LoadLibs # << >> => todo' = Contents(LoadLibs[1])
      BY <1>1, <2>1 DEF Libs
    <3>2. 1 \in DOMAIN LoadLibs => LoadLibs # << >>
      OBVIOUS
    <3> QED BY <2>1, <3>1, <3>2 DEF Current, Contents
  <2> QED BY <1>4, <2>4, <2>5, <2>6
<1> QED BY <1>8, <1>9
-----------------------------------------------------------------------------
\* No step leaves the invariant.
LEMMA NamesStep == NamesInv /\ [NextNames]_namesVars => NamesInv'
<1> SUFFICES ASSUME NamesInv, [NextNames]_namesVars PROVE NamesInv'
  OBVIOUS
<1>1. CASE UNCHANGED namesVars
  BY <1>1 DEF namesVars, NamesInv, Place, MapTypes, Behind, Current, Named, Has, HasFn, HasName, Libs
<1> QED BY <1>1, VisitFieldStep, VisitEntryStep, EndSubStep, NextLibStep DEF NextNames

(* The tables behind have been enumerated whole, and of the one at hand     *)
(* what is not left to visit.                                               *)
THEOREM NamesInvariant == NamesSpec => []NamesInv
  BY NamesFirst, NamesStep, PTL DEF NamesSpec

\* At the end every published function is in the map of the saver.
LEMMA InvNamesAll == NamesInv => AllNamed
<1> SUFFICES ASSUME NamesInv, side = "done", NEW p \in PublishedIn(SaveLibs)
             PROVE  \E i \in DOMAIN cfmap : cfmap[i][1] = p[1]
  BY DEF AllNamed
<1>1. PICK k \in DOMAIN SaveLibs : p \in Published(SaveLibs[k])
  BY DEF PublishedIn, In
<1>2. HasFn(p)
  BY <1>1 DEF NamesInv, Behind
<1> QED BY <1>2 DEF HasFn, In

(* Every C function the libraries publish under a name that fits its buffer *)
(* gets a name, in whatever order their tables are visited.                 *)
THEOREM PublishedAreNamed == NamesSpec => []AllNamed
  BY NamesInvariant, InvNamesAll, PTL

\* At the end a name of the saver's has a function it is published for first.
LEMMA InvResolves == NamesInv => NamesResolve
<1> SUFFICES ASSUME NamesInv, side = "done", NEW i \in DOMAIN cfmap
             PROVE  /\ Clear(cfmap[i]) => cfrev_lookup(cfmap[i][2]) = {cfmap[i][1]}
                    /\ \A fn \in cfrev_lookup(cfmap[i][2]) :
                         <<fn, cfmap[i][2]>> \in PublishedIn(LoadLibs)
  BY DEF NamesResolve
<1> PICK p : p = cfmap[i]
  OBVIOUS
<1>1. ASSUME NEW n \in DOMAIN cfrev, cfrev[n][1] = p[2]
      PROVE  <<cfrev[n][2], p[2]>> \in PublishedIn(LoadLibs)
  <2>1. cfrev[n] \in Reverse(PublishedIn(LoadLibs))
    BY DEF NamesInv, MapTypes
  <2>2. PICK q \in PublishedIn(LoadLibs) : cfrev[n] = <<q[2], q[1]>>
    BY <2>1 DEF Reverse
  <2>3. q = <<q[1], q[2]>>
    BY DEF PublishedIn, Published
  <2> QED BY <1>1, <2>2, <2>3
<1>2. \A fn \in cfrev_lookup(p[2]) : <<fn, p[2]>> \in PublishedIn(LoadLibs)
  BY <1>1 DEF cfrev_lookup
<1>3. ASSUME Clear(p) PROVE cfrev_lookup(p[2]) = {p[1]}
  <2>1. { q \in PublishedIn(LoadLibs) : q[2] = p[2] } = {p}
    BY <1>3 DEF Clear
  <2>2. PICK k \in DOMAIN LoadLibs : p \in Published(LoadLibs[k])
    BY <2>1 DEF PublishedIn, In
  <2>3. PICK j \in DOMAIN cfrev : cfrev[j][1] = p[2]
    BY <2>2 DEF NamesInv, Behind, HasName, In
  <2>4. ASSUME NEW n \in DOMAIN cfrev, cfrev[n][1] = p[2]
        PROVE  cfrev[n][2] = p[1]
    <3>1. <<cfrev[n][2], p[2]>> = p
      BY <1>1, <2>1, <2>4
    <3> QED BY <3>1
  <2>5. cfrev_lookup(p[2]) = {cfrev[CHOOSE n \in DOMAIN cfrev : cfrev[n][1] = p[2]][2]}
    BY <2>3 DEF cfrev_lookup
  <2> QED BY <2>3, <2>4, <2>5
<1> QED BY <1>2, <1>3

(* A name leads the loader back to the very function it was given for, if   *)
(* the loader publishes the name for that function only, and else to one it *)
(* publishes the name for. Nothing is assumed of the libraries: whether a   *)
(* name is clear is asked of each name, and those of a list never are.      *)
THEOREM NamesLeadBack == NamesSpec => []NamesResolve
  BY NamesInvariant, InvResolves, PTL

(***************************************************************************)
(* Finalizers                                                              *)
(***************************************************************************)

\* The two orders of ReverseOrder, as sets of pairs.
Later == { p \in Obj \X Obj : markedat[p[1]] > markedat[p[2]] }
Queued == { p \in Obj \X Obj :
              \/ batch[p[1]] < batch[p[2]]
              \/ batch[p[1]] = batch[p[2]] /\ markedat[p[1]] > markedat[p[2]] }

Types ==
  /\ roots \subseteq Obj /\ refs \in [Obj -> SUBSET Obj]
  /\ meta \in [Obj -> Meta \cup {NoMeta}] /\ hasgc \subseteq Meta
  /\ alive \subseteq Obj /\ finobj \in Seq(Obj) /\ tobefnz \in Seq(Obj)
  /\ phase \in {"pause", "callfin", "closing", "closed"}
  /\ marks \in [Obj -> Nat] /\ calls \in [Obj -> Nat]
  /\ clock \in Nat /\ markedat \in [Obj -> Nat]
  /\ cycle \in Nat /\ batch \in [Obj -> Nat]

\* An object is on one of the lists at most, and at one place of it: that is
\* what the strict orders say.
Order ==
  /\ Sorted(finobj, Later) /\ Sorted(tobefnz, Queued)
  /\ In(finobj) \cap In(tobefnz) = {}
  /\ \A o \in Obj : markedat[o] <= clock /\ batch[o] <= cycle

Count ==
  \A o \in Obj : marks[o] = calls[o] + (IF tofinalize(o) THEN 1 ELSE 0)

Ending ==
  /\ phase \in {"closing", "closed"} => finobj = << >>
  /\ phase = "closed" => tobefnz = << >>

\* What the roots and the lists lead to, as a set that nothing leads out of.
Holds == roots \cup In(finobj) \cup In(tobefnz)
ClosedSet(T) == T \in SUBSET Obj /\ \A q \in T : refs[q] \subseteq T
Safe == phase # "closed" => \E T \in SUBSET alive : ClosedSet(T) /\ Holds \subseteq T

FinalizerInv == Types /\ Order /\ Count /\ Ending /\ Safe
-----------------------------------------------------------------------------
(* What is reached is a set of objects that holds the start and that        *)
(* nothing leads out of, and it is the least one.                           *)
LEMMA ReachClosed ==
  ASSUME Types, NEW S \in SUBSET Obj
  PROVE  ClosedSet(Reach(S)) /\ S \subseteq Reach(S)
<1>1. Reach(S) \subseteq Obj /\ S \subseteq Reach(S)
  BY DEF Reach
<1>2. ASSUME NEW q \in Reach(S), NEW o \in refs[q]
      PROVE  o \in Reach(S)
  <2>1. o \in Obj
    BY <1>1, <1>2 DEF Types
  <2>2. ASSUME NEW T \in SUBSET Obj, S \subseteq T, \A x \in T : refs[x] \subseteq T
        PROVE  o \in T
    <3>1. q \in T
      BY <1>2, <2>2 DEF Reach
    <3> QED BY <3>1, <1>2, <2>2
  <2> QED BY <2>1, <2>2 DEF Reach
<1> QED BY <1>1, <1>2 DEF ClosedSet

\* Any closed set that holds the start holds what is reached.
LEMMA ReachLeast ==
  ASSUME NEW S, NEW T, ClosedSet(T), S \subseteq T
  PROVE  Reach(S) \subseteq T
  BY DEF Reach, ClosedSet

(* The invariant does not depend on how its last part is put: NothingDangles *)
(* is that some closed set of live objects holds the roots and the lists.   *)
LEMMA SafeIsNothingDangles ==
  ASSUME Types
  PROVE  Safe <=> NothingDangles
<1>1. Holds \in SUBSET Obj
  BY InType DEF Holds, Types
<1>2. ASSUME NEW T \in SUBSET alive, ClosedSet(T), Holds \subseteq T
      PROVE  Reach(Holds) \subseteq alive
  BY <1>2, ReachLeast
<1>3. ClosedSet(Reach(Holds)) /\ Holds \subseteq Reach(Holds)
  BY <1>1, ReachClosed
<1> QED BY <1>2, <1>3 DEF Safe, NothingDangles, Holds

(* An object is listed once if it is on a list, and never otherwise.        *)
LEMMA ListedOnce ==
  ASSUME Types, Order, NEW o \in Obj
  PROVE  Listed(o) = IF tofinalize(o) THEN 1 ELSE 0
<1> DEFINE At(s) == { i \in DOMAIN s : s[i] = o }
<1>1. ASSUME NEW s, o \notin In(s)
      PROVE  Cardinality(At(s)) = 0
  <2>1. At(s) = {}
    BY <1>1 DEF In
  <2> QED BY <2>1, FS_EmptySet
<1>2. ASSUME NEW s, o \in In(s), \A i, j \in DOMAIN s : s[i] = s[j] => i = j
      PROVE  Cardinality(At(s)) = 1
  <2>1. PICK i \in DOMAIN s : s[i] = o
    BY <1>2 DEF In
  <2>2. At(s) = {i}
    BY <1>2, <2>1
  <2> QED BY <2>2, FS_Singleton
<1>3. /\ \A i, j \in DOMAIN finobj : finobj[i] = finobj[j] => i = j
      /\ \A i, j \in DOMAIN tobefnz : tobefnz[i] = tobefnz[j] => i = j
  <2>1. \A x : <<x, x>> \notin Later /\ <<x, x>> \notin Queued
    BY DEF Later, Queued, Types
  <2> QED BY <2>1, SortedOnce DEF Types, Order
<1> HIDE DEF At
<1>4. /\ Cardinality(At(finobj)) = IF o \in In(finobj) THEN 1 ELSE 0
      /\ Cardinality(At(tobefnz)) = IF o \in In(tobefnz) THEN 1 ELSE 0
  BY <1>1, <1>2, <1>3
<1>5. Listed(o) = Cardinality(At(finobj)) + Cardinality(At(tobefnz))
  BY DEF Listed, At
<1>6. ~(o \in In(finobj) /\ o \in In(tobefnz))
  BY DEF Order
<1> QED BY <1>4, <1>5, <1>6 DEF tofinalize-----------------------------------------------------------------------------
\* A new state has the invariant: no object is marked or called for.
LEMMA FinalizerInit == Init => FinalizerInv
<1> SUFFICES ASSUME Init PROVE FinalizerInv
  OBVIOUS
<1> USE DEF Init
<1>1. Types
  BY FinalizerAssumption DEF Types
<1>2. In(finobj) = {} /\ In(tobefnz) = {}
  BY InEmpty
<1>3. Order
  BY <1>2 DEF Order, Sorted
<1>4. Count
  BY <1>2 DEF Count, tofinalize
<1>5. Ending
  BY DEF Ending
<1>6. ClosedSet(Obj) /\ Holds \subseteq Obj
  BY <1>2 DEF ClosedSet, Holds
<1>7. Safe
  BY <1>6 DEF Safe
<1> QED BY <1>1, <1>3, <1>4, <1>5, <1>7 DEF FinalizerInv

\* What CheckFinalizer does when it marks an object.
Marks(o) ==
  /\ finobj' = <<o>> \o finobj
  /\ marks' = [marks EXCEPT ![o] = @ + 1]
  /\ clock' = clock + 1
  /\ markedat' = [markedat EXCEPT ![o] = clock + 1]

\* And when it does not.
Leaves == UNCHANGED <<finobj, marks, clock, markedat>>

\* luaC_checkfinalizer marks the object, outside of lua_close, or does nothing.
LEMMA CheckFinalizerCases ==
  ASSUME NEW o, NEW m, NEW bit, CheckFinalizer(o, m, bit)
  PROVE  (Marks(o) /\ ~bit /\ phase # "closing") \/ Leaves
  BY DEF CheckFinalizer, Wants, Marks, Leaves

(* The marking of an object puts the newest at the head of finobj, and      *)
(* moves none of a list the object is not on.                               *)
LEMMA MarksOrder ==
  ASSUME Types, Order, NEW o \in Obj, Marks(o), o \notin In(finobj),
         batch' = batch, NEW t \in Seq(Obj), o \notin In(t), Sorted(t, Queued)
  PROVE  /\ Sorted(finobj', Later') /\ Sorted(t, Queued')
         /\ finobj' \in Seq(Obj) /\ In(finobj') = In(finobj) \cup {o}
         /\ clock' \in Nat /\ markedat' \in [Obj -> Nat]
         /\ \A q \in Obj : markedat'[q] <= clock'
<1>1. /\ clock' \in Nat /\ markedat' \in [Obj -> Nat] /\ clock' = clock + 1
      /\ \A q \in Obj : markedat'[q] = IF q = o THEN clock + 1 ELSE markedat[q]
      /\ \A q \in Obj : markedat[q] <= clock /\ markedat[q] \in Nat
      /\ clock \in Nat /\ batch \in [Obj -> Nat] /\ finobj \in Seq(Obj)
  BY DEF Marks, Types, Order
<1>2. In(finobj) \subseteq Obj /\ In(t) \subseteq Obj
  BY <1>1, InType
<1>3. Sorted(finobj, Later')
  <2>1. \A x, y \in In(finobj) : <<x, y>> \in Later => <<x, y>> \in Later'
    BY <1>1, <1>2 DEF Later
  <2> QED BY <2>1, SortedChange DEF Order
<1>4. {o} \X In(finobj) \subseteq Later'
  <2> SUFFICES ASSUME NEW q \in In(finobj)
               PROVE  <<o, q>> \in Later'
    OBVIOUS
  <2>1. q \in Obj /\ markedat'[o] = clock + 1 /\ markedat'[q] <= clock
    BY <1>1, <1>2
  <2> QED BY <1>1, <2>1 DEF Later
<1>5. finobj' = <<o>> \o finobj
  BY DEF Marks
<1>6. Sorted(<<o>> \o finobj, Later')
  BY <1>1, <1>3, <1>4, SortedCons
<1>7. In(<<o>> \o finobj) = In(finobj) \cup {o}
  BY <1>1, InCons
<1>8. Sorted(t, Queued')
  <2>1. \A x, y \in In(t) : <<x, y>> \in Queued => <<x, y>> \in Queued'
    BY <1>1, <1>2 DEF Queued
  <2> QED BY <2>1, SortedChange
<1>9. <<o>> \o finobj \in Seq(Obj)
  BY <1>1
<1>10. ASSUME NEW q \in Obj
       PROVE  markedat'[q] <= clock'
  <2>1. /\ markedat'[q] = IF q = o THEN clock + 1 ELSE markedat[q]
        /\ markedat[q] <= clock /\ markedat[q] \in Nat
    BY <1>1
  <2>2. clock' = clock + 1 /\ clock \in Nat
    BY <1>1
  <2> QED BY <2>1, <2>2
<1> QED BY <1>1, <1>5, <1>6, <1>7, <1>8, <1>9, <1>10, Zenon

\* lua_setmetatable keeps the invariant.
LEMMA SetMetatableStep ==
  FinalizerInv /\ SetMetatable => FinalizerInv'
<1> SUFFICES ASSUME FinalizerInv, phase # "closed",
                    NEW o \in Reach(roots), NEW m \in Meta,
                    meta' = [meta EXCEPT ![o] = m],
                    CheckFinalizer(o, m, tofinalize(o)),
                    UNCHANGED <<graph, hasgc, alive, tobefnz, phase, calls,
                                cycle, batch>>
             PROVE  FinalizerInv'
  BY DEF SetMetatable
<1> USE DEF FinalizerInv, graph
<1>1. o \in Obj
  BY DEF Reach
<1>2. PICK T \in SUBSET alive : ClosedSet(T) /\ Holds \subseteq T
  BY DEF Safe
<1>3. o \in T
  BY <1>2, ReachLeast DEF Holds
<1>4. ClosedSet(T)'
  BY <1>2 DEF ClosedSet
<1>5. CASE Leaves
  <2>1. Types' /\ Order' /\ Count' /\ Ending' /\ Holds' = Holds
    BY <1>1, <1>5 DEF Leaves, Types, Order, Count, Ending, Holds, Later, Queued,
                      tofinalize
  <2> QED BY <2>1, <1>2, <1>4 DEF Safe
<1>6. CASE Marks(o) /\ ~tofinalize(o) /\ phase # "closing"
  <2>1. o \notin In(finobj) /\ o \notin In(tobefnz) /\ batch' = batch
    BY <1>6 DEF tofinalize
  <2>2. /\ Sorted(finobj', Later') /\ Sorted(tobefnz, Queued')
        /\ finobj' \in Seq(Obj) /\ In(finobj') = In(finobj) \cup {o}
        /\ clock' \in Nat /\ markedat' \in [Obj -> Nat]
        /\ \A q \in Obj : markedat'[q] <= clock'
    BY <1>1, <1>6, <2>1, MarksOrder DEF Types, Order
  <2>3. marks' = [marks EXCEPT ![o] = @ + 1]
    BY <1>6 DEF Marks
  <2>4. Types'
    BY <1>1, <2>2, <2>3 DEF Types
  <2>5. Order'
    BY <2>1, <2>2 DEF Order
  <2>6. Count'
    BY <1>1, <2>1, <2>2, <2>3 DEF Count, tofinalize, Types
  <2>7. Ending'
    BY <1>6 DEF Ending
  <2>8. Holds' \subseteq T
    BY <1>2, <1>3, <2>2 DEF Holds
  <2> QED BY <1>2, <1>4, <2>4, <2>5, <2>6, <2>7, <2>8 DEF Safe
<1> QED BY <1>5, <1>6, CheckFinalizerCases
\* A __gc field that comes or goes keeps the invariant.
LEMMA SetGCFieldStep ==
  FinalizerInv /\ SetGCField => FinalizerInv'
<1> SUFFICES ASSUME FinalizerInv, SetGCField PROVE FinalizerInv'
  OBVIOUS
<1> USE DEF FinalizerInv, SetGCField, graph
<1>1. hasgc' \subseteq Meta
  BY DEF Types
<1>2. Types' /\ Order' /\ Count' /\ Ending'
  BY <1>1 DEF Types, Order, Count, Ending, Later, Queued, tofinalize
<1>3. Safe'
  BY DEF Safe, ClosedSet, Holds
<1> QED BY <1>2, <1>3

\* The program's assignments keep it: they lead to nothing it could not reach.
LEMMA MutateStep ==
  FinalizerInv /\ Mutate => FinalizerInv'
<1> SUFFICES ASSUME FinalizerInv, Mutate PROVE FinalizerInv'
  OBVIOUS
<1> USE DEF FinalizerInv, metatables
<1>1. UNCHANGED <<metatables, alive, finobj, tobefnz, phase, marks, calls, clock,
                  markedat, cycle, batch>>
  BY DEF Mutate
<1>2. PICK T \in SUBSET alive : ClosedSet(T) /\ Holds \subseteq T
  BY DEF Mutate, Safe
<1>3. Reach(roots) \subseteq T
  BY <1>2, ReachLeast DEF Holds
<1>4. roots' \subseteq roots /\ ClosedSet(T)' /\ refs' \in [Obj -> SUBSET Obj]
  <2>1. CASE \E o \in roots : roots' = roots \ {o} /\ UNCHANGED refs
    BY <1>2, <2>1 DEF ClosedSet, Types
  <2>2. CASE /\ \E o, q \in Reach(roots) : refs' = [refs EXCEPT ![o] = @ \cup {q}]
             /\ UNCHANGED roots
    <3>1. PICK o \in Reach(roots), q \in Reach(roots) :
            refs' = [refs EXCEPT ![o] = @ \cup {q}]
      BY <2>2
    <3>2. o \in T /\ q \in T /\ T \subseteq Obj
      BY <1>2, <1>3 DEF ClosedSet
    <3>3. refs' \in [Obj -> SUBSET Obj]
      BY <3>1, <3>2 DEF Types
    <3>4. ClosedSet(T)'
      BY <1>2, <3>1, <3>2 DEF ClosedSet, Types
    <3> QED BY <2>2, <3>3, <3>4
  <2> QED BY <2>1, <2>2 DEF Mutate
<1>5. Types' /\ Order' /\ Count' /\ Ending'
  BY <1>1, <1>4 DEF Types, Order, Count, Ending, Later, Queued, tofinalize
<1>6. Safe'
  BY <1>1, <1>2, <1>4 DEF Safe, Holds
<1> QED BY <1>5, <1>6

(* What a collection or lua_close appends to tobefnz comes after what was   *)
(* there: batch sees to that.                                               *)
LEMMA QueueOrder ==
  ASSUME Types, Order, NEW dead \in Seq(Obj), In(dead) \subseteq In(finobj),
         Sorted(dead, Later), UNCHANGED <<markedat, clock>>, cycle' = cycle + 1,
         batch' = [o \in Obj |-> IF o \in In(dead) THEN cycle + 1 ELSE batch[o]]
  PROVE  /\ Sorted(QueueLast(dead), Queued')
         /\ QueueLast(dead) \in Seq(Obj)
         /\ In(QueueLast(dead)) = In(tobefnz) \cup In(dead)
         /\ cycle' \in Nat /\ batch' \in [Obj -> Nat]
         /\ \A o \in Obj : batch'[o] <= cycle'
         /\ Later' = Later
<1>1. /\ cycle \in Nat /\ cycle' = cycle + 1
      /\ \A o \in Obj : batch[o] \in Nat /\ batch[o] <= cycle
      /\ \A o \in Obj : batch'[o] = IF o \in In(dead) THEN cycle + 1 ELSE batch[o]
      /\ markedat' = markedat /\ tobefnz \in Seq(Obj)
      /\ In(tobefnz) \subseteq Obj /\ In(dead) \subseteq Obj
      /\ In(tobefnz) \cap In(dead) = {}
  BY InType DEF Types, Order
<1>2. batch' \in [Obj -> Nat]
  BY <1>1
<1>3. ASSUME NEW o \in Obj
      PROVE  batch'[o] <= cycle'
  <2>1. batch[o] \in Nat /\ batch[o] <= cycle
    BY <1>1
  <2> QED BY <1>1, <2>1
<1>4. Sorted(tobefnz, Queued')
  <2>1. \A x, y \in In(tobefnz) : <<x, y>> \in Queued => <<x, y>> \in Queued'
    BY <1>1 DEF Queued
  <2> QED BY <2>1, SortedChange DEF Order
<1>5. Sorted(dead, Queued')
  <2>1. \A x, y \in In(dead) : <<x, y>> \in Later => <<x, y>> \in Queued'
    BY <1>1 DEF Queued, Later
  <2> QED BY <2>1, SortedChange
<1>6. In(tobefnz) \X In(dead) \subseteq Queued'
  <2> SUFFICES ASSUME NEW x \in In(tobefnz), NEW y \in In(dead)
               PROVE  <<x, y>> \in Queued'
    OBVIOUS
  <2>1. /\ x \in Obj /\ y \in Obj /\ batch'[x] = batch[x] /\ batch'[y] = cycle + 1
        /\ batch[x] \in Nat /\ batch[x] <= cycle
    BY <1>1
  <2>2. batch'[x] < batch'[y]
    BY <1>1, <2>1
  <2> QED BY <2>1, <2>2 DEF Queued
<1>7. Sorted(tobefnz \o dead, Queued')
  BY <1>1, <1>4, <1>5, <1>6, SortedConcat
<1>8. tobefnz \o dead \in Seq(Obj) /\ In(tobefnz \o dead) = In(tobefnz) \cup In(dead)
  BY <1>1, InConcat
<1> QED BY <1>1, <1>2, <1>3, <1>7, <1>8 DEF QueueLast, Later
\* A collection keeps it: what leaves finobj goes to tobefnz, with what it leads to.
LEMMA CollectStep ==
  FinalizerInv /\ Collect => FinalizerInv'
<1> SUFFICES ASSUME FinalizerInv, Collect PROVE FinalizerInv'
  OBVIOUS
<1> USE DEF FinalizerInv, graph, metatables
<1>1. PICK old \in SUBSET alive :
        LET kept == Reach(roots \cup old)
            dead == Keep(finobj, Obj \ kept) IN
        /\ finobj' = Keep(finobj, kept)
        /\ tobefnz' = QueueLast(dead)
        /\ alive' = alive \cap (kept \cup markbeingfnz(QueueLast(dead)))
        /\ batch' = [o \in Obj |-> IF o \in In(dead) THEN cycle + 1 ELSE batch[o]]
  BY DEF Collect
<1> DEFINE kept == Reach(roots \cup old)
           dead == Keep(finobj, Obj \ kept)
           queue == Reach(In(tobefnz'))
<1>2. /\ phase = "pause" /\ phase' = "callfin" /\ cycle' = cycle + 1
      /\ UNCHANGED <<graph, metatables, marks, calls, clock, markedat>>
      /\ finobj' = Keep(finobj, kept) /\ tobefnz' = QueueLast(dead)
      /\ alive' = alive \cap (kept \cup queue)
      /\ batch' = [o \in Obj |-> IF o \in In(dead) THEN cycle + 1 ELSE batch[o]]
  BY <1>1 DEF Collect, markbeingfnz
<1>3. /\ dead \in Seq(Obj) /\ In(dead) = In(finobj) \ kept /\ Sorted(dead, Later)
      /\ finobj' \in Seq(Obj) /\ In(finobj') = In(finobj) \cap kept
      /\ Sorted(finobj', Later)
  <2>1. finobj \in Seq(Obj) /\ Sorted(finobj, Later) /\ In(finobj) \subseteq Obj
    BY InType DEF Types, Order
  <2>2. /\ dead \in Seq(Obj) /\ In(dead) = In(finobj) \cap (Obj \ kept)
        /\ Keep(finobj, kept) \in Seq(Obj)
        /\ In(Keep(finobj, kept)) = In(finobj) \cap kept
    BY <2>1, KeepFacts
  <2>3. Sorted(dead, Later) /\ Sorted(Keep(finobj, kept), Later)
    BY <2>1, SortedKeep
  <2> QED BY <1>2, <2>1, <2>2, <2>3
<1> HIDE DEF dead, kept, queue
<1>4. /\ Sorted(tobefnz', Queued') /\ tobefnz' \in Seq(Obj)
      /\ In(tobefnz') = In(tobefnz) \cup In(dead)
      /\ cycle' \in Nat /\ batch' \in [Obj -> Nat]
      /\ \A o \in Obj : batch'[o] <= cycle'
      /\ Later' = Later
  <2>1. In(dead) \subseteq In(finobj) /\ UNCHANGED <<markedat, clock>>
    BY <1>2, <1>3
  <2> QED BY <1>2, <1>3, <2>1, QueueOrder
<1>5. Types'
  <2>1. alive' \subseteq Obj
    BY <1>2 DEF Types
  <2> QED BY <1>2, <1>3, <1>4, <2>1 DEF Types
<1>6. Order'
  BY <1>2, <1>3, <1>4 DEF Order
<1>7. Count'
  <2>1. \A o \in Obj : tofinalize(o)' <=> tofinalize(o)
    BY <1>3, <1>4 DEF tofinalize
  <2> QED BY <1>2, <2>1 DEF Count
<1>8. Ending'
  BY <1>2 DEF Ending
<1>9. Safe'
  <2>1. PICK T \in SUBSET alive : ClosedSet(T) /\ Holds \subseteq T
    BY <1>2 DEF Safe
  <2>2. /\ ClosedSet(kept) /\ roots \subseteq kept
        /\ ClosedSet(queue) /\ In(tobefnz') \subseteq queue
    <3>1. roots \cup old \in SUBSET Obj /\ In(tobefnz') \in SUBSET Obj
      BY <1>4, InType DEF Types
    <3> QED BY <3>1, ReachClosed DEF kept, queue
  <2> PICK U : U = T \cap (kept \cup queue)
    OBVIOUS
  <2>3. U \in SUBSET alive' /\ ClosedSet(U)'
    <3>1. U \in SUBSET alive'
      BY <1>2, <2>1
    <3>2. ASSUME NEW q \in U
          PROVE  refs[q] \subseteq U
      BY <2>1, <2>2 DEF ClosedSet
    <3>3. U \in SUBSET Obj /\ refs' = refs
      BY <1>2, <2>1 DEF ClosedSet
    <3> QED BY <3>1, <3>2, <3>3 DEF ClosedSet
  <2>4. Holds' \subseteq U
    BY <1>2, <1>3, <1>4, <2>1, <2>2 DEF Holds
  <2>5. \E V \in SUBSET alive' : ClosedSet(V)' /\ Holds' \subseteq V
    BY <2>3, <2>4
  <2> QED BY <2>5 DEF Safe
<1> QED BY <1>5, <1>6, <1>7, <1>8, <1>9

\* GCTM keeps it, whether the object is kept, marked again or neither.
LEMMA CallFinalizerStep ==
  FinalizerInv /\ CallFinalizer => FinalizerInv'
<1> SUFFICES ASSUME FinalizerInv, CallFinalizer PROVE FinalizerInv'
  OBVIOUS
<1> USE DEF FinalizerInv, metatables
<1> PICK o : o = Head(tobefnz)
  OBVIOUS
<1>1. /\ phase \in {"callfin", "closing"} /\ tobefnz # << >>
      /\ tobefnz' = Tail(tobefnz) /\ calls' = [calls EXCEPT ![o] = @ + 1]
      /\ UNCHANGED <<refs, metatables, alive, phase, cycle, batch>>
  BY DEF CallFinalizer
<1>2. /\ roots' = roots \/ roots' = roots \cup {o}
      /\ Leaves \/ (Marks(o) /\ phase # "closing")
  BY CheckFinalizerCases DEF CallFinalizer, Leaves
<1>3. /\ tobefnz' \in Seq(Obj) /\ Sorted(tobefnz', Queued)
      /\ In(tobefnz) = {o} \cup In(tobefnz') /\ o \in Obj
      /\ o \notin In(tobefnz') /\ o \notin In(finobj)
  <2>1. tobefnz \in Seq(Obj) /\ Sorted(tobefnz, Queued)
    BY DEF Types, Order
  <2>2. /\ Sorted(Tail(tobefnz), Queued)
        /\ {o} \X In(Tail(tobefnz)) \subseteq Queued
    BY <1>1, <2>1, SortedTail
  <2>3. In(tobefnz) = {o} \cup In(Tail(tobefnz))
    BY <1>1, <2>1, InHeadTail
  <2>4. o \in Obj /\ Tail(tobefnz) \in Seq(Obj)
    BY <1>1, <2>1
  <2>5. <<o, o>> \notin Queued
    BY <2>4, SMTT(30) DEF Queued, Types
  <2>6. o \notin In(Tail(tobefnz))
    BY <2>2, <2>5
  <2>7. o \notin In(finobj)
    BY <2>3 DEF Order
  <2> QED BY <1>1, <2>2, <2>3, <2>4, <2>6, <2>7
<1>a. /\ roots' \subseteq Obj /\ calls' \in [Obj -> Nat]
      /\ \A q \in Obj : calls'[q] = IF q = o THEN calls[q] + 1 ELSE calls[q]
  BY <1>1, <1>2, <1>3, SMTT(30) DEF Types
<1>b. /\ phase \in {"callfin", "closing"}
      /\ UNCHANGED <<refs, metatables, alive, phase, cycle, batch>>
  BY <1>1
<1>4. Safe'
  <2>1. PICK T \in SUBSET alive : ClosedSet(T) /\ Holds \subseteq T
    BY <1>1 DEF Safe
  <2>2. In(finobj') \subseteq In(finobj) \cup {o}
    <3>1. finobj \in Seq(Obj)
      BY DEF Types
    <3>2. In(<<o>> \o finobj) = In(finobj) \cup {o}
      BY <1>3, <3>1, InCons
    <3> QED BY <1>2, <3>2, Zenon DEF Leaves, Marks
  <2>3. ClosedSet(T)' /\ Holds' \subseteq T
    BY <1>1, <1>2, <1>3, <2>1, <2>2 DEF ClosedSet, Holds
  <2> QED BY <1>1, <2>1, <2>3 DEF Safe
<1>5. CASE Leaves
  <2>1. Types'
    BY <1>a, <1>b, <1>3, <1>5 DEF Leaves, Types
  <2>2. Order'
    BY <1>1, <1>3, <1>5 DEF Leaves, Order, Later, Queued
  <2>3. Count'
    <3>1. \A q \in Obj : tofinalize(q)' <=> tofinalize(q) /\ q # o
      BY <1>3, <1>5 DEF Leaves, tofinalize
    <3>2. tofinalize(o) /\ o \in Obj
      BY <1>3 DEF tofinalize
    <3>3. ASSUME NEW q \in Obj
          PROVE  marks'[q] = calls'[q] + (IF tofinalize(q)' THEN 1 ELSE 0)
      <4>1. /\ marks'[q] = marks[q] /\ marks[q] \in Nat /\ calls[q] \in Nat
            /\ marks[q] = calls[q] + (IF tofinalize(q) THEN 1 ELSE 0)
            /\ calls'[q] = IF q = o THEN calls[q] + 1 ELSE calls[q]
        BY <1>5, <1>a DEF Leaves, Count, Types
      <4>2. CASE q = o
        BY <3>1, <3>2, <4>1, <4>2
      <4>3. CASE q # o
        BY <3>1, <4>1, <4>3
      <4> QED BY <4>2, <4>3
    <3> QED BY <3>3 DEF Count
  <2>4. Ending'
    BY <1>1, <1>5 DEF Leaves, Ending
  <2> QED BY <1>4, <2>1, <2>2, <2>3, <2>4
<1>6. CASE Marks(o) /\ phase # "closing"
  <2>1. batch' = batch
    BY <1>1
  <2>2. /\ Sorted(finobj', Later') /\ Sorted(tobefnz', Queued')
        /\ finobj' \in Seq(Obj) /\ In(finobj') = In(finobj) \cup {o}
        /\ clock' \in Nat /\ markedat' \in [Obj -> Nat]
        /\ \A q \in Obj : markedat'[q] <= clock'
    <3> DEFINE t == tobefnz'
    <3> HIDE DEF t
    <3>1. t \in Seq(Obj) /\ o \notin In(t) /\ Sorted(t, Queued)
      BY <1>3 DEF t
    <3>2. /\ Sorted(finobj', Later') /\ Sorted(Tail(tobefnz), Queued')
          /\ finobj' \in Seq(Obj) /\ In(finobj') = In(finobj) \cup {o}
          /\ clock' \in Nat /\ markedat' \in [Obj -> Nat]
          /\ \A q \in Obj : markedat'[q] <= clock'
      BY <1>1, <1>3, <1>6, <2>1, MarksOrder
    <3> QED BY <1>1, <3>2
  <2>3. marks' = [marks EXCEPT ![o] = @ + 1]
    BY <1>6 DEF Marks
  <2>a. marks' \in [Obj -> Nat]
    BY <1>3, <2>3 DEF Types
  <2>4. Types'
    BY <2>a, <1>a, <1>b, <1>3, <2>2, <2>3 DEF Types
  <2>5. Order'
    BY <1>1, <1>3, <2>2 DEF Order
  <2>6. Count'
    BY <1>a, <1>3, <2>2, <2>3 DEF Count, tofinalize, Types
  <2>7. Ending'
    BY <1>1, <1>6 DEF Ending
  <2> QED BY <1>4, <2>4, <2>5, <2>6, <2>7
<1> QED BY <1>2, <1>5, <1>6
\* The end of a cycle keeps it.
LEMMA EndCycleStep ==
  FinalizerInv /\ EndCycle => FinalizerInv'
<1> SUFFICES ASSUME FinalizerInv, EndCycle PROVE FinalizerInv'
  OBVIOUS
<1> USE DEF FinalizerInv, EndCycle, graph, metatables
<1>1. Types' /\ Order' /\ Count' /\ Ending'
  BY DEF Types, Order, Count, Ending, Later, Queued, tofinalize
<1>2. Safe'
  BY DEF Safe, ClosedSet, Holds
<1> QED BY <1>1, <1>2

\* lua_close keeps it: all of finobj goes to tobefnz.
LEMMA CloseStep ==
  FinalizerInv /\ Close => FinalizerInv'
<1> SUFFICES ASSUME FinalizerInv, Close PROVE FinalizerInv'
  OBVIOUS
<1> USE DEF FinalizerInv, graph, metatables
<1>1. /\ phase \in {"pause", "callfin"} /\ phase' = "closing" /\ cycle' = cycle + 1
      /\ tobefnz' = QueueLast(finobj) /\ finobj' = << >>
      /\ batch' = [o \in Obj |-> IF o \in In(finobj) THEN cycle + 1 ELSE batch[o]]
      /\ UNCHANGED <<graph, metatables, alive, marks, calls, clock, markedat>>
  BY DEF Close
<1>2. /\ Sorted(tobefnz', Queued') /\ tobefnz' \in Seq(Obj)
      /\ In(tobefnz') = In(tobefnz) \cup In(finobj)
      /\ cycle' \in Nat /\ batch' \in [Obj -> Nat]
      /\ \A o \in Obj : batch'[o] <= cycle'
  <2>1. finobj \in Seq(Obj) /\ Sorted(finobj, Later)
    BY DEF Types, Order
  <2>2. UNCHANGED <<markedat, clock>>
    BY <1>1
  <2> QED BY <1>1, <2>1, <2>2, QueueOrder
<1>3. In(finobj') = {}
  BY <1>1, InEmpty
<1>4. Types'
  BY <1>1, <1>2 DEF Types
<1>5. Order'
  <2>1. Sorted(finobj', Later')
    BY <1>1 DEF Sorted
  <2> QED BY <1>1, <1>2, <1>3, <2>1 DEF Order
<1>6. Count'
  <2>1. \A o \in Obj : tofinalize(o)' <=> tofinalize(o)
    BY <1>2, <1>3 DEF tofinalize
  <2> QED BY <1>1, <2>1 DEF Count
<1>7. Ending'
  BY <1>1 DEF Ending
<1>8. Safe'
  <2>1. PICK T \in SUBSET alive : ClosedSet(T) /\ Holds \subseteq T
    BY <1>1 DEF Safe
  <2>2. ClosedSet(T)' /\ Holds' \subseteq T /\ alive' = alive
    BY <1>1, <1>2, <1>3, <2>1 DEF ClosedSet, Holds
  <2> QED BY <2>1, <2>2 DEF Safe
<1> QED BY <1>4, <1>5, <1>6, <1>7, <1>8

\* The last frees keep it: nothing waits for a finalizer any more.
LEMMA FreeAllStep ==
  FinalizerInv /\ FreeAll => FinalizerInv'
<1> SUFFICES ASSUME FinalizerInv, FreeAll PROVE FinalizerInv'
  OBVIOUS
<1> USE DEF FinalizerInv, FreeAll, graph, metatables
<1>1. Types' /\ Order' /\ Count' /\ Ending' /\ Safe'
  BY DEF Types, Order, Count, Ending, Safe, Later, Queued, tofinalize
<1> QED BY <1>1

(* What the loader registers when nothing is at stake is what was           *)
(* registered: one object, or none.                                         *)
LEMMA RegisteredAgain ==
  ASSUME Types, Order, NothingAtStake, NEW ids \in IdOrders(Reach(roots))
  PROVE  /\ Registered(ids) \in Seq(Obj) /\ In(Registered(ids)) = In(finobj)
         /\ Sorted(Registered(ids), Later) /\ In(finobj) \subseteq Reach(roots)
<1> DEFINE S == Reach(roots)
           n == Cardinality(S)
           G == { o \in Obj : meta[o] \in hasgc }
           kept == Keep(ids, G)
<1>1. IsFiniteSet(S) /\ n \in Nat /\ S \subseteq Obj
  <2>1. S \subseteq Obj
    BY DEF Reach
  <2> HIDE DEF S
  <2> QED BY <2>1, FinalizerAssumption, FS_Subset, FS_CardinalityType
<1>2. ids \in [1..n -> S] /\ \A i, j \in 1..n : i < j => ids[i] # ids[j]
  BY DEF IdOrders
<1> HIDE DEF S, n, G
<1>3. In(ids) = S
  <2>1. ids \in Injection(1..n, S)
    BY <1>1, <1>2 DEF Injection, IsInjective
  <2>2. Cardinality(1..n) = n
    BY <1>1, FS_Interval
  <2>3. ids \in Surjection(1..n, S)
    BY <1>1, <2>1, <2>2, FS_Injection DEF n
  <2> QED BY <1>2, <2>3 DEF Surjection, In
<1>4. ids \in Seq(S) /\ Len(ids) = n
  BY <1>1, <1>2
<1>5. kept \in Seq(S) /\ In(kept) = S \cap G /\ Follows(kept, ids, n)
  BY <1>3, <1>4, KeepFacts
<1> HIDE DEF kept
<1>6. S \cap G = In(finobj)
  BY <1>1 DEF NothingAtStake, S, G
<1>7. Len(kept) <= 1
  <2> SUFFICES ASSUME Len(kept) > 1 PROVE FALSE
    BY <1>5
  <2>1. 1 \in DOMAIN kept /\ 2 \in DOMAIN kept /\ 1 < 2
    BY <1>5
  <2>2. PICK a \in 1..n, b \in 1..n : a < b /\ kept[1] = ids[a] /\ kept[2] = ids[b]
    BY <1>5, <2>1 DEF Follows
  <2>3. kept[1] # kept[2]
    BY <1>2, <2>2
  <2>4. kept[1] \in In(finobj) /\ kept[2] \in In(finobj)
    BY <1>5, <1>6, <2>1 DEF In
  <2>5. DOMAIN finobj \subseteq {1}
    BY DEF NothingAtStake, Types
  <2> QED BY <2>3, <2>4, <2>5 DEF In
<1>8. Registered(ids) = [i \in DOMAIN kept |-> kept[Len(kept) + 1 - i]]
  BY DEF Registered, kept, G
<1>9. Registered(ids) = kept
  <2>1. \A i \in DOMAIN kept : Len(kept) + 1 - i = i
    BY <1>5, <1>7
  <2>2. kept = [i \in DOMAIN kept |-> kept[i]]
    BY <1>5
  <2> QED BY <1>8, <2>1, <2>2
<1>10. Sorted(kept, Later)
  <2>1. \A i, j \in DOMAIN kept : ~(i < j)
    BY <1>5, <1>7
  <2> QED BY <2>1 DEF Sorted
<1>11. kept \in Seq(Obj)
  BY <1>1, <1>5
<1> QED BY <1>5, <1>6, <1>9, <1>10, <1>11 DEF S

\* Saving and loading keep it where nothing is at stake.
LEMMA SaveLoadStep ==
  FinalizerInv /\ NothingAtStake /\ SaveLoad => FinalizerInv'
<1> SUFFICES ASSUME FinalizerInv, NothingAtStake, SaveLoad PROVE FinalizerInv'
  OBVIOUS
<1> USE DEF FinalizerInv, graph, metatables
<1>1. PICK ids \in IdOrders(Reach(roots)) : finobj' = Registered(ids)
  BY DEF SaveLoad
<1>2. /\ phase \in {"pause", "callfin"} /\ phase' = "pause"
      /\ tobefnz' = << >> /\ tobefnz = << >> /\ alive' = Reach(roots)
      /\ UNCHANGED <<graph, metatables, marks, calls, clock, markedat, cycle, batch>>
  BY DEF SaveLoad, NothingAtStake
<1>3. /\ finobj' \in Seq(Obj) /\ In(finobj') = In(finobj) /\ In(tobefnz') = {}
      /\ In(tobefnz) = {} /\ Sorted(finobj', Later) /\ In(finobj) \subseteq Reach(roots)
  BY <1>1, <1>2, RegisteredAgain, InEmpty
<1>4. ClosedSet(Reach(roots)) /\ roots \subseteq Reach(roots)
  BY ReachClosed DEF Types
<1>5. Types'
  BY <1>2, <1>3, <1>4 DEF Types, ClosedSet
<1>6. Order'
  BY <1>2, <1>3 DEF Order, Later, Queued, Sorted
<1>7. Count'
  <2>1. \A o \in Obj : tofinalize(o)' <=> tofinalize(o)
    BY <1>3 DEF tofinalize
  <2> QED BY <1>2, <2>1 DEF Count
<1>8. Ending'
  BY <1>2 DEF Ending
<1>9. Safe'
  <2> PICK T : T = Reach(roots)
    OBVIOUS
  <2>1. T \in SUBSET alive' /\ ClosedSet(T)' /\ Holds' \subseteq T
    BY <1>2, <1>3, <1>4 DEF ClosedSet, Holds
  <2> QED BY <2>1 DEF Safe
<1> QED BY <1>5, <1>6, <1>7, <1>8, <1>9
-----------------------------------------------------------------------------
(* No step leaves the invariant.                                            *)
LEMMA FinalizerStep ==
  FinalizerInv /\ [PlainNext]_vars => FinalizerInv'
<1> SUFFICES ASSUME FinalizerInv, [PlainNext]_vars PROVE FinalizerInv'
  OBVIOUS
<1>1. CASE UNCHANGED vars
  BY <1>1 DEF vars, FinalizerInv, Types, Order, Count, Ending, Safe, Later, Queued,
              tofinalize, ClosedSet, Holds
<1> QED BY <1>1, SetMetatableStep, SetGCFieldStep, MutateStep, CollectStep,
           CallFinalizerStep, EndCycleStep, CloseStep, FreeAllStep, SaveLoadStep
        DEF PlainNext, Next

(* What the invariant says of the three properties.                         *)
LEMMA FinalizerInvImplies ==
  FinalizerInv => FinalizedOncePerMark /\ ReverseOrder /\ NothingDangles
<1> SUFFICES ASSUME FinalizerInv
             PROVE  FinalizedOncePerMark /\ ReverseOrder /\ NothingDangles
  OBVIOUS
<1> USE DEF FinalizerInv
<1>1. FinalizedOncePerMark
  BY ListedOnce DEF FinalizedOncePerMark, Count, Ending
<1>2. ReverseOrder
  BY DEF ReverseOrder, Order, Sorted, Later, Queued
<1>3. NothingDangles
  BY SafeIsNothingDangles
<1> QED BY <1>1, <1>2, <1>3

(* In every state of a program with finalizers that is saved and loaded     *)
(* where nothing is at stake, the invariant holds.                          *)
THEOREM PlainFinalizers == PlainSpec => []FinalizerInv
  BY FinalizerInit, FinalizerStep, PTL DEF PlainSpec

(* Every object is finalized once per marking; the lists are empty at the   *)
(* end.                                                                     *)
THEOREM PlainFinalizedOnce == PlainSpec => []FinalizedOncePerMark
  BY PlainFinalizers, FinalizerInvImplies, PTL

(* Finalizers run in the reverse order of the marking.                      *)
THEOREM PlainReverseOrder == PlainSpec => []ReverseOrder
  BY PlainFinalizers, FinalizerInvImplies, PTL

(* No finalizer and no program meets a freed object.                        *)
THEOREM PlainNothingDangles == PlainSpec => []NothingDangles
  BY PlainFinalizers, FinalizerInvImplies, PTL
=============================================================================
