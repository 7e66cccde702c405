--------------------------- MODULE StasisRoundTrip ---------------------------
(***************************************************************************)
(* A save and a load of what it wrote, one after the other: the source      *)
(* state is heap, the loaded one the bodies StasisLoad filled.              *)
(***************************************************************************)
EXTENDS StasisSave

CONSTANTS FnOf,      \* the C functions the loading program's libs name
          FreshSeq

VARIABLES lpc, at, made, filled, body, obj_seq, L, L_seq, gcstopped, cached,
          finobj, globals, lerror, shortage, freed

loadvars == <<lpc, at, made, filled, body, obj_seq, L, L_seq, gcstopped, cached,
              finobj, globals, lerror, shortage, freed>>

Load == INSTANCE StasisLoad
          WITH Konts <- BuiltinKonts,
               seqs <- [k \in DOMAIN ordered |-> heap.seq[ordered[k]]],
               next_seq <- heap.next_seq

RTInit == Init /\ Load!LInit

SaveStep == Next /\ UNCHANGED loadvars
LoadStep == pc = "done" /\ UNCHANGED vars /\ Load!LNext

RTNext == SaveStep \/ LoadStep

RTSpec == RTInit /\ [][RTNext]_<<vars, loadvars>>
                 /\ WF_<<vars, loadvars>>(RTNext)
-----------------------------------------------------------------------------
Image(v) == IF v \in Obj THEN <<"obj", id[v]>>
            ELSE IF v \in CFunction THEN <<"cfn", v>> ELSE <<"scalar", v>>

\* The libs given to the load name the functions as those given to the save,
\* or not at all.
LibrariesAgree ==
  \A f \in CFunction : NameOf[f] # Absent => FnOf[NameOf[f]] \in {f, Absent}

(* A loaded state is the saved one: the same objects under the ids, every   *)
(* place with the image of what it held -- a cleared key too, when its      *)
(* object is in the snapshot -- and the same roots.                         *)
SameState ==
  lpc = "loaded" =>
    /\ \A o \in Known : \A i \in DOMAIN heap.places[o] :
         LET p == heap.places[o][i] IN
           stream[id[o]].kind # "string" /\ p.role \notin {"open", "kont"} =>
             body[id[o]][i] =
               IF p.val \in Obj => p.val \in Known
               THEN IF p.val = Absent THEN <<"nil">> ELSE Image(p.val)
               ELSE <<"nil">>
    /\ globals = [i \in DOMAIN heap.roots |-> ser_get_id(heap.roots[i])]

(* Every open upvalue of the loaded state is in the list of a thread of it, *)
(* the only place that says which stack slot holds its value.               *)
OpenUpvaluesOwned ==
  lpc = "loaded" =>
    \A o \in Known : (\E p \in Places(heap, o) : p.role = "open") =>
      \E t \in Known : \E i \in DOMAIN heap.places[t] :
        /\ heap.places[t][i].role = "openuv"
        /\ body[id[t]][i] = <<"obj", id[o]>>

(* The loader refuses nothing the saver writes: a load of a finished save   *)
(* fails for lack of memory, or because a C function that is saved has no   *)
(* name in the libraries of the loading program.                            *)
RefusedForCause ==
  /\ lerror \in {"none", "memory", "C function"}
  /\ lerror = "C function" =>
       \E o \in Known : \E p \in Places(heap, o) :
         /\ p.role \in Tagged \cup {"cfn"} /\ p.val \in CFunction
         /\ FnOf[NameOf[p.val]] = Absent

FreedOnlyInShortage == Load!FreedOnlyInShortage
NoneFreed == Load!NoneFreed
AllOrNothing == Load!AllOrNothing
ObjidsResume == Load!ObjidsResume

(* Save and load return, whatever fails on the way, unless the memory runs  *)
(* short in pass 1 or 2: that may end the program, or take away objects     *)
(* after which nothing is said of the load.                                 *)
RoundTripReturns ==
  <>(\/ pc = "failed" \/ lpc \in {"loaded", "failed"}
     \/ shortage /\ (lpc = "aborted" \/ freed # {}))
=============================================================================
