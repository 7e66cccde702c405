----------------------------- MODULE StasisLoad -----------------------------
(***************************************************************************)
(* lstasis_load: the records are indexed, a fresh state is created with the *)
(* collector stopped, pass 1 makes a blank object for every record, pass    *)
(* 1.5 restores allocation numbers, passes 2a-2g fill the objects kind by   *)
(* kind, pass 2h repairs metamethod caches and registers finalizers, and    *)
(* only then are the roots installed and the collector restarted.  A        *)
(* failure before the state exists returns NULL; one after it closes the    *)
(* state first.                                                             *)
(*                                                                          *)
(* A stopped collector takes no step, but a request for memory that fails   *)
(* at first runs a whole collection whatever the program has asked for, and *)
(* is fatal when it fails again: no protected call is there to catch it.    *)
(* What the load does with an object that was freed under it is undefined,  *)
(* and the model ends there.                                                *)
(*                                                                          *)
(* An object of the new state is its id.  Reading past the end of a         *)
(* malformed buffer is not modelled: the snapshots are those a save wrote.  *)
(***************************************************************************)
EXTENDS Naturals, Sequences, FiniteSets

CONSTANTS
  FnOf,       \* the load-side map of C functions: name -> function or Absent
  Konts,      \* the names lstasis_builtin_konts lists in the loading program
  Absent,
  FreshSeq    \* allocations a fresh state has made before pass 1

VARIABLES
  stream, footer,   \* the snapshot: records in id order, ids of the roots
  seqs, next_seq,   \* its allocation numbers (objids) and counter
  lpc,              \* the pass lstasis_load is in
  at,               \* next record of the pass
  made,             \* id_to_ptr: the ids an object exists for
  filled,           \* the ids whose object is filled
  body,             \* what the places of a filled object hold
  obj_seq,          \* allocation number of each object made
  L, L_seq,         \* the new state ("none", "open", "closed"), its counter
  gcstopped,
  cached,           \* tables whose flags say that no metamethod is present
  finobj,           \* objects registered for finalization, in order
  globals,          \* the roots installed in the new state
  lerror,
  shortage,         \* a request for memory has failed at first
  freed             \* the ids whose object a collection freed

lvars == <<stream, footer, seqs, next_seq, lpc, at, made, filled, body, obj_seq,
           L, L_seq, gcstopped, cached, finobj, globals, lerror, shortage, freed>>
snapshot == <<stream, footer, seqs, next_seq>>
objects  == <<made, filled, body, obj_seq>>
state    == <<L, L_seq, gcstopped, cached, finobj, globals>>
memory   == <<shortage, freed>>

FillPasses == <<"2a", "2b", "2c", "2d", "2e", "2f main", "2f", "2g">>
FillKind == [ p \in {"2a", "2b", "2c", "2d", "2e", "2f main", "2f", "2g"} |->
              CASE p = "2a" -> "proto"    [] p = "2b" -> "closed upval"
                [] p = "2c" -> "lclosure" [] p = "2d" -> "cclosure"
                [] p = "2e" -> "table"    [] p = "2g" -> "userdata"
                [] OTHER -> "thread" ]

Ids == 1..Len(stream)
main_thread_id == footer[2]

\* The type code of a record; upvalues have two.
Code(k) ==
  IF stream[k].kind # "upval" THEN stream[k].kind
  ELSE IF \E i \in DOMAIN stream[k].places : stream[k].places[i].role = "open"
       THEN "open upval" ELSE "closed upval"

\* des_fail: the first failure wins.
Fails(reason) == IF lerror = "none" THEN reason ELSE lerror

LInit ==
  /\ lpc = "header" /\ at = 1
  /\ made = {} /\ filled = {} /\ body = << >> /\ obj_seq = << >>
  /\ L = "none" /\ L_seq = 0 /\ gcstopped = FALSE
  /\ cached = {} /\ finobj = << >> /\ globals = << >>
  /\ lerror = "none" /\ shortage = FALSE /\ freed = {}

\* What an object refers to, as far as it is filled; a dead key holds nothing.
Refers(b, k) == { b[k][i][2] : i \in { j \in DOMAIN b[k] :
                    b[k][j][1] = "obj" /\ stream[k].places[j].role # "deadkey" } }

\* The objects of the id table a collection frees: the fresh registry leads to
\* the main thread, and no farther than that thread and the others are filled.
Garbage(held, b) ==
  { k \in held : \E S \in SUBSET held :
      /\ held \cap {main_thread_id} \subseteq S /\ k \notin S
      /\ \A j \in S : Refers(b, j) \cap held \subseteq S }

\* Requests for memory while the heap is as one of the given sets of garbage
\* says: they are served, or served after an emergency collection (luaC_fullgc
\* does not look at gcstp), or never, and luaM_error finds nobody to catch it.
Requests(garbage) ==
  { <<lpc, shortage, freed>>, <<"aborted", TRUE, freed>> }
    \cup { <<lpc, TRUE, G>> : G \in garbage }

Meets(requests) ==
  \E r \in requests : lpc' = r[1] /\ shortage' = r[2] /\ freed' = r[3]

\* Header and footer, and the object index; malloc may fail.
ReadIndex ==
  /\ lpc = "header"
  /\ \/ lpc' = "newstate" /\ UNCHANGED lerror
     \/ lpc' = "failed" /\ lerror' = Fails("memory")
  /\ UNCHANGED <<snapshot, at, objects, state, memory>>

\* Mutant: the collector is left running.
NewStateCollecting ==
  /\ lpc = "newstate"
  /\ lpc' = "idtable" /\ L' = "open" /\ L_seq' = FreshSeq
  /\ UNCHANGED <<snapshot, at, objects, gcstopped, cached, finobj, globals,
                 lerror, memory>>

\* lua_newstate with the saved seed, and lua_gc(L, LUA_GCSTOP).
NewState ==
  /\ lpc = "newstate"
  /\ \/ /\ lpc' = "idtable" /\ L' = "open" /\ L_seq' = FreshSeq
        /\ gcstopped' = TRUE /\ UNCHANGED lerror
     \/ /\ lpc' = "failed" /\ lerror' = Fails("memory")
        /\ UNCHANGED <<L, L_seq, gcstopped>>
  /\ UNCHANGED <<snapshot, at, objects, cached, finobj, globals, memory>>

\* The id table; the main thread's id, which has to be a thread's, is an alias
\* of the new state's own.
IdTable ==
  LET astray == /\ main_thread_id # 0
                /\ main_thread_id \in Ids => Code(main_thread_id) # "thread" IN
  /\ lpc = "idtable"
  /\ \/ /\ ~astray /\ lpc' = "1" /\ made' = {main_thread_id} \ {0}
        /\ body' = [k \in Ids |-> << >>] /\ obj_seq' = [k \in Ids |-> 0]
        /\ UNCHANGED lerror
     \/ /\ lpc' = "fail_L"
        /\ lerror' \in {Fails("memory")} \cup IF astray THEN {Fails("id")} ELSE {}
        /\ UNCHANGED <<made, body, obj_seq>>
  /\ UNCHANGED <<snapshot, at, filled, state, memory>>

\* What the requests for a blank object may meet: prototypes and tables ask for
\* more once the object itself is there; only lua_newthread, which anchors its
\* object in the stack, lets a collector that is not stopped take a step.
CreateRequests(k) ==
  Requests({Garbage(made, body)}
    \cup IF Code(k) \in {"proto", "table"}
         THEN {Garbage(made \cup {k}, body)} ELSE {})
  \cup IF Code(k) = "thread" /\ ~gcstopped
       THEN {<<lpc, shortage, Garbage(made, body)>>} ELSE {}

\* Pass 1: a blank object; allocation takes the fresh state's next number,
\* and a new table's flags start with every metamethod marked absent.
Create ==
  /\ lpc = "1" /\ at \in Ids
  /\ at' = at + 1
  /\ IF at = main_thread_id
     THEN UNCHANGED <<lpc, made, obj_seq, L_seq, cached, memory>>
     ELSE /\ Meets(CreateRequests(at))
          /\ made' = made \cup {at}
          /\ obj_seq' = [obj_seq EXCEPT ![at] = L_seq]
          /\ L_seq' = L_seq + 1
          /\ cached' = IF stream[at].kind = "table" THEN cached \cup {at}
                                                    ELSE cached
  /\ UNCHANGED <<snapshot, filled, body, L, gcstopped, finobj, globals,
                 lerror>>

\* Mutant: coroutines keep the number of their allocation.
RestoreObjidsButThreads ==
  /\ lpc = "1" /\ at \notin Ids
  /\ obj_seq' = [k \in Ids |-> IF k \in made /\ stream[k].kind # "thread"
                               THEN seqs[k] ELSE obj_seq[k]]
  /\ lpc' = FillPasses[1] /\ at' = 1
  /\ UNCHANGED <<snapshot, made, filled, body, state, lerror, memory>>

\* Pass 1.5: the saved allocation numbers.
RestoreObjids ==
  /\ lpc = "1" /\ at \notin Ids
  /\ obj_seq' = [k \in Ids |-> IF k \in made THEN seqs[k] ELSE obj_seq[k]]
  /\ lpc' = FillPasses[1] /\ at' = 1
  /\ UNCHANGED <<snapshot, made, filled, body, state, lerror, memory>>

\* Mutant: the code of a call frame is expected to be a closure.
ExpectedClosure ==
  [meta |-> {"table"}, inner |-> {"proto"}, proto |-> {"proto"},
   frame |-> {"lclosure"}, upref |-> {"open upval", "closed upval"},
   openuv |-> {"open upval"}, name |-> {"string"}]

\* The type codes a role's id may have (resolve_obj_id's "expected"), if any.
Expected ==
  [meta |-> {"table"}, inner |-> {"proto"}, proto |-> {"proto"},
   frame |-> {"proto"}, upref |-> {"open upval", "closed upval"},
   openuv |-> {"open upval"}, name |-> {"string"}]

\* resolve_obj_id, and ds_read_tv's check of a value's tag: a bad id is an error;
\* the id of an object that was never made would quietly be nil.
BadId(p) ==
  /\ p.val[1] = "id" /\ p.val[2] # 0
  /\ \/ p.val[2] \notin Ids
     \/ p.role \in DOMAIN Expected /\ Code(p.val[2]) \notin Expected[p.role]
     \/ p.tag # "none" /\ stream[p.val[2]].kind # p.tag

\* ds_read_tv and the pointers the fill functions read.
Fault(p) ==
  CASE BadId(p) -> "id"
    [] p.val[1] = "cfn" /\ FnOf[p.val[2]] = Absent -> "C function"
    [] p.val[1] = "kont" /\ p.val[2] \notin Konts -> "continuation"
    [] OTHER -> "none"

\* Mutant: ids counted from 0.
LoadedFromZero(p) ==
  CASE Fault(p) # "none" -> <<"nil">>
    [] p.val[1] = "id" -> IF p.val[2] - 1 \in made THEN <<"obj", p.val[2] - 1>>
                                                   ELSE <<"nil">>
    [] p.val[1] = "cfn" -> <<"cfn", FnOf[p.val[2]]>>
    [] OTHER -> p.val

Loaded(p) ==
  CASE Fault(p) # "none" -> <<"nil">>
    [] p.val[1] = "id" -> IF p.val[2] \in made THEN <<"obj", p.val[2]>>
                                               ELSE <<"nil">>
    [] p.val[1] = "cfn" -> <<"cfn", FnOf[p.val[2]]>>
    [] OTHER -> p.val

\* The errors filling a record raises; the first one is kept.
FillFaults(k) ==
  LET ps == stream[k].places
      bad == { i \in DOMAIN ps : Fault(ps[i]) # "none" } IN
    IF bad = {} THEN {lerror}
    ELSE { Fails(Fault(ps[i])) : i \in { j \in bad : \A m \in bad : j <= m } }

\* Prototypes ask for memory while nothing leads to them; threads do for their
\* stack before it is filled and for their frames after it, their open upvalues
\* not being linked yet.
FillRequests(k, places) ==
  LET stack == [i \in DOMAIN places |->
                  IF stream[k].places[i].role = "stack" THEN places[i]
                                                        ELSE <<"nil">>] IN
    IF Code(k) \notin {"proto", "thread"} THEN {<<lpc, shortage, freed>>}
    ELSE Requests({Garbage(made, body)}
           \cup IF Code(k) = "thread"
                THEN {Garbage(made, [body EXCEPT ![k] = stack])} ELSE {})

FillRecord(k) ==
  LET places == [i \in DOMAIN stream[k].places |->
                   Loaded(stream[k].places[i])] IN
    /\ filled' = filled \cup {k}
    /\ body' = [body EXCEPT ![k] = places]
    /\ lerror' \in FillFaults(k)
    /\ Meets(FillRequests(k, places))

\* One record of a pass: filled when it is of the pass's kind.  Errors are
\* latched and the passes go on; only the userdata pass leaves its loop.
FillOf(p) ==
  LET mine == /\ Code(at) = FillKind[p]
              /\ p = "2f main" <=> at = main_thread_id IN
  /\ lpc = p /\ at \in Ids
  /\ IF mine THEN FillRecord(at)
             ELSE UNCHANGED <<filled, body, lerror, lpc, memory>>
  /\ at' = IF mine /\ p = "2g" /\ lerror' # "none" THEN Len(stream) + 1
                                                   ELSE at + 1
  /\ UNCHANGED <<snapshot, made, obj_seq, state>>

\* Mutant: the pass over the userdata is never reached.
EndFillShort ==
  \E p \in 1..6 :
    /\ lpc = FillPasses[p] /\ at \notin Ids
    /\ lpc' = FillPasses[p + 1] /\ at' = 1
    /\ UNCHANGED <<snapshot, objects, state, lerror, memory>>

EndFill ==
  \E p \in 1..7 :
    /\ lpc = FillPasses[p] /\ at \notin Ids
    /\ lpc' = FillPasses[p + 1] /\ at' = 1
    /\ UNCHANGED <<snapshot, objects, state, lerror, memory>>

FillProtos    == FillOf("2a")
FillUpvals    == FillOf("2b")
FillLClosures == FillOf("2c")
FillCClosures == FillOf("2d")
FillTables    == FillOf("2e")
FillThreads   == FillOf("2f main") \/ FillOf("2f")
FillUserdata  == FillOf("2g")

\* Mutant: the caches of absent metamethods are not invalidated.
CheckOnly ==
  /\ lpc = "2g" /\ at \notin Ids
  /\ IF lerror # "none" THEN lpc' = "fail_L" /\ UNCHANGED at
                        ELSE lpc' = "2h" /\ at' = 1
  /\ UNCHANGED <<snapshot, objects, state, lerror, memory>>

\* After pass 2g: give up, or pass 2h's first loop, invalidateTMcache.
CheckAndRepairCaches ==
  /\ lpc = "2g" /\ at \notin Ids
  /\ IF lerror # "none"
     THEN lpc' = "fail_L" /\ UNCHANGED <<at, cached>>
     ELSE lpc' = "2h" /\ at' = 1 /\ cached' = {}
  /\ UNCHANGED <<snapshot, objects, L, L_seq, gcstopped, finobj, globals,
                 lerror, memory>>

\* The metatable an object was filled with, as a set of at most one id.
Metatables(k) ==
  { body[k][i][2] : i \in { j \in DOMAIN body[k] :
      stream[k].places[j].role = "meta" /\ body[k][j][1] = "obj" } }

\* luaC_checkfinalizer: gfasttm consults the cache before the fields.
Finalizable(k) ==
  /\ stream[k].kind \in {"table", "userdata"}
  /\ \E m \in Metatables(k) : m \notin cached /\ stream[m].gc

\* Pass 2h's second loop.
RegisterFinalizer ==
  /\ lpc = "2h" /\ at \in Ids
  /\ finobj' = IF Finalizable(at) THEN Append(finobj, at) ELSE finobj
  /\ at' = at + 1
  /\ UNCHANGED <<snapshot, lpc, objects, L, L_seq, gcstopped, cached, globals,
                 lerror, memory>>

\* Every root is resolved, before any is installed: the registry and the
\* metatables as tables; the main thread is there already.
BadRoot(r) ==
  /\ r # 2 /\ footer[r] # 0
  /\ footer[r] \in Ids => Code(footer[r]) # "table"

InstallRoots ==
  /\ lpc = "2h" /\ at \notin Ids
  /\ IF \E r \in DOMAIN footer : BadRoot(r)
     THEN /\ lpc' = "fail_L" /\ lerror' = Fails("id")
          /\ UNCHANGED <<globals, L_seq>>
     ELSE /\ globals' = footer /\ L_seq' = next_seq
          /\ lpc' = "restart" /\ UNCHANGED lerror
  /\ UNCHANGED <<snapshot, at, objects, L, gcstopped, cached, finobj, memory>>

RestartCollector ==
  /\ lpc = "restart"
  /\ gcstopped' = FALSE
  /\ lpc' = "loaded"
  /\ UNCHANGED <<snapshot, at, objects, L, L_seq, cached, finobj, globals,
                 lerror, memory>>

CloseState ==
  /\ lpc = "fail_L"
  /\ L' = "closed"
  /\ lpc' = "failed"
  /\ UNCHANGED <<snapshot, at, objects, L_seq, gcstopped, cached, finobj,
                 globals, lerror, memory>>

LStep == \/ ReadIndex \/ NewState \/ IdTable \/ Create \/ RestoreObjids
         \/ FillProtos \/ FillUpvals \/ FillLClosures \/ FillCClosures
         \/ FillTables \/ FillThreads \/ FillUserdata \/ EndFill
         \/ CheckAndRepairCaches \/ RegisterFinalizer \/ InstallRoots
         \/ RestartCollector \/ CloseState

LNext == freed = {} /\ LStep
-----------------------------------------------------------------------------

(* No collection frees an object that only the id table holds, unless a      *)
(* request for memory has failed: the one call of a pass that lets the      *)
(* collector take a step, lua_newthread, comes with many objects made.      *)
FreedOnlyInShortage == freed # {} => shortage

(* What the comment before lua_gc(L, LUA_GCRESTART) builds on: no collection *)
(* has taken any of the objects of the load since lua_newstate.             *)
NoneFreed == freed = {}

(* NULL is returned with the half-built state closed, before any finalizer  *)
(* of a half-built object was registered to run on closing; and a state is  *)
(* returned only complete: every object filled, its cache repaired, the     *)
(* collector running and every object with a finalizer registered once.     *)
AllOrNothing ==
  /\ lpc \in {"fail_L", "failed"} => finobj = << >> /\ lerror # "none"
  /\ lpc = "failed" => L # "open"
  /\ lpc = "loaded" =>
       /\ L = "open" /\ ~gcstopped /\ lerror = "none"
       /\ \A k \in Ids : Code(k) \in {"string", "open upval"} \/ k \in filled
       /\ \A k \in Ids :
            Cardinality({ n \in DOMAIN finobj : finobj[n] = k }) =
              IF /\ stream[k].kind \in {"table", "userdata"}
                 /\ \E m \in Metatables(k) : stream[m].gc
              THEN 1 ELSE 0

(* Allocation numbers: no two loaded objects share one, and none the new    *)
(* state will hand out from now on is taken.                                *)
ObjidsResume ==
  lpc = "loaded" =>
    /\ \A k \in Ids : obj_seq[k] < L_seq
    /\ \A j, k \in Ids : obj_seq[j] = obj_seq[k] => j = k
=============================================================================
