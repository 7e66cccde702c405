---------------------------- MODULE ThreadSnapshot ----------------------------
(***************************************************************************)
(* A coroutine that may be saved and loaded again whenever it is not        *)
(* running: what wobj_thread writes of it and fill_thread makes of that on  *)
(* a thread lua_newthread has just created.                                 *)
(***************************************************************************)
EXTENDS LuaThread

\* wobj_thread: u2 is written only for a frame whose status says that it is
\* live.  CIST_YPCALL is such a status; OP_RETURN sets none.
Written(f) == [f EXCEPT !.u2 = IF f.ypcall THEN f.u2 ELSE 0]

\* fill_thread: the stack is reallocated when the saved values do not fit;
\* the list of to-be-closed variables and errfunc are a fresh thread's.
SaveLoadThread ==
  /\ ~running
  /\ size' = IF top > Basic THEN top + 4 ELSE Basic
  /\ frames' = [i \in DOMAIN frames |-> Written(frames[i])]
  /\ tbclist' = << >>
  /\ errfunc' = 0
  /\ UNCHANGED <<status, running, top, openupval, history>>

ThreadSnapshotNext == NextThread \/ SaveLoadThread

ThreadSnapshotSpec == InitThread /\ [][ThreadSnapshotNext]_threadVars

\* Programs a snapshot carries over whole: no variable pending to be closed,
\* no handler installed and room for the frames in what fill_thread gives.
NothingToLose ==
  /\ tbclist = << >> /\ errfunc = 0
  /\ \A i \in DOMAIN frames : frames[i].doing # "return"
  /\ \A i \in DOMAIN frames :
       frames[i].top <= IF top > Basic THEN top + 4 ELSE Basic

ThreadPlainNext == NextThread \/ (NothingToLose /\ SaveLoadThread)
ThreadPlainSpec == InitThread /\ [][ThreadPlainNext]_threadVars

=============================================================================
