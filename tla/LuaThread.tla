------------------------------ MODULE LuaThread ------------------------------
(***************************************************************************)
(* One coroutine: its stack, its call frames, its open upvalues, its        *)
(* to-be-closed variables and its protected calls (ldo.c, lfunc.c, the      *)
(* thread half of lstate.c and the opcodes that reach them).                *)
(*                                                                          *)
(* A Lua function declares locals, captures them in closures, marks them    *)
(* to be closed, ends blocks, calls Lua functions, pcall, xpcall and yield, *)
(* returns, and may throw at any instruction.  A variable is a number: its  *)
(* place in the order of declaration.  Slots are offsets into the stack.    *)
(* A longjmp drops the C stack and leaves the frames; what an interrupted   *)
(* luaF_close still has to do is redone from the frame, so a close in       *)
(* progress is the frame's "doing" in both cases.                           *)
(***************************************************************************)
EXTENDS Naturals, Sequences, FiniteSets, Lists

CONSTANTS
  FrameSize,    \* maxstacksize of the Lua functions
  MinStack,     \* LUA_MINSTACK
  ExtraStack,   \* EXTRA_STACK
  MaxStack,     \* LUAI_MAXSTACK
  ErrorSpace,   \* STACKERRSPACE
  MaxFrames,    \* bound on the depth of the call chain
  MaxVars       \* bound on the variables declared

ASSUME ThreadAssumption ==
  /\ {FrameSize, MinStack, ExtraStack, MaxStack, ErrorSpace, MaxFrames,
      MaxVars} \subseteq Nat
  /\ FrameSize >= 3 /\ MinStack >= 3 /\ ExtraStack >= 5
  /\ MaxStack >= 2 * MinStack + FrameSize + 2

VARIABLES
  status,      \* L->status: "OK", "YIELD" or "ERR"
  running,     \* inside lua_resume
  size,        \* stacksize(L)
  top,         \* L->top
  frames,      \* base_ci .. L->ci
  openupval,   \* open upvalues, highest slot first
  tbclist,     \* to-be-closed variables, highest slot first
  errfunc,     \* slot of the message handler, or 0
  declared,    \* variables declared so far
  marked,      \* the variables ever marked to be closed
  taken,       \* the variables luaF_close has taken off the list, in order
  uncalled     \* those of them whose __close could not be called

threadVars == <<status, running, size, top, frames, openupval, tbclist, errfunc,
          declared, marked, taken, uncalled>>
history == <<declared, marked, taken, uncalled>>

Basic == 2 * MinStack    \* BASIC_STACK_SIZE
Bigger(m, n) == IF m > n THEN m ELSE n
Smaller(m, n) == IF m < n THEN m ELSE n

\* u2: the union u2 of a CallInfo (funcidx of a protected call, nres of a
\* return that closes variables); nres: what that return really owes.
Frame(kind, func, limit) ==
  [kind |-> kind, func |-> func, top |-> limit, u2 |-> 0, old_errfunc |-> 0,
   ypcall |-> FALSE, recst |-> FALSE, locals |-> << >>, doing |-> "run",
   nres |-> 0]

LuaFrame(func) == Frame("lua", func, func + 1 + FrameSize)

BaseFrame == Frame("base", 0, 1 + MinStack)

ci == frames[Len(frames)]
Replaced(f) == [frames EXCEPT ![Len(frames)] = f]
Callers == SubSeq(frames, 1, Len(frames) - 1)
InLua == running /\ ci.kind = "lua"
Executing == InLua /\ ci.doing = "run"
FirstFree == ci.func + 1 + Len(ci.locals)

\* lua_newthread, and the function coroutine.create moves into it.
InitThread ==
  /\ status = "OK" /\ running = FALSE
  /\ size = Basic /\ top = 2
  /\ frames = <<BaseFrame>>
  /\ openupval = << >> /\ tbclist = << >> /\ errfunc = 0
  /\ declared = 0 /\ marked = {} /\ taken = << >> /\ uncalled = {}

\* luaD_growstack, for n slots above t on a stack of s slots.
NewSize(s, t, n) == Bigger(Smaller(s + s \div 2, MaxStack), t + n)
Fits(s, t, n) == s - t > n
CanGrow(s, t, n) == s <= MaxStack /\ NewSize(s, t, n) <= MaxStack
Grown(s, t, n) == IF Fits(s, t, n) THEN s ELSE NewSize(s, t, n)

\* luaD_throw with the error object below t: the innermost protected call
\* suspended in a continuation recovers (precover, findpcall), or the thread
\* dies and lua_resume's caller takes the error object.
Throw(fs, t) ==
  LET calls == { i \in DOMAIN fs : fs[i].ypcall }
      at == CHOOSE i \in calls : \A j \in calls : j <= i IN
  IF calls # {}
  THEN /\ frames' = [SubSeq(fs, 1, at) EXCEPT ![at].recst = TRUE]
       /\ top' = t
       /\ UNCHANGED <<status, running>>
  ELSE /\ frames' = [fs EXCEPT ![Len(fs)].top = t + 1]
       /\ top' = t
       /\ status' = "ERR" /\ running' = FALSE

\* luaD_growstack past the limit: the extra space, and "stack overflow" or
\* "error in error handling".
Overflow(fs, s, t) ==
  /\ size' = IF s > MaxStack THEN s ELSE MaxStack + ErrorSpace
  /\ Throw(fs, t + 1)

\* luaD_precall of a Lua function without parameters.
Room(s, t) == Fits(s, t, FrameSize) \/ CanGrow(s, t, FrameSize)
PrecallLua(fs, s, func, t) ==
  IF Room(s, t)
  THEN /\ frames' = Append(fs, LuaFrame(func))
       /\ size' = Grown(s, t, FrameSize)
       /\ top' = t
       /\ UNCHANGED <<status, running>>
  ELSE Overflow(fs, s, t)
-----------------------------------------------------------------------------
\* lua_resume of a coroutine that has not started, and of a suspended one.
Start ==
  /\ ~running /\ status = "OK" /\ Len(frames) = 1 /\ top = 2
  /\ running' = TRUE
  /\ frames' = Append(frames, LuaFrame(1))
  /\ size' = Grown(size, top, FrameSize)
  /\ UNCHANGED <<status, top, openupval, tbclist, errfunc, history>>

Resume ==
  /\ ~running /\ status = "YIELD"
  /\ status' = "OK" /\ running' = TRUE
  /\ frames' = Callers /\ top' = ci.func
  /\ UNCHANGED <<size, openupval, tbclist, errfunc, history>>

\* A local declaration; OP_TBC follows it at once when it has <close>.
Declare ==
  /\ Executing /\ Len(ci.locals) < FrameSize - 1 /\ declared < MaxVars
  /\ declared' = declared + 1
  /\ frames' = Replaced([ci EXCEPT !.locals = Append(@, declared + 1)])
  /\ UNCHANGED <<status, running, size, top, openupval, tbclist, errfunc,
                 marked, taken, uncalled>>

\* luaF_newtbcupval
DeclareClose ==
  /\ Executing /\ Len(ci.locals) < FrameSize - 1 /\ declared < MaxVars
  /\ declared' = declared + 1 /\ marked' = marked \cup {declared + 1}
  /\ frames' = Replaced([ci EXCEPT !.locals = Append(@, declared + 1)])
  /\ tbclist' = <<[slot |-> FirstFree, var |-> declared + 1]>> \o tbclist
  /\ top' = ci.top
  /\ UNCHANGED <<status, running, size, openupval, errfunc, taken, uncalled>>

\* Mutant: the upvalue at the level is left open.
NotAbove(uvs, level) == Keep(uvs, { u \in In(uvs) : u.slot <= level })

Below(uvs, level) == Keep(uvs, { u \in In(uvs) : u.slot < level })
Above(uvs, level) == Keep(uvs, { u \in In(uvs) : u.slot > level })

\* luaF_findupval: the upvalue of the slot, or a new one in its place.
Capture ==
  /\ Executing
  /\ \E i \in DOMAIN ci.locals :
       LET level == ci.func + i IN
       /\ \A n \in DOMAIN openupval : openupval[n].slot # level
       /\ openupval' = Above(openupval, level)
                       \o <<[slot |-> level, var |-> ci.locals[i]]>>
                       \o Below(openupval, level)
  /\ UNCHANGED <<status, running, size, top, frames, tbclist, errfunc,
                 history>>

CallLua ==
  /\ Executing /\ Len(frames) < MaxFrames
  /\ PrecallLua(frames, size, FirstFree, FirstFree + 1)
  /\ UNCHANGED <<openupval, tbclist, errfunc, history>>

\* luaB_pcall and luaB_xpcall: precallC, then lua_pcallk up to the body.
PCall ==
  /\ Executing /\ Len(frames) + 1 < MaxFrames
  /\ \E kind \in {"pcall", "xpcall"} :
       LET func == FirstFree
           t == func + (IF kind = "pcall" THEN 2 ELSE 3)
           body == func + (IF kind = "pcall" THEN 2 ELSE 4)
           call == [Frame(kind, func, t + MinStack) EXCEPT
                      !.ypcall = TRUE, !.u2 = body, !.old_errfunc = errfunc]
       IN
       /\ t <= ci.top
       /\ IF Fits(size, t, MinStack) \/ CanGrow(size, t, MinStack)
          THEN /\ errfunc' = IF kind = "xpcall" THEN func + 2 ELSE 0
               /\ PrecallLua(Append(frames, call), Grown(size, t, MinStack),
                             body, body + 1)
          ELSE Overflow(frames, size, t) /\ UNCHANGED errfunc
  /\ UNCHANGED <<openupval, tbclist, history>>

\* coroutine.yield: precallC and lua_yieldk without a continuation.
Yield ==
  /\ Executing /\ Len(frames) < MaxFrames
  /\ LET func == FirstFree  t == func + 1 IN
       IF Fits(size, t, MinStack) \/ CanGrow(size, t, MinStack)
       THEN /\ frames' = Append(frames, Frame("yield", func, t + MinStack))
            /\ size' = Grown(size, t, MinStack)
            /\ status' = "YIELD" /\ running' = FALSE /\ top' = t
       ELSE Overflow(frames, size, t)
  /\ UNCHANGED <<openupval, tbclist, errfunc, history>>

\* Any instruction may raise an error.
Error ==
  /\ Executing
  /\ Throw(frames, ci.top + 1)
  /\ UNCHANGED <<size, openupval, tbclist, errfunc, history>>

\* OP_CLOSE at the end of the innermost block, OP_RETURN with values above
\* the locals: both start a luaF_close with its luaF_closeupval.
EndBlock ==
  /\ Executing /\ ci.locals # << >>
  /\ frames' = Replaced([ci EXCEPT !.doing = "block"])
  /\ top' = ci.top
  /\ openupval' = Below(openupval, ci.func + Len(ci.locals))
  /\ UNCHANGED <<status, running, size, tbclist, errfunc, history>>

Return ==
  /\ Executing
  /\ \E n \in {0, 2} :
       /\ frames' = Replaced([ci EXCEPT !.doing = "return", !.u2 = n,
                                        !.nres = n])
       /\ top' = Bigger(FirstFree + n, ci.top)
  /\ openupval' = Below(openupval, ci.func + 1)
  /\ UNCHANGED <<status, running, size, tbclist, errfunc, history>>

Closing == running /\ (ci.doing # "run" \/ ci.recst)

\* Mutant: the end of a block misses its last variable.
LevelAbove == IF ci.recst THEN ci.u2
              ELSE IF ci.doing = "block" THEN ci.func + Len(ci.locals) + 1
              ELSE ci.func + 1

\* The level a frame is closing down to.
Level == IF ci.recst THEN ci.u2
         ELSE IF ci.doing = "block" THEN ci.func + Len(ci.locals)
         ELSE ci.func + 1

\* Mutant: a return misses the first local of its function.
PendingAbove == tbclist # << >> /\ Head(tbclist).slot > Level

Pending == tbclist # << >> /\ Head(tbclist).slot >= Level

\* One turn of luaF_close's loop: poptbclist, prepcallclosemth (the error
\* object goes right above the variable, the call above both), and the call.
\* The variable is off the list when a stack without room refuses the call.
CallClose ==
  /\ Closing /\ Pending /\ Len(frames) < MaxFrames
  /\ LET slot == Head(tbclist).slot
         func == IF ci.recst THEN slot + 2
                 ELSE IF ci.doing = "block" THEN slot + 1 ELSE top
         nargs == IF ci.recst THEN 2 ELSE 1
     IN /\ PrecallLua(frames, size, func, func + 1 + nargs)
        /\ uncalled' = uncalled \cup IF Room(size, func + 1 + nargs)
                                    THEN {} ELSE {Head(tbclist)}
  /\ tbclist' = Tail(tbclist)
  /\ taken' = Append(taken, Head(tbclist).var)
  /\ openupval' = Below(openupval, Level)
  /\ UNCHANGED <<errfunc, declared, marked>>

BlockDone ==
  /\ Closing /\ ~ci.recst /\ ci.doing = "block" /\ ~Pending
  /\ frames' = Replaced([ci EXCEPT !.doing = "run",
                  !.locals = SubSeq(@, 1, Len(@) - 1)])
  /\ UNCHANGED <<status, running, size, top, openupval, tbclist, errfunc,
                 history>>

\* luaD_poscall; a __close method's results are dropped.  The coroutine's
\* own function returns to base_ci, and auxresume takes its results.
ReturnDone ==
  /\ Closing /\ ~ci.recst /\ ci.doing = "return" /\ ~Pending
  /\ LET caller == Callers[Len(Callers)] IN
       /\ running' = (caller.kind # "base")
       /\ top' = IF \/ caller.kind = "base"
                    \/ caller.doing # "run" \/ caller.recst
                 THEN ci.func ELSE ci.func + ci.u2
  /\ frames' = Callers
  /\ UNCHANGED <<status, size, openupval, tbclist, errfunc, history>>

\* Mutant: only the values in use count, not the registers of the frames.
InUseByTop(fs, t) == Bigger(t + 1, MinStack)

\* stackinuse
InUse(fs, t) ==
  LET tops == {t} \cup { fs[i].top : i \in DOMAIN fs }
      lim == CHOOSE x \in tops : \A y \in tops : y <= x IN
  Bigger(lim + 1, MinStack)

\* luaD_shrinkstack
Shrunk(fs, t) ==
  LET inuse == InUse(fs, t)
      most == IF inuse > MaxStack \div 3 THEN MaxStack ELSE inuse * 3 IN
  IF inuse <= MaxStack /\ size > most
  THEN IF inuse > MaxStack \div 2 THEN MaxStack ELSE inuse * 2
  ELSE size

\* Mutant: the message handler outlives its call.
PCallReturnKeepsHandler ==
  /\ running /\ ci.ypcall /\ ~ci.recst
  /\ frames' = Callers
  /\ top' = ci.func + 1 + (top - ci.u2)
  /\ UNCHANGED <<status, running, size, openupval, tbclist, errfunc, history>>

\* The body returned, in lua_pcallk or in finishpcallk after a yield, and
\* finishpcall hands on true and the results.
PCallReturn ==
  /\ running /\ ci.ypcall /\ ~ci.recst
  /\ errfunc' = ci.old_errfunc
  /\ frames' = Callers
  /\ top' = ci.func + 1 + (top - ci.u2)
  /\ UNCHANGED <<status, running, size, openupval, tbclist, history>>

\* finishpcallk after an error: everything down to the called function is
\* closed, the stack shrinks, and finishpcall returns false and the error.
Recover ==
  /\ Closing /\ ci.recst /\ ~Pending
  /\ openupval' = Below(openupval, ci.u2)
  /\ size' = Shrunk(frames, ci.u2 + 1)
  /\ errfunc' = ci.old_errfunc
  /\ frames' = Callers
  /\ top' = ci.func + 2
  /\ UNCHANGED <<status, running, tbclist, history>>

\* traversethread, whenever the collector gets to this thread.
GCShrink ==
  /\ Shrunk(frames, top) # size
  /\ size' = Shrunk(frames, top)
  /\ UNCHANGED <<status, running, top, frames, openupval, tbclist, errfunc,
                 history>>

\* Whether luaD_closeprotected may or may not find room for the call that
\* closes a variable: the coroutine's error, or one raised by an earlier
\* __close, is a second argument, and may have left the stack its extra space.
ClosingMeets(v, room) ==
  \E nargs \in 1..2 : \E s \in {MaxStack, MaxStack + ErrorSpace} :
    /\ status = "ERR" => nargs = 2
    /\ room = Room(s, v.slot + nargs + nargs + 1)

\* lua_closethread on a coroutine that is not running: luaE_resetthread and
\* luaD_closeprotected, which goes on with the next variable after an error.
CloseThread ==
  /\ ~running
  /\ status # "OK" \/ top = 2
  /\ \E refused \in SUBSET In(tbclist) :
       /\ \A v \in In(tbclist) : ClosingMeets(v, v \notin refused)
       /\ uncalled' = uncalled \cup refused
  /\ status' = "OK" /\ frames' = <<BaseFrame>> /\ top' = 1
  /\ size' = BaseFrame.top /\ errfunc' = 0
  /\ openupval' = << >> /\ tbclist' = << >>
  /\ taken' = taken \o [i \in DOMAIN tbclist |-> tbclist[i].var]
  /\ UNCHANGED <<running, declared, marked>>

NextThread ==
  \/ Start \/ Resume \/ Declare \/ DeclareClose \/ Capture
  \/ CallLua \/ PCall \/ Yield \/ Error \/ EndBlock \/ Return
  \/ CallClose \/ BlockDone \/ ReturnDone \/ PCallReturn \/ Recover
  \/ GCShrink \/ CloseThread

ThreadSpec == InitThread /\ [][NextThread]_threadVars
-----------------------------------------------------------------------------
\* The variables in scope, by slot.
Live(slot, var) ==
  \E k \in DOMAIN frames :
    /\ slot - frames[k].func \in DOMAIN frames[k].locals
    /\ frames[k].locals[slot - frames[k].func] = var

(* An open upvalue is never left pointing at a slot that has been reused:   *)
(* it names a variable in scope, or one an error has just left behind and   *)
(* the protected call will close before anything else runs.  There is one   *)
(* per slot, highest first (luaF_findupval stops at the first lower slot).  *)
OpenUpvaluesLive ==
  /\ \A i \in DOMAIN openupval :
       \/ Live(openupval[i].slot, openupval[i].var)
       \/ ci.recst /\ openupval[i].slot >= ci.u2
  /\ \A i, j \in DOMAIN openupval :
       i < j => openupval[i].slot > openupval[j].slot

(* Pending to-be-closed variables are a stack, innermost first; each is in  *)
(* scope or waits for the protected call that unwinds it, and no frame has  *)
(* been pushed over the slot that still holds its value -- not even the     *)
(* error object and the call of the previous __close method.                *)
TbcIntact ==
  /\ \A i, j \in DOMAIN tbclist :
       i < j => /\ tbclist[i].slot > tbclist[j].slot
                /\ tbclist[i].var > tbclist[j].var
  /\ \A i \in DOMAIN tbclist :
       \/ Live(tbclist[i].slot, tbclist[i].var)
       \/ \E k \in DOMAIN frames :
            /\ frames[k].recst /\ tbclist[i].slot >= frames[k].u2
            /\ \A j \in (k + 1)..Len(frames) : frames[j].func > tbclist[i].slot

(* A to-be-closed variable is closed at most once, whatever returns, errors *)
(* and yields its scope goes through: it is pending or has been taken off   *)
(* the list (poptbclist), never both, and then its __close has been called  *)
(* unless the variable was within a call's reach of the end of the stack    *)
(* (luaD_growstack, called by the luaD_precall of the method).  A coroutine *)
(* at its end has none left.  (The manual promises the call on every exit.) *)
ClosedOnce ==
  /\ \A i, j \in DOMAIN taken : taken[i] = taken[j] => i = j
  /\ \A v \in marked : (\E i \in DOMAIN taken : taken[i] = v)
                         <=> ~(\E i \in DOMAIN tbclist : tbclist[i].var = v)
  /\ \A u \in uncalled : /\ \E i \in DOMAIN taken : taken[i] = u.var
                          /\ u.slot + 2 * FrameSize + 3 > MaxStack
  /\ ~running /\ status = "OK" => tbclist = << >> /\ openupval = << >>

(* An error is handled by the handler of the protected call that catches    *)
(* it: L->errfunc is that of the innermost pending one, xpcall's second     *)
(* argument, pcall's none.                                                  *)
Handler(f) == IF f.kind = "xpcall" THEN f.func + 2 ELSE 0
HandlerOfInnermost ==
  LET calls == { i \in DOMAIN frames : frames[i].ypcall } IN
  errfunc = IF calls = {} THEN 0
            ELSE Handler(frames[CHOOSE i \in calls : \A j \in calls : j <= i])

(* Every frame has its registers inside the stack (the assertions of        *)
(* luaD_precall), through growth, shrinking by the collector and overflow;  *)
(* only EXTRA_STACK is ever used beyond it.                                 *)
FramesFit ==
  /\ \A i \in DOMAIN frames :
       frames[i].top <= size + (IF status = "ERR" THEN ExtraStack ELSE 0)
  /\ top <= size + ExtraStack

=============================================================================
