# A verification development for LuaStasis

LuaStasis is Lua 5.5 with two more functions: `lstasis_save` writes a whole
`lua_State` to a buffer, `lstasis_load` builds a state from one.  This directory
models the parts of the program that carry that promise and the core of the Lua it
is built on, checks them with TLC and, for the parts whose invariants are of any size (section
4), proves them with TLAPS.

## 1. Inventory

| Component | State | Operations | Hard part |
|---|---|---|---|
| Snapshot writer (`lstasis.c`, save half) | pointer map, ids, queue, latched error, buffer | discover, number, write, fail | cyclic graphs; two walks over an object that must agree; refusing before writing |
| Snapshot reader (`lstasis.c`, load half) | id table, passes, error, new state | create, fill by kind, repair, register, install, fail | forward references; objects only the id table holds, which no collection may meet; half-built state on failure |
| Names of C functions (`lstasis.c`) | two lists, one per side | enumerate the libraries of a scratch state | both sides enumerate in orders of their own |
| Coroutines, calls, errors (`ldo.c`, `lfunc.c`, `lstate.c`, `lcorolib.c`, `lbaselib.c`) | stack, frames, open upvalues, to-be-closed list, handler | resume, yield, call, return, throw, recover, close, grow, shrink | errors and yields in the middle of closing; the stack limit |
| Finalizers (`lgc.c`) | `finobj`, `tobefnz`, phases | mark, separate, call, close | resurrection, re-marking, closing |
| Collector (`lgc.c`) | colours, ages, gray lists, phases | mark, barrier, sweep, step, change mode | program steps between collector steps; two modes; weak tables |
| Tables (`ltable.c`, `ltm.c`) | array, nodes, chains, free pointer, cached absences | get, set, next, rehash, length | collisions, dead keys, traversal while clearing |
| Parser, code generator (`lparser.c`, `lcode.c`) | scopes, jump lists, registers, constants | declarations, blocks, goto, expressions, patching | labels and upvalues across blocks; operands at their limits; registers as a stack |
| Virtual machine (`lvm.c`) | registers, upvalues | opcodes | numeric edges; which operand order a metamethod sees |
| Table, string libraries (`ltablib.c`, `lstrlib.c`) | partition, captures, formats | sort, move, match, pack | inconsistent order functions, integer limits, backtracking |
| Binary chunks (`ldump.c`, `lundump.c`) | table of saved strings, offset | dump, load | sharing by index, alignment, truncation |
| Strings (`lstring.c`) | string table, cache | intern, resize, free | dead strings that are asked for again |
| Memory (`lmem.c`) | debt | grow, shrink, retry after an emergency collection | failure in the middle of a change |
| Lexer (`llex.c`, `lzio.c`) | current token | scan | text |
| C API, auxiliary library (`lapi.c`, `lauxlib.c`) | stack, registry references | push, call, reference | free lists, continuations |
| Debug interface (`ldebug.c`, `ldblib.c`) | line tables, hooks | line lookup, trace | relative line information |
| Other libraries (`lbaselib.c` ... `lutf8lib.c`, `loadlib.c`) | `package.loaded`, ... | require, ... | recursion in require |
| Snapshot inspection (`lstasis_tojson.c`), interpreter (`lua.c`), tests (`ltests.c`) | none | print, check | input and output |

The program is single threaded.  Its interleavings are those of coroutines, of
the collector's steps between the program's, of callbacks (`__close`, `__gc`,
handlers, order functions), of emergency collections inside any allocation, and of
a save and a load between any two steps of a suspended coroutine.  `PROJECT.json`
lists every hazard with its line.

## 2. Modules

| Module | Models |
|---|---|
| `LuaHeap` | the object graph: kinds, places and their roles, what a save visits, what the collector marks, what cannot be saved |
| `StasisSave` | `lstasis_save` step by step: one action per turn of each loop |
| `SnapshotPromise` | abstract: what a save promises, without ids, queue or records |
| `StasisLoad` | `lstasis_load`: index, new state, passes 1 to 2h, roots, failures |
| `StasisRoundTrip` | composes `StasisSave` and an instance of `StasisLoad` on what was written |
| `StasisProofs` | theorems about `StasisSave` and about a save followed by a load |
| `CFuncNames` | the two maps of C functions, built in any order of enumeration |
| `LuaThread` | one coroutine |
| `ThreadSnapshot` | composes `LuaThread` with `wobj_thread` and `fill_thread` |
| `LuaThreadProofs` | theorems about `LuaThread` and its plain composition |
| `LuaFinalizers` | the lists of objects with finalizers through collections and closing |
| `FinalizerSnapshot` | composes `LuaFinalizers` with a save and a load |
| `SnapshotPartsProofs` | theorems about `CFuncNames`, `LuaFinalizers` and `FinalizerSnapshot` |
| `LuaCollector` | `lgc.c` between the steps of a program: both modes |
| `LuaCollectorLemmas` | lemmas about the operators of `LuaCollector`: a traversal, marking to the end, the atomic step, the sweep, the writes of the program |
| `LuaCollectorProofs` | theorems about `LuaCollector` |
| `LuaTable` | one table of `ltable.c` and the cache of `ltm.c` |
| `TablePromise` | abstract: the dictionary a table is for its program |
| `LuaTableProofs` | theorems about `LuaTable` |
| `LuaValues` | values, arithmetic, comparison, and the world a program asks |
| `LuaCode` | `lcode.c`: from expressions to instructions |
| `LuaParser` | `lparser.c`: from a syntax tree to prototypes |
| `LuaVM` | `lvm.c`: one action per kind of instruction |
| `LuaSemantics` | reference: what a chunk means, without registers or jumps |
| `LuaCompiler` | composes parser, code generator and interpreter, holds them against the reference |
| `LuaSort` | `table.sort` of `ltablib.c`, a machine that calls back |
| `LuaSortProofs` | theorems about `LuaSort` |
| `LuaTableLib` | `ltablib.c`: the functions that move elements |
| `LuaPatterns` | the matcher of `lstrlib.c`, `find`, `gmatch`, `gsub` |
| `PatternMeaning` | reference: all the ways a pattern can match, the preferred first |
| `LuaPack` | `pack`, `packsize`, `unpack` of `lstrlib.c` |
| `LuaChunk` | `ldump.c` and `lundump.c` |
| `LuaLibrary` | a program that calls the functions of `LuaTableLib`, `LuaPatterns`, `LuaPack` and `LuaChunk`, with the definition of each result |
| `Lists`, `ListLemmas` | elements of a sequence; lemmas about sequences, filters, prefixes, least and greatest numbers and induction that the proofs share |
| `MC...` | the constants of the runs: heaps, libraries, kinds of objects, chunks, calls |

### 2.1 Heap, save and load

An object is its kind and the sequence of the *places* in it that can hold a
value, in the order `process_obj` goes over them.  The role of a place says what
the code does with it: `Visits` are the places `process_obj` follows, `Marks`
those the collector follows, `Tagged` those `write_tv` writes.  A save and a
collection disagree on purpose in two roles (`deadkey`, `open`), and the
properties say when that is harmless.  `StasisSave`'s variables are the fields of
`SerState` and `ObjQ` and the buffer (`stream`, `footer`); ids are positions in
the stream.  Records keep kind, places and references, not bytes.

`StasisLoad` has the passes of `lstasis_load` as values of `lpc`, an object of
the new state is its id.  Errors are latched and the passes go on, as in the
code; only the userdata pass leaves its loop.  `cached` is the set of tables
whose flags still say that no metamethod is present.  `malloc` and `lua_newstate`
may fail wherever the code tests the result.

Other requests for memory go through `luaM_realloc_` and `luaM_malloc_`, which answer
a first failure with an emergency collection and a second with an error nobody
catches here (`Requests`; the pass `"aborted"`).  `luaC_fullgc` does not look at
`gcstp`, so in passes 1 to 2f such a collection frees what the fresh registry does
not lead to (`Garbage`): nearly all objects the load has made.  `shortage` remembers
that a request failed, `freed` the ids whose objects are gone; a load that goes on
with these uses freed memory, and the model ends there.  The one call of a pass that
lets the collector take a step of its own, `lua_newthread`, finds it stopped.

### 2.2 Coroutine

`LuaThread` has the stack as its size, top and offsets; a frame has the fields of
`CallInfo` that decide control (`func`, `top`, `u2`, `old_errfunc`, `ypcall` for
`CIST_YPCALL`, `recst` for a recover status) and the locals in scope.  A program
is any sequence of declarations, captures, calls, protected calls, yields, block
ends, returns and errors.  A long jump leaves the frames as they are, and what an
interrupted `luaF_close` has left to do is redone from the frame (`luaV_finishOp`)
or by `finishpcallk`; so the model needs one "closing" state per frame and none of
the C stack.  Every value is a number: the place of a variable in the order of
declaration, which is all the properties need.

`luaF_close` takes a variable off the list before `luaD_precall` asks for the stack
its `__close` needs (`lfunc.c:235`, `ldo.c:740`).  So `taken` lists the variables taken
off, and `uncalled` those among them whose call overflowed the stack and never was
made.  `CloseThread` closes several in one step, each at the stack size the errors of
the ones before may have left (`ClosingMeets`).  Methods are Lua functions of one frame.

`ThreadSnapshot` adds one action, a save and a load of a coroutine that is not
running, with what `wobj_thread` leaves out left out.

### 2.3 Finalizers

A collection is one step: marking and sweeping are atomic here, and the minor
collections of the generational mode keep a set of unreachable (old) objects
besides.  Finalizers run one at a time between steps of the program, and may keep
their object, mark it again, or find that its metatable has no `__gc` any more.
`SetGCField` and `Mutate` are the program's.

### 2.4 Names

Names and keys are sequences of components; a key that is no string is `Index`
and is named `?`.  A name longer than the buffer `key` is skipped (`TooLong`,
`join_name`), a registry key longer than `libname` is cut (`Prefix`); lengths are
counted in components.  The order of `lua_next` is nondeterministic on both sides.

### 2.5 Collector

`LuaCollector` keeps `global_State` in one record `g`; an operator on a state
stands for the C function of its name, so `Atomic`, `YoungSweep` or `Minor2Inc`
read like the functions.  The order of `allgc` and `finobj` is kept, since the
pointers `survival`, `old1`, `reallyold` and `firstold1` divide those lists by
age.  The gray lists are sets; a step of marking takes any element.  Operators that
the code applies to one object after another take the set of them where the order
cannot be told apart (`ReallyMark`).

| Code | Model |
|---|---|
| `reallymarkobject`, `propagatemark`, `traverse*`, `genlink` | `ReallyMark`, `PropagateMark`, `Traverse...`, `GenLink` |
| `luaC_barrier_`, `luaC_barrierback_` | `Barrier`, `BarrierBack`, inside every store of the program |
| `singlestep` | one action per state: `Pause`, `Propagate`, `EnterAtomic`, `Sweep...`, `CallFin` |
| `youngcollection`, `atomic2gen`, `minor2inc`, `checkmajorminor` | `YoungCollection`, `Atomic2Gen`, `Minor2Inc`, `BackToMinor` |
| `luaC_fullgc`, `luaC_changemode` | `FullGC`, `ChangeMode`: a state and the goals to reach from it; the one action `Task` runs them (`Run`) to the end or to a finalizer, and goes on when that returns (`task`) |
| stores, loads, `lua_upvaluejoin`, `luaF_newupval`/`luaF_initupvals`/`luaF_close`, `lua_setmetatable`, `luaC_checkfinalizer` | `SetTable`, `SetWeak`, `SetClosure` (with `JoinUpvalue`, an upvalue into a closure), `SetSlot`, `SetMetatable`, `SetUpval`, `Load`, `Drop`, `CloseThread`, `MarkForFinalization` |

When a step happens depends on debts and pauses in the code; here a step happens
at any time, and an emergency collection too.  The main thread has a set of
references, other objects one (weak tables one entry), which is enough for chains,
cycles and every list.

### 2.6 Tables

`LuaTable` has the array part as the presence of its values, nodes with key,
presence and link, and the free pointer `last`.  `InsertKey` is `insertkey` with
Brent's moves, `Resize` is `luaH_resize` with a collection possible inside its
allocations, `FindIndex` and `NextKey` are `luaH_next`, `HashSearch`, `BinSearch`
and `GetN` are `luaH_getn`.  A collection kills keys whose values are gone
(`clearkey`) and, for weak values, removes entries.  `absent` is `flags`.

### 2.7 Compiler and interpreter

A chunk is a syntax tree.  `LuaParser` resolves names (registers, upvalues,
compile-time constants, globals and their declarations), opens and closes blocks,
and keeps pending gotos; binary expressions are still rows of tokens, grouped by
priority as `subexpr` does.  `LuaCode` has expression descriptors with their two
jump lists, register allocation, the choice of operand forms (`luaK_infix`,
`luaK_posfix`, `codecommutative`, immediates, constants), constant folding and
`luaK_finish`.  Its output is a prototype that `LuaVM` runs: registers beyond what
a frame wrote hold junk, so that a read of a register nobody set shows.

What a table, a host function or a metamethod does is a *world* outside: each
question to it (index, store, call, arithmetic of objects, close) is recorded and
answered by a fixed rule (`LuaValues!Event`, `Answer`).  `LuaSemantics` walks the
tree with an environment, a cell per variable per turn, and asks the same world.
So `CodeMeansSource` compares what can be observed: the questions, with operands
and order, and the results.  Tables made by the chunk are compared by content.

`Translate` and `Sense` in `LuaCompiler` are operator constants, given the
parser's `MainFunc` and the reference's `Meaning` by the configuration: the
composition depends on no detail of either.

### 2.8 Libraries and binary chunks

`table.sort` is a machine with one action per comparison (`LuaSort`), since what
the order function answers is the program's: any answer, or that of a strict weak
order (`fair`).  `s` is where `auxsort` is: the comparison that is next, the
interval, the indices of `partition` and the suspended calls; what the code does
between two comparisons, the loop and returns to the callers included, belongs to
the action of the first.  The other functions take one step, and are checked against
definitions of another shape: unbounded integers and sequence operators for
`move`, `insert`, `remove`, `unpack`; `PatternMeaning` for patterns; the options of
the format for `pack`; the function itself for `dump`.  Integers, bytes and sizes
are narrow (`MAXINTEGER`, `NB`, `VARBITS`), so their limits are met.  `Library`,
`Meaning` and `Calls` in `LuaLibrary` are operator constants for the same reason as
above.

## 3. Runs

| Run | Bounds | Shows |
|---|---|---|
| `round_trip` (`RoundTrip.cfg`) | 7 objects; 216 table graphs, 432 heaps with one object of each kind, 54 with finalizers, 8 more with `table.sort`, which the loading program does not have | numbering, discovery and writing agree (`SaveInv`, `NoStrandedReference`); all that is live is in the snapshot, but for the orphans below (`SnapshotHoldsAllLive`); the outcome is the heap's (`OutcomeMatchesHeap`); the abstract promise is kept (`ImplementsPromise`); a load gives the same graph back (`SameState`, `OpenUpvaluesOwned`, `ObjidsResume`), loses no object to a collection but to one a failed request for memory runs (`FreedOnlyInShortage`), and is all or nothing (`AllOrNothing`); it refuses nothing the saver wrote, but for lack of memory or for a C function without a name (`RefusedForCause`); both return (`RoundTripReturns`) |
| `parts` (`Parts.cfg`), four machines | *thread*: 6 frames, 3 variables, stack limit 16 | open upvalues point at live variables (`OpenUpvaluesLive`); the to-be-closed list is that of the frames (`TbcIntact`); a variable leaves it once, and its `__close` is called but where the stack ends (`ClosedOnce`); the handler is that of the innermost protected call (`HandlerOfInnermost`); frames fit the stack through growth and shrinking (`FramesFit`) |
| | *names*: 10 functions, 10 tables per side, names of at most 4 components | a name leads back to a function published under it, and to the one it was given for if there is no other (`NamesResolve`); what has a short enough name gets one (`AllNamed`) |
| | *finalizers*: 2 objects, 2 markings each, 3 collections | finalizers are called once per marking (`FinalizedOncePerMark`), in reverse order (`ReverseOrder`), and find nothing freed (`NothingDangles`) |
| | *chunk*: 972 chunks (all small combinations of logical and arithmetic operators in three contexts, comparisons with an operand that has a jump pending, and one chunk at least per statement and operand form), three rows of arguments; 6-bit integers, operands up to 15 and 31, constants as operands up to index 3 | the code does what the source says (`CodeMeansSource`); chunks are refused for the reason the manual gives and no others are (`OnlyInvalidRefused`); assertions on registers and scopes hold, and frames are large enough (`AssertionsHold`) |
| `collector` (`Collector.cfg`) | 3 objects, seven pairs of kinds next to the main thread, one element per sweep step, 40 turns in a full collection | nothing the program can reach is freed (`NothingReachableFreed`); `lua_checkmemory`'s assertions hold, with one exception for open upvalues (`MemoryConsistent`); an emergency collection leaves nothing but what is kept or waits to be finalized (`EmergencyReclaims`); each object is in one list (`TypeOK`) |
| `library_tables` (`LibraryTables.cfg`), two machines | *library*: 4-bit integers, lists of every length up to the largest integer, at most 9 results; patterns of up to three pieces on strings up to 4, 2 captures, 20 levels; bytes of 2 bits; chunks of two builds, writers that fail at each of 30 blocks; sorts of arrays of different elements up to 6 with any answers, of all arrays of 3 values up to 5 and the permutations of 6 with consistent ones, with random pivots from size 4 | each function returns what its definition says (`ElementsMove`, `MatchesAsDefined`, `UnpackReturnsPacked`, `ChunkComesBack`); `sort` stays in its array, nests as deep as its logarithm, loses nothing and sorts when the order is consistent (`SortWithinArray`), and ends whatever the order function answers (`SortReturns`) |
| | *table*: keys 1, 2, 4 (largest integer 6) and two that collide; constructors of sizes 0 and 2 | chains reach their keys (`ChainsReachKeys`); the table implements a dictionary (`ImplementsDictionary`); a traversal meets all that stays and nothing twice while fields are cleared and keys die (`TraversalMeetsAll`); `#t` is a border (`LengthIsBorder`); cached absences are true (`CacheIsTrue`) |

`parts` and `library_tables` are unions of machines that share nothing: a variable of
the MC module (`part`; `stores` and `sorts`) chooses at the start which one moves, and the others
stay as they begin.  A property of one machine says nothing of the others' behaviors.

Seven objects are enough for a graph with a cycle, a shared object, a chain of two
objects reachable only through each role, and one object left out.  The coroutine
is scaled: a basic stack of 6 slots, a limit of 16 and frames of 4 make growth,
overflow, recovery and shrinking happen within six frames, which also allow a
protected call in a protected call, and a `__close` method in either.  Two objects
and two markings per object are enough to order lists, resurrect, and mark again.

Three objects give the collector a black object that refers to a white one through
a gray one, an ephemeron whose key is the value of another, an open upvalue of a
coroutine nothing marks, and one object of each of three ages.  Forty turns are more
than a full collection of three objects takes (the goals of a full collection are
reached or a finalizer runs; `EmergencyReclaims` would fail otherwise).  A table with
two colliding keys and three integer keys has a collision of each kind, a moved
node, an array that gains and loses elements, and probes that wrap at the largest
integer.  Operands of 4 and 5 bits make each choice between an immediate, a constant
and a register happen on both sides of its limit.

The table functions meet every length a list may have.  With LUA_MAXINTEGER elements
`table.insert` at a position computes the place after the last as the smallest integer:
it accepts every position above 0, moves nothing and overwrites the element at the
position, and `table.remove` wraps likewise (`testes/nextvar.lua:655` tests the insert without a
position).
`Inserted` and `Removed` state this; below that length they are the manual's words.

In `parts` a save and a load of a coroutine or of a state with finalizers may happen
only when nothing is at stake that a snapshot loses (`NothingToLose`,
`NothingAtStake`).  So these machines show that a snapshot does no harm in those
states, not that it restores what a suspended program has pending; what it loses there
is below.  `MCPrograms` leaves out one form of chunk, which has a run of its own
(`compiler_order`).

Expected violations, each a disagreement between the code and what the
repository says of it (`findings` in `PROJECT.json` quotes it):

| Run | The code |
|---|---|
| `save_orphan` | does not save the value of an open upvalue whose coroutine nothing refers to |
| `thread_snapshot_closed` | loses the pending to-be-closed variables of a coroutine |
| `collector_checks` | lets an open upvalue of age "old1" refer to a new object, which the test of `lua_checkmemory` denies; no object is lost (`NothingReachableFreed` holds) |
| `collector_join` | lets `lua_upvaluejoin` give an old closure an open upvalue of a new coroutine, marks the value of the upvalue at once and leaves it new; a store of the value into the same closure then has no barrier, and the second minor collection frees an object that the program can reach |
| `collector_metatable` | marks the metatable of a userdata without user values at once and leaves it new, while the barrier makes the userdata old; a store of the metatable into the same old object then has no barrier, and it is freed with the object still referring to it |
| `table_resize` | copies the elements a shrinking array of weak values gives up before it allocates the new array; an emergency collection in that allocation does not see the copies, which then stand for freed objects |
| `load_emergency` | stops the collector for a load, which does not stop the collection that a failed request for memory runs: it frees the objects that only the id table holds, and the load goes on with them |
| `compiler_order` | compiles `3 < (a or 2.0)` with a flag that the float `2.0` has left behind, so that `__lt` is called with `3.0` and not with the integer `3` |

`collector_join` and `collector_metatable` need four objects: a coroutine with an open
upvalue, its value and a closure that gets it; a userdata, its metatable and an old
upvalue that gets both.  No pair of kinds of the run `collector` has these, and its invariants hold
there; `StoresInAge` says what such a program must not do (section 4.8).

Other disagreements met while modelling have no run of their own:

* The same `lua_upvaluejoin` makes the upvalue "old0", older than its new coroutine,
  and when the coroutine dies `remarkupvals` fails its assertion (`UpvaluesNoOlder`,
  which TLC finds violated under the constants of `CollectorJoin.cfg`).
* A `__close` method is not called when its variable lies so near the end of the stack
  that the call overflows it: the variable is off the list by then.  The manual promises
  the call on every exit (`manual.of:1745`).
* A stack stays at its error size when the frame that recovers from an overflow
  itself reaches the limit (`luaD_shrinkstack`).
* A snapshot loses the message handler of an `xpcall` in progress, the number of
  results a return still owes while its `__close` method is suspended, and gives a
  loaded coroutine a stack that its frames do not always fit.
* A load marks every object with a `__gc` anew: resurrected objects are finalized
  again, finalizers that were pending are dropped, and their order changes.
* All C functions under integer keys of a subtable (`package.searchers`) get one
  name, and load as one of them; so may functions whose registry keys begin alike
  for 245 characters, and those whose names are longer than 511 characters get none.
  `lstasis.h:28` says "Every C function in that table is registered as
  "libname.funcname"".  `NamesResolve` asks nothing of a name shared on the loading side.
* `string.find` takes a pattern without special characters as plain text, so a
  stray `)` there is no error, as it is in `gmatch` and `gsub`
  (`PatternMeaning!Literal`).
* `dumpAlign` asserts that the offset is aligned, which fails once the writer has
  returned an error, since the offset stands still from then on.

Fairness: `StasisSave` and `StasisRoundTrip` assume weak fairness of the whole
next-state relation: one C function runs to its end and nothing else runs
meanwhile.  `LuaSort` assumes weak fairness of `SortStep`: nothing but the order
function, taken to return, keeps a sort from going on.  The other
specifications state none: a program may stop anywhere.

`library_tables` and `compiler_order` check for deadlock: a call or a chunk either ends,
which is a step that repeats (`HasReturned`, `Stopped`), or goes on.  The other systems really stop (a
save returns, a coroutine dies, a state is closed), or nothing obliges their
program to do anything, and their runs do not check it.

## 4. Proofs

Each theorem holds for every value of the constants that the named assumptions of
its module admit, which TLC evaluates in every run:

| Assumption | Says |
|---|---|
| `HeapAssumption` | heaps are well formed, roots are tables or threads, the function of a call frame is in its stack, values of different kinds are different |
| `NamesAssumption` | a library is a table of fields and subtables; the name `?` is no key |
| `FinalizerAssumption` | objects are finite in number, having no metatable is not a metatable |
| `ThreadAssumption` | sizes are natural; a frame, `LUA_MINSTACK`, `EXTRA_STACK` and the limit have the room the code takes for granted |
| `SortAssumption` | arrays are of integers; a pivot is random from 4 elements at least, of which `choosePivot` makes quarters |
| `CollectorAssumption` | objects are finite in number and the main thread is a thread; a step of a sweep takes one object at least |
| `TableAssumption` | integer keys are within 1 and the largest integer and are not other keys; nil is no key; a hash is natural |

The bounds of the runs (`MaxMarks`, `MaxCycles`, `MaxFrames`, `MaxVars`, `MaxTurns`) may be any
numbers.

### 4.1 Save (`StasisProofs`)

* `SaveInvariant`: `SaveInv`, the conjunction of the type invariant, dense ids,
  the queue being what is discovered and not processed, everything behind the
  cursor followed, every object but a root having an earlier referrer, every error
  having a cause, and the records written without a fault.  None of these is
  inductive alone: that nothing is skipped needs to know which objects are behind
  the cursor, hence the queue, hence that ids are positions.  The proof has a
  lemma per action; `Discovery` and `DiscoveryKeeps` serve the two actions that
  look at a value.
* `TypeCorrect`, `IdsAreDense`, `NothingSkipped`: its parts.
* `FirstErrorWins`: the action property of `ser_fail`.
* `OutcomeIsTheHeaps`: success and failure are the heap's doing
  (`OutcomeMatchesHeap`), from the records without a fault and what is followed
  when the queue is empty.
* `NothingStranded`: no written reference stands for an object discovery missed
  (`NoStrandedReference`).  It needs one more invariant, that the buffer holds the
  record of each object in id order; the function of a call frame, which discovery
  does not follow, is known through the closure in the stack.
* `LiveIsSaved`: a finished save holds all the collector would keep
  (`SnapshotHoldsAllLive`), under `OwnersAreMet`: a walk that meets an open upvalue
  meets its thread.  Without that it is false (`save_orphan`); the heaps of
  `round_trip` satisfy it (`Anchored`), a third of them with open upvalues.
* `SaveKeepsPromise`: each step is a step of `SnapshotPromise` or a stutter; a
  save delivers only when nothing reachable lacks a form.

### 4.2 Load (`StasisProofs`)

`RTInv` is the invariant of the save, the buffer it left (`Written`, `Footed`), and
`LoadInv` once the load has begun: what exists at each value of `lpc` (`StateInv`),
what pass 1 has made behind its cursor (`MadeInv`), what each filling pass has
filled behind its own (`FillInv`), and what is repaired and registered at the end
(`FinalInv`).  `SameState` is not inductive since the passes fill kind by kind: at
any moment each body is either that of the record or that of a fresh object, and
which one is decided by pass and cursor.

* `SaveIsUndisturbed`: `SaveInv`, `NoStrandedReference` and `OutcomeMatchesHeap`
  hold while a load follows, which changes nothing of the save.
* `LoadedIsSavedByName`: a loaded state is the saved one, place by place, with the C
  functions the loading program has under the names the saving program gave.
  `LoadedIsSaved` (`SameState`): with the same functions, under `LibrariesAgree`: a
  name leads the loading side to the function it stands for or to none.  `round_trip`
  satisfies that; functions that share a name (`package.searchers`, section 3) do not.
* `LoadIsAllOrNothing`, `ObjidsAreResumed`: from `RTInv`.
* `OnlyShortageFrees` (`FreedOnlyInShortage`): the steps of the collector do no harm
  since it is stopped in every pass that makes objects; nothing stops the emergency
  collection of a failed request, which `load_emergency` shows.
* `LoaderAcceptsSaver`: `RefusedForCause`, by going through the type checks of each
  pass with the record they look at.
* `OwnersAreLoaded`, `LiveIsLoaded`: `OpenUpvaluesOwned` and
  `SnapshotHoldsAllLive`, under `OwnersAreMet`.

### 4.3 Finalizers (`SnapshotPartsProofs`)

`FinalizerInv` has the types and the division of objects among the lists, `Order`
(both lists follow the order of marking), `Count` (calls made and due against
marks), `Ending` (the lists are empty once closing has gone over them) and `Safe`:
some set of live objects holds the roots and both lists, and nothing leads out of
it.  A set, and not what `Reach` computes, so that one lemma (`Reach` is the least
such set) is all the proof needs of reachability.  `PlainFinalizedOnce`,
`PlainReverseOrder` and `PlainNothingDangles` are its consequences for
`FinalizerSnapshot`'s specification, whose saves and loads happen with nothing at stake.

### 4.4 Names (`SnapshotPartsProofs`)

`NamesInv` says that the tables the enumeration has passed (`Behind`), and what it
has passed of the one it is at (`Current`), are in the maps, and that the maps hold
nothing else (`MapTypes`).  Neither theorem has a hypothesis about the libraries:
`PublishedAreNamed` is about names that fit the buffer, and `NamesLeadBack` asks of
each name whether it is clear (`Clear`: the loading side publishes no other function
under it).  A clear name leads to the function it was given for, any other to a
function published under it, of which the names of lists are an example.

### 4.5 Coroutine (`LuaThreadProofs`)

`ThreadInv` says how frames stand in the stack and above each other (`Stack`,
`Fit`), that each protected call keeps the handler of the one below it
(`Handlers`), what status and top may be (`Status`), that every element of the two
lists belongs to a variable in scope or to a protected call that is unwinding it
(`ToClose`, `Upvalues`), and that the variables pending and those taken together are
those marked, each once, the ones without a call lying at the end of the stack (`Closes`).  The difficult part is an error: the variables above the
recovery point are out of scope and still pending, and their values have to stay
below the top until they are closed (`Unwinds`, `ValuesKept`).  There is
a lemma per action.  The five theorems are for `ThreadPlainSpec` (a save and
a load when nothing is lost by them); `UnsavedIsPlain` carries them to `ThreadSpec`.

### 4.6 Table (`LuaTableProofs`)

`TableInv` has the shape of the table (`TableFits`), what a traversal under way may
count on (`TravFits`) and `CacheIsTrue`.  That a key is found where `getgeneric`
looks is not inductive: `InsertKey` relinks a chain in the middle, which is
harmless only because no two links lead to one node, no chain comes back to
itself, a free node is in none and lies below `last`, the node in the main position
of a chain is of that chain, a key is alive in one node at most, and an integer key
of the array part is in no node.

* `ChainsAlwaysReachKeys`, `TraversalsMeetAll`, `CacheIsAlwaysTrue`: from
  `TableInv`.  A traversal stays whole since no step but an insertion moves a node,
  and an insertion ends one (`next` may be called after none).
* A resize is a loop of insertions into an emptied table: `NewSizes` leaves room
  for each, and all but what a collection takes meanwhile is inserted again.
* `LengthIsAlwaysBorder`: `luaH_getn` for every hint, every seed of `hash_search`
  and every range of integers, the doubling search up to the largest integer and
  binary search included.
* `TableIsDictionary`: for strong values the refinement of `TablePromise`, step by
  step.  Weak values are excluded because there a resize may resurrect what an
  emergency collection took (`table_resize`).

The loops of the code are recursive functions here.  The library's induction
theorems are out of the provers' reach, so `ListLemmas` proves induction in a
first-order form (`Induction`, `BoundedInduction`: a set of numbers with 0 and
closed under successors has all) and that a recursion over numbers defines a
function (`RecursiveFunction`); the loops are then proved by these.

### 4.7 Sort (`LuaSortProofs`)

`SortCorrect` is `SortWithinArray` for arrays of any length and every sequence of
answers, from the invariant `SortInv` (`SortInvariant`).  `Bounds` says where the pivot
and the indices of `partition` may be, `AllApart` that the intervals still to be sorted
do not meet, `Nested` that each is at most half of the one it is in, and shorter by one
at least (hence the depth).  For a consistent order, `Ordered` says that two elements
out of order lie in one interval that is still to be sorted, and `Compared` what the
comparisons in this interval have shown: elements at most the pivot behind `i`, at
least the pivot behind `j`.  That an index stays inside rests on the error
`partition` raises at the pivot's own place; that the error is never raised for a
consistent order rests on the pivot at `up - 1` and the smaller element at `lo`, where
both loops stop.

### 4.8 Collector (`LuaCollectorLemmas`, `LuaCollectorProofs`)

`ReachableStays` says that nothing the program can reach is freed
(`NothingReachableFreed`), `CollectorTypeOK` is `TypeOK`, and `RemarkAssertionsHold`
is what `remarkupvals` asserts of open upvalues (`UpvaluesNoOlder`).  All three are
for every number and kind of objects, any program, collections in any phase, full
collections and changes of mode with finalizers in the middle, and have one
hypothesis, `[][StoresInAge]_vars`: in generational mode no forward barrier gives an
old object a young upvalue, but a closed one without a young value, nor a young
userdata without user values, but one without a young metatable.  `reallymarkobject`
marks what these two kinds of objects hold at once, and the barrier ages only the object
itself.  The first exception is what `lua_load` needs (`luaF_initupvals` gives its closure
new upvalues, closed and nil), so only `lua_upvaluejoin` and stores of young userdata
with a young metatable can break the hypothesis.  The runs `collector_join` and
`collector_metatable` show that neither half can be dropped, the theorems that
nothing else loses an object.

`Sound` is the inductive invariant: kinds are those of the start, and the state has
`Inv` and the mode and phase the goals of the task under way start from (`Held`).
`Inv` consists of

* `Base`: types; each object in use in one list and once (`Lists`); what may refer to
  what (`Shape`); live objects refer to live objects only (`Closed`).
  `NothingReachableFreed` follows since the main thread is live: the live objects are
  a set that holds the roots and out of which nothing leads.
* `IncInv`, in incremental mode.  While marking, `Ready`: an object that is marked is
  in a gray list or has been fully visited, so it refers to marked objects, but for
  weak references (`Trace`); a thread that is marked is in a gray list; an open
  upvalue can be found through the `twups` list.  While sweeping, `Sweeping`: what is
  behind the cursor has the color of the next cycle (`Fresh`), what is before it is
  dead or marked.
* `GenInv`, in generational mode between minor collections: `Ready` with the old
  objects that the next one visits again (`BlackOld1`); the pointers into `allgc` and
  `finobj` divide them by age (`GenLists`); old is what is marked, and how much older
  than its referents an object may be (`GenAges`).  The color and age alone say
  nothing: that an object of age "old1" or "touched2" refers to no new one is needed
  to know what the collection after the next will find.

`NothingReachableFreed` is far from inductive: a white object is freed by a sweep many
steps after the barrier that should have marked it.  The largest part of the proof is
the atomic step (`AtomicIs` and what leads to it: marking to the end, `remarkupvals`,
ephemerons until nothing changes, weak values, separation and resurrection of what is
to be finalized, weak values again), after which all that is live is marked and nothing
marked refers to what is white; and the minor collection, whose sweep moves the
pointers of both lists while the ages behind them change.  `ConvergeEphemerons`,
`PropagateAll`, the sweeps and `Run` are recursive functions over numbers of turns,
each with an invariant proved by `Induction`; that marking ends within the turns the
model allows is a count of the objects not yet black.

### 4.9 Only model-checked

* Liveness (`RoundTripReturns`, `SortReturns`, the fairness half of
  `ImplementsPromise`): the prover has no ENABLED.
* Compiler, interpreter and reference semantics, patterns, `pack`, chunks
  and the functions that move elements: they, or the modules they extend, declare
  recursive operators, with which the prover has no arithmetic.
* `MemoryConsistent` and `EmergencyReclaims` of the collector.  `Inv` has the
  parts of the first that keep objects alive, in the form they have inside a
  collection too; the second is about what a collection frees, for which
  `Inv` has to say from what each marked object was reached.

## 5. Plan

Proofs: `MemoryConsistent` from `Inv`, and with what marking started from
`EmergencyReclaims`; the modules with recursive operators (`LuaPack`, `LuaTableLib`
first) written with recursive functions, so that they can be proved about.

Then extensions of the model: in `LuaThread` hooks, C functions with continuations,
several coroutines that resume each other and the C stack limit; `StringTable`
(`lstring.c`: interning, dead strings asked for again, resizing); the restoration
of nodes by `fill_table` composed with `LuaTable`; UTF-8 (`lutf8lib.c`) and the
line table (`ldebug.c`) against references.

## 6. Not modelled

Malformed buffers, byte layout and number encoding of snapshots; what happens
after an allocation error reaches the panic function, a load included; the failure of the second allocation in `luaH_resize`; emergency collections inside a finalizer that a full or minor collection calls; hooks; instructions finished after a yield;
strings as numbers and floats that are not integral; tokens, line information and
the wording of messages; when the collector decides to take a step (debts, pauses,
memory counts); C functions as `__close` methods, which need less stack; chunks kept in a fixed buffer; the components listed as
`not_modelled`, each with the reason in `PROJECT.json`.
