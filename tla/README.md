# Symmetri in TLA+

Symmetri (`src/symmetri`) executes coloured Petri nets: transitions carry C++
callbacks that run on a thread pool, and one thread per net, the one that calls
`fire`, owns the marking. `src/symmetri/gui` is *Farbart*, an editor and
simulator of such nets on a reactive pipeline with undo. This directory models
the executor, nets inside nets, the thread pool, the table of colours, and the
editor with its documents, files, undo history and dispatch. TLC checks every
model on small instances, and TLAPS proves statements about every instance of
each.

## 1. Inventory

| Component | Source | State | Operations | Talks to |
|---|---|---|---|---|
| Executor `Petri` | `petri.{h,cpp}`, `petri_traits.cpp` | `tokens`, `scheduled_callbacks`, `log`, `state`, `thread_id_`, `reducer_queue`, the net | `fire` (start, discard, batch, fire transitions, drain, return), the reducers | pushes tasks to the TaskSystem; workers and clients enqueue reducers |
| Pure net functions | `petri_utilities.cpp`, `utilities.hpp`, parts of `petri.cpp` | none | `canFire`, `possibleTransitions`, `deductMarking`, `MarkingReached`, lookups | used by executor and editor |
| `PetriNet` handle | `symmetri.{h,cpp}`, `petri_traits.cpp` | pointer to `Petri` | `cancel`, `pause`, `resume`, input-transition handles, `getMarking`, `getActiveTransitions`, `getLog`, `registerCallback`, `reuseApplication` | tests `thread_id_`, then enqueues a reducer or touches `Petri` directly |
| `TaskSystem` | `tasks.{h,cpp}` | threads, task queue, `is_running_` (true means *stop*) | `push`, `loop`, destructor | runs the tasks, which call back into the reducer queue |
| Nested nets | `callback.h`, `petri_traits.cpp` | a `PetriNet` as callback | `fire` blocks a worker, `cancel`/`pause`/`resume` are forwarded to scheduled children | two executors and one pool |
| Token registry | `colors.hpp` | static table of 128 names | `Token(const char*)` finds or inserts | every thread |
| Parsers | `pnml_parser.cpp`, `grml_parser.cpp` | none | read files into one net and marking | constructors, editor |
| Editor model | `gui/model.h`, `gui/reducers.cpp` | `EditState` (net, marking, layout, log), `ViewState` (selection, highlights, popups) | add/remove/rename node, add/remove/recolour arc, tokens, fire by hand, select, highlight | reducers through the dispatch queue |
| Undo history | `gui/model.h` | `log` of edit reducers, `snapshots`, `cursor` | `apply`, `undo`, `redo` | reduce step |
| Dispatch | `gui/rxdispatch.*`, `gui/reactive.h` | update queue, thread-local batch | `push`, `Batch`, background `Computer`s | UI thread, queue thread, 4 pool threads |
| Load and save | `gui/load_file.cpp`, `gui/save_file.cpp` | files | parse in the background, then install | dispatch |
| Drawing, main loops | `gui/draw_*`, `gui/*_main.*` | ImGui | render a `ViewModel` | calls reducers |

How the executor's threads meet. The loop pushes a task per asynchronous firing.
A worker that takes it enqueues a reducer that logs the start, runs the
callback, and enqueues a reducer with the result. Clients enqueue reducers for
`cancel`, `pause`, `resume`, a triggered source transition, or a getter whose
caller blocks on a future. Only the loop applies reducers, so the net needs no
lock; the reducer queue is FIFO per producing thread only.

What is hard:

* *Interleaving and order.* Starts and results of several workers, and client
  requests, are interleaved arbitrarily in one batch. Results are matched to
  `scheduled_callbacks` by transition alone.
* *Split firings.* Tokens are taken at scheduling time and appear later.
* *Ends.* `Deadlocked`, `Success`, `Canceled` and `Paused` are one variable that
  several parties overwrite; `fire` must still wait for every callback.
* *Test-then-act* on `thread_id_` by clients, against the start and the end of
  `fire`.
* *Reuse.* The queue, the pool and the log survive from one run to the next.
* *Nets in nets.* A nested net is a worker of the pool that its own callbacks
  need; a call to it can come before it listens or after it has stopped.
* *Indices.* The editor's documents are parallel vectors; every removal renumbers
  half a dozen of them by hand. An index is picked in the model that is drawn and
  used in the model that is there when the update is reduced.
* *Names.* A file tells nodes by name and the direction of an arc by its source.
* *The table of colours* is static, has no lock, and is written on two threads;
  its slots have 64 characters, and names may have more.

`PROJECT.json` lists these at their lines under `hazards`, with the properties
that cover them.

What makes each component correct:

* Executor: the bookkeeping agrees with what is in flight; nothing enabled is
  forgotten; priorities are respected; it never sleeps for nothing; `Deadlocked`
  is true of the net; every callback completes; `fire` returns; runs do not
  disturb each other; altogether it implements the token game.
* Handle: a call made during the run is answered or takes effect. (It is not
  always so, see *Where code and documentation differ*.)
* TaskSystem: a pushed task is run once, unless the pool is destroyed.
* Nested nets: a call to a net reaches what runs inside it, nothing outlives the
  net that scheduled it, and a pool that is large enough does not lock up.
* Token registry: equal names have equal ids, different names different ids.
* Load and save: the net comes back from its file.
* Editor: an edit changes the net the way its name says, at the nodes that were
  picked, and indices in the net, the marking and the view stay valid.
* Undo history: `undo` and `redo` give back exactly the earlier states.

## 2. Modules

| Module | Models | Extends / instantiates |
|---|---|---|
| `NetStructure` | the static net and the pure functions on bags of tokens | |
| `SymmetriNet` | abstract: the token game with split firings | `NetStructure` |
| `Petri` | the executor, the workers and the clients | `NetStructure`; `TokenGame == INSTANCE SymmetriNet` |
| `MCPetri` | two small nets for TLC | `Petri` |
| `PetriProofs` | the executor, proved: types and the tracking of tasks; the bookkeeping of callbacks and the log; candidates, priorities, sleep and deadlock; that the token game is implemented; that resources are kept | `Petri`, theorem libraries |
| `TaskSystem` | the thread pool with its destructor | |
| `TaskSystemProofs` | the pool, proved | `TaskSystem`, theorem libraries |
| `UndoStack` | abstract: past, present and future documents | |
| `History` | the undo history of the editor | `Undoing == INSTANCE UndoStack` |
| `MCHistory` | documents and edits for TLC | `History` |
| `HistoryProofs` | the undo stack is implemented, proved | `History`, theorem libraries |
| `NestedNets` | nets inside nets on one pool, with the calls passed on | |
| `MCNestedNets` | three nets inside each other for TLC | `NestedNets` |
| `NestedProofs` | types, what a net leaves behind, what `fire` returns, that a net is not run twice at once, that calls reach nested nets, proved | `NestedNets`, theorem libraries |
| `NetGraph` | abstract: a net whose nodes have identities, and the edits of it | |
| `EditReducers` | the document and the edit reducers as functions of it | |
| `NetFile` | saving, parsing, installing, comparing nets | `EditReducers` |
| `Document` | edits, loads and saves, one after the other | `NetFile`; `Graph == INSTANCE NetGraph` |
| `MCDocument` | two files and what is typed, for TLC | `Document` |
| `ReducerProofs` | lemmas: every reducer and installer keeps a document sound, and what was written is read back | `NetFile`, theorem libraries |
| `DocumentProofs` | the document stays sound, nets are told apart, the graph is implemented, a saved net comes back, proved | `Document`, `ReducerProofs` |
| `Editor` | the document with the view, the queue of updates and the pool | `NetFile`; `Stack == INSTANCE UndoStack` |
| `MCEditor` | a file for TLC | `Editor` |
| `EditorProofs` | no index dangles in a reducer, edits and the selection keep to what was picked, proved | `Editor`, `ReducerProofs` |
| `Colors` | the table of colours and its constructors on several threads | |
| `MCColors` | the colour that is there at first, and names of one slot, of more, of 64 characters and of none, for TLC | `Colors` |
| `ColorsProofs` | colours are told apart and keep their names, proved | `Colors` |

### How `Petri` corresponds to the code

| Model | Code |
|---|---|
| `tokens` as a bag `[Place \X Token -> Nat]` | `std::vector<AugmentedToken>`; order only decides between candidates of equal priority, which `std::sort` leaves open |
| `scheduled_callbacks` as a bag | `std::vector<size_t>` |
| `log` as counts per transition and event | `SmallLog`; the order in which events are appended is the order of steps |
| `reducer_queue[p]` per producer | one moodycamel queue; a dequeue takes the head of any producer |
| `Job`, `closure[j]` | a task in `fireAsynchronous`: a name for the closure pushed to the pool and its two reducers, `closure[j]` the `t_i` it captured. A name is reused when the result has been applied |
| `ts`, `pc = "fire"` | the candidate list inside `fireTransitions`; a step per round of its loop |
| `pc`: `idle`, `discard`, `wait`, `batch`, `fire`, `drain` | the places in `fire` between which other threads can interleave |
| `FireStart` … `FireReturn` | `fire`, lines 32-82 of `petri_traits.cpp` |
| `Apply*` | the closures that are enqueued |
| `TakeTask`, `ReportStart`, `ReportResult` | `TaskSystem::loop` and the task of `fireAsynchronous` |
| `Controls` | `cancel`, `pause`, `resume` |
| `LoadThreadId`, then `EnqueueRequest` or `ReadUnlocked` | `getInputTransitionHandle`'s closure, `getMarking`, `getActiveTransitions`, `getLog` |

A source transition is fired only from outside: `canFire` is false for empty
inputs. A synchronous callback (direct mutation) is a firing in one step.
`Returns[t]` is the set of colours the callback of `t` may return, and tokens
are produced in that colour.

Abstracted: time stamps, `case_id`, memory reservation, names. A client's getter
that is thrown away stays blocked (`cpc = "waiting"`), as its promise does.

### How `History` corresponds to the code

`log`, `snapshots`, `cursor` are the members of `model::History`, `edit` is
`Model::edit`, which the reduce step of `reactive.h` assigns from every result.
`apply`, `undo` and `redo` are the branches of that reduce step with the member
functions they call; the guards of `undo` and `redo` are `canUndo` and
`canRedo`. The edit reducers are the operator constant `Reduce`, a function of
the document: `model.h` demands that they read nothing else. The clearing of the
selection that follows an undo is view state and left out. `timeline` is a
history variable: it records each document when it is made, so that the property
can speak of documents the code has forgotten.

### How `TaskSystem` corresponds to the code

`pc[t]` is the place of a thread in `loop`: at the queue, before the test of the
flag, in the call, or ended; `transition[t]` is its local variable. `destructor`
and `i` are the place and the loop variable of `~TaskSystem`. The queue is a set
of tasks and a number of the destructor's empty tasks, and a dequeue takes any:
the order of the real queue matters to none of the properties, which therefore
hold for every order. `pushed`, `ran` and `dropped` are history variables.
`Petri` keeps its own, simpler view of the workers: there the pool outlives the
net, which its `std::shared_ptr` ensures.

### How `NestedNets` corresponds to the code

`Petri` has one net in every detail; `NestedNets` has several, each with as much
of `fire` as they notice of each other. `pc[n]` is where the thread inside
`fire` of net `n` is, `"idle"` being a net without `thread_id_`. `TakeTask` is
the worker that takes a task from the pool and, when its callback is a net, goes
into `fire` of it (`Begin`); `Finish` is the return, which is the result of the
transition outside. `results[n]`, `calls[n]` and `noop[n]` are the reducer queue
of `n`: results come from many workers and so in any order, calls come from one
producer and stay in order. `ApplyControl` passes a call on to the callbacks
that are scheduled (`PassedOn`); `ApplyGetLog`, `Ask` and `Answer` are
`getLogInternal`, in which the loop of the outer net blocks on each inner net
that runs.

What makes it smaller: nets are safe (one token per place and colour) and free
of conflicts, so that markings, results and `scheduled_callbacks` are sets, the
order in `fireTransitions` does not matter, and the goal can be compared by
inclusion instead of exact counts. All callbacks are asynchronous. A net is on
several transitions only when these belong to the same outer net and do not run
at once, so that the test of `thread_id_` and its store are one step; the start
that is refused because the net runs already is there all the same (`TakeTask`).
Reducers that only log are left out. Ghosts: `held` says that the last of the
client's calls was a pause, `deaf` that a run has thrown away a call as it began,
`late` that one was applied after its loop, `lost` that an inner net has ended or
begun without answering the request for its log.

### How `EditReducers`, `NetFile` and `Document` correspond to the code

A document is a record with the fields of `EditState` that refer to nodes:
`place`, `transition`, `p_positions`, `t_positions`, `input_n`, `output_n`,
`p_to_ts_n`, `priority`, `output`, `tokens`, `log`, `active_file`. Each edit
reducer of `reducers.cpp` is an operator of the same name from document to
document. Nodes of the code have no identity; the field `id` of a node is a
ghost that goes with it through every renumbering. A name is a base and a number
of suffixes, which is what `uniqueName` does to names; there are two positions.

`NetFile` has a file as the content of its XML. `toXml`, `parseNet` (`readPnml`,
`readGrml`, the positions, `convert`), `appendInstaller`, `clearInstaller` and
`stateNetEquality` are operators of their names. `convert` goes through an
unordered map, so that `parseNet` is the *set* of documents with the nodes in any
order. Priorities go through `int8_t` (`% 256`).

`Document` applies them one after the other, as one sees it who waits for every
step to show. Saving is a request, which captures the document in a popup, and
the button of the popup. `NetGraph` is what all that means to a user: `NetOf`
maps a document to a net whose nodes are their ids, and every reducer has to be
one of the steps of `NetGraph`, in which an arc or a token stays at its node.

### How `Editor` corresponds to the code

The UI thread is the frame: it draws `doc` and `view`, and what is clicked pushes
*batches* of updates on `queue` (rxdispatch). `Reduce` takes the next one: an
edit (several operations composed), a change of the view, an undo or redo, or a
computation, which goes to the pool (`loading`) and comes back as an edit at any
later time (`Install`). So an index is picked in one model and used in another.
A node is picked as `<<index, id>>`, where the ghost `id` tells which node was
meant. `Draw` and `InVectors` say which indices are looked up without a test; one
that is out of range is undefined behaviour, recorded in `fault`, and nothing
happens after it. `missed` says that an edit has changed another node than was
meant, and `hasty` that a node was picked while an update was pending that
renumbers nodes. Who does that gets what the code gives him, and the
properties promise nothing then. The undo history is the abstract `UndoStack`,
which `History` is shown to implement.

### How `Colors` corresponds to the code

`colors` is the static table, whose slots hold 64 characters each and lie one
behind the other. Nothing keeps a name from being longer: the editor's field has
127 characters (`draw_tools_menu.cpp:206`), a file has no limit, and `strcpy` has no bound.
So a name is a sequence of pieces, one for each slot; the pieces in `Filling` have
no terminator, so the string goes on in the next slot, and `"empty"` is
the terminator alone. That is what a free slot holds, what a token without a name
consists of, and the last piece of a name of 64 characters.

`find` and `findSlot` are the two loops of `Token::find`, a string per step
(`Holds` reads on from slot to slot, as a `string_view` does); `Constructor` is the
test of the slot in the body of the constructor, `StrcpyBegins` and `StrcpyEnds` the
copy of a piece to the slot `At`. Between them the
slot holds `"torn"`, and when two threads have written to it, it may hold either
piece or stay torn. A torn piece is taken to be different from every other: that a
reader takes a prefix of it for a name of its own would concern only tokens about
which nothing is promised. A name that goes on behind the end of the table
(`overruns`) ends the model, as what is written to there is not known; so does the
assertion (`asserts`). `clean` is a ghost: no other constructor has run
beside this one. `freed` is one, too: a terminator has been written to a slot that
was used. That takes two threads: a token without a name, or one of 64
characters, has passed its test beside another constructor.

What is promised is about the tokens in `Certain`: made alone, with a name
that does not end with a slot. A longer name leaves its tail in the next slots,
as a colour that nobody has asked for, which nobody writes over, so it stays whole.
Of a name of 64 (or 128) characters the next slot has only the terminator and
counts as free; the next colour is appended to it (run `FullSlot`). And once
a slot among used ones has been freed, a name of two slots that is put there
overwrites what follows, so the promise is made `InOrder`: while no slot has been
freed, or for ever if all names fit. The run has long names, so there the promise
ends with a slot that is freed; that it lasts if all names fit is left to the theorems.

Definitions headed *Mutation of …* are plausible bugs in the definition that
follows them. They are not part of the specification; `PROJECT.json` names the
property each one breaks, which shows that the property can fail.

## 3. What is checked

Nets: **1** (from `tests/external_input.cpp`): two tokens moved by a callback
that may fail, a source transition, a direct mutation with an arc of weight two
and a goal. **2** (after `tests/priorities.cpp`): two transitions of different
priority, one of which needs a lock; two direct mutations of higher priority, of
which the first enables the second and the second the holder of the lock again.

| Run | Bounds | Shows |
|---|---|---|
| `Executor` | net 1; 2 workers, 1 client, 2 calls of any kind, 1 run, 4 task names | `TypeOK`, `ScheduledMatchesInFlight`, `TasksAreTracked`, `SleepsForAReason`, `DeadlockedIsDead`, `ImplementsTokenGame` |
| `Rerun` | net 2; 2 workers, 2 calls of cancel, pause, resume, 2 runs, 3 task names, fairness | `NothingLeftBehind`, `LogLifecycle`, `ResourcesAreKept`, `CandidatesCoverEnabled`, `PriorityRespected`, `CallbackCompletes`, `FireReturns` |
| `Nested` | 3 nets inside each other, 3 threads, 2 calls, fairness | `NestedTypeOK`, `NoWorkOutlivesItsNet`, `NetsRunAlone`, `ControlReachesNested`, `OutcomeHolds`, `RootReturns` |
| `Pool` | 2 threads, 3 tasks, a destructor at any time, fairness | `PoolTypeOK`, `EachTaskInOnePlace`, `NobodySleepsThroughTheEnd`, `PushedTaskRuns`, `DestructorReturns` |
| `Colors` | 2 threads, a table of 4 with one used, 4 tokens of 5 names: two that fit, one of more than 64 characters, one of 64, one empty | `ColorsTellApart`, `ColorsKeepTheirNames`, `AssertsWhenFull` |
| `History` | 3 edits, snapshot every 2, log of at most 5 | `HistoryTypeOK`, `HistoryIsConsistent`, `ImplementsUndoStack` |
| `Editing` | 3 edits, loads and saves, from an empty document or one of two files; 2 arcs on each side of a transition | `DocumentIsSound`, `SavedNetComesBack`, `NetsAreToldApart`, `ImplementsNetGraph` |
| `Editor` | 2 edits, 4 clicks, 3 updates in the queue, 1 hasty pick | `DocumentSurvives`, `EditsHitWhatWasPicked`, `SelectionIsCurrent` |

Why the bounds are enough. Two instances of one transition in flight at once, a
result and a start of different workers in one batch, a trigger next to a cancel
or a pause, and a drain with work left are all reached; a third worker or call
adds only copies of these. With two calls every ordered pair of controls occurs
at every point of the run. `Job` holds as many names as callbacks can be in
flight (two firings of `t1` and two triggers), so that the bound never blocks
a firing (`ta` and `tb` in net 2, where the lock lets one `ta` run at a time). The
second run is there for what is left behind by the first; triggers in a second
run are covered by the theorems only. Both nets are acyclic, so a run has finitely many firings; a cycle of direct mutations
would keep `fireTransitions` busy forever, which is a property of the net.

For `History`: a log of five edits with a snapshot after every second has three
snapshots, an incomplete last stretch, and truncations before, at and after each
checkpoint. The edits (add one, double, set to five) neither commute nor have
inverses, so a replay that starts at the wrong place or skips an edit shows.

For `Pool`: two threads and three tasks reach a destructor that finds one thread
busy, the other about to test the flag and tasks still in the queue; the proofs
of section 4 cover other numbers.

For `Nested`: the outer net runs the middle one twice, so that a second run meets
what the first one left; the middle one is at its goal while the inner one still
runs, so that it has to drain over a net. Three threads are one for each nested
net and one more; with two, TLC finds the nets waiting for each other, which is
why `RootReturns` is about a pool of that size. Each condition in the properties
is needed: without `held`, `lost`, `deaf` or `late` TLC finds a run that ends
otherwise (the root stays paused; it waits for a log; the inner net runs on
under a net that is paused or cancelled; a late call replaces the result).

For `Editing`: three steps are enough to remove a node next to one that was just
connected, or to append a net behind a removal, and the files have what is hard
to get by hand: a place consumed from in two colours, a multiple arc, a place
without arcs, a priority beyond 8 bits (200, from GRML; -200 is typed). `MaxArcs`
only bounds what is drawn by hand. `KeepsStrays = FALSE` leaves out saving a
document of which the file would have a marked place without arcs (`NoStrays`):
one that has none, or one whose name was given to a transition as well, so that
its arcs are read as arcs of that. With `TRUE` and four steps TLC
finds that `DocumentIsSound` fails after it is saved and loaded: the place is
not in the net that is parsed, but its tokens are, at an index that is no
place's (`load_file.cpp:72`).

For `Editor`: two edits are an edit and the one that runs into it; four clicks
select two nodes or an arc and open a menu; a queue of three holds a batch and
another one behind it. More than one hasty pick would only make more states in
which the properties promise nothing.

For `Colors`: three free slots and four constructors on two threads can race for a
slot, put a long name in front of, behind or beside another one, fill the table
and ask once more. The proofs of section 4 cover the rest, such as a slot that is
freed between two used ones and any number of threads.

Deadlock is not checked for the executor: the system stops when `fire` has
returned for the last time and no calls are left, and a paused net nobody
resumes waits. Nor is it for the pool, which stops when its destructor has
returned, nor for the others, which stop at their bounds.

Fairness of `Pool`: each thread, and a destructor that was entered; tasks return.
Fairness of the executor (`Rerun` and `GetterAtReturn`): weak fairness
of the loop, of each worker and of each client inside a call. The operating system schedules
threads that are not blocked, the loop's `wait_dequeue` returns when there is a
reducer, and callbacks are assumed to return. Nobody is obliged to call
anything, hence *unless it stays paused* in `FireReturns`. Fairness of `Nested`:
the loop of each net, and each task, which some worker takes when one is free;
again callbacks return and nobody is obliged to call.

### Where code and documentation differ

| Run | Claim | What happens |
|---|---|---|
| `GetterAtReturn` (`GetterReturns`) | getters are "thread-safe" during execution (`symmetri.h:109`) | the loop ends between test and enqueue: the caller blocks forever |
| `DanglingSelection` (`NothingDangles`) | fields that index into the net are reset "whenever EditState changes structurally beneath the view" (`model.h:153`) | `removeArc` closes the menu only: the highlighted arc is looked up out of range |
| `FullSlot` (`SameColorSameIndex`) | "Tokens that have the same color are not distinguishable" (`colors.hpp:68`) | the terminator of a name of 64 characters goes into the next slot, where the next colour is written over it: the name is not found again and gets a second index, on one thread |
| `UnequalArcs` (`EqualNetsHaveEqualArcs`) | `stateNetEquality` "checks if two petri-nets have equal amount of arcs between places and transitions of the same name" (`utilities.hpp:68`) | it looks at the arcs of the first net: where that has none on a side of a transition, the second may have any (`types.cpp:23`) |

The models have more effects of the same kind, without a run of their own.

* A trigger that is applied after a cancel still schedules its callback
  (`ApplyTrigger` does not look at the state), although cancel "will not queue any
  new Callbacks" (`types.h:93`).
* A pause in the same batch as a cancel, after it, undoes it (`types.h:92`: cancel
  "breaks the PetriNets' internal loop").
* A getter that found the net at rest reads while `fire` has begun (`ReadUnlocked`),
  and a trigger that found it running is lost when the loop ends.
* "The net terminates if this is reached" (`README.md:47`) holds of the marking
  after a batch: two results in one batch can pass through the goal.
* A pause or a resume that is applied while `fire` waits for its last callbacks
  replaces the result.
* A call to a nested net that comes as it begins is thrown away with the leftovers
  of the run before; when it is a getLog, the outer net waits for good.
* A token without a name is found in the first free slot and leaves it free, so the
  next colour has the same index; beside another constructor it can empty a slot.
* `TaskSystem(0)` has no thread (`tasks.cpp:28`), although the number "if less then 1,
  […] defaults to std::thread::hardware_concurrency()" (`tasks.h:39`): what is
  pushed is never called.
* A name of more than 64 characters takes as many slots as it needs, so the table
  is full before there are 128 colours (`colors.hpp:132` speaks of
  `kMaxTokenColors`), its tail counts as a colour, and in the last slots it is
  written behind the table.

## 4. What is proved

TLAPS checks these theorems for every net, any number of threads, jobs, calls and
runs, any nesting of nets, any size of the pool and of the table of colours, any
documents, files and numbers that are typed, and for `History` for every set of
documents and edits, every distance of snapshots and a log of any length.

| Theorem | Module | States |
|---|---|---|
| `TypeCorrect` | `PetriProofs` | `TypeOK` |
| `TasksTracked` | `PetriProofs` | `TasksAreTracked` |
| `ScheduledIsInFlight` | `PetriProofs` | `ScheduledMatchesInFlight` |
| `NothingIsLeftBehind` | `PetriProofs` | `NothingLeftBehind` |
| `LogTellsLifeCycle` | `PetriProofs` | `LogLifecycle` |
| `CandidatesAreComplete` | `PetriProofs` | `CandidatesCoverEnabled` |
| `LoopSleepsForAReason` | `PetriProofs` | `SleepsForAReason` |
| `DeadlockIsReal` | `PetriProofs` | `DeadlockedIsDead` |
| `PrioritiesHold` | `PetriProofs` | `PriorityRespected` |
| `ExecutorImplementsTokenGame` | `PetriProofs` | `ImplementsTokenGame` |
| `ResourcesKept` | `PetriProofs` | `ResourcesAreKept` |
| `PoolTypeCorrect` | `TaskSystemProofs` | `PoolTypeOK` |
| `TasksInOnePlace` | `TaskSystemProofs` | `EachTaskInOnePlace` |
| `DestructorWakesAll` | `TaskSystemProofs` | `NobodySleepsThroughTheEnd` |
| `NestedTypeCorrect` | `NestedProofs` | `NestedTypeOK` |
| `NothingOutlivesItsNet` | `NestedProofs` | `NoWorkOutlivesItsNet` |
| `FireTellsTheTruth` | `NestedProofs` | `OutcomeHolds` |
| `TurnsAreAlone` | `NestedProofs` | `NetsRunAlone`, where nets `TakeTurns` |
| `ControlReaches` | `NestedProofs` | `ControlReachesNested`, where `NetsRunAlone` holds |
| `ControlReachesInTurns` | `NestedProofs` | `ControlReachesNested`, where nets `TakeTurns` |
| `ControlReachesTree` | `NestedProofs` | `ControlReachesNested`, where each net is on one transition |
| `ColorsKeep` | `ColorsProofs` | `ColorsKeepTheirNames`, for names of any length |
| `ColorsAreTold` | `ColorsProofs` | `ColorsTellApart`, for names of any length |
| `AssertionMeansFull` | `ColorsProofs` | `AssertsWhenFull` |
| `HistoryTypeCorrect` | `HistoryProofs` | `HistoryTypeOK` |
| `HistoryConsistent` | `HistoryProofs` | `HistoryIsConsistent` |
| `HistoryImplementsUndoStack` | `HistoryProofs` | `ImplementsUndoStack` |
| `StructureKept` | `DocumentProofs` | `DocumentIsSound` but for the tokens |
| `DocumentStaysSound` | `DocumentProofs` | `DocumentIsSound`, where `KeepsStrays` is false and the files have no strays |
| `NetsTold` | `DocumentProofs` | `NetsAreToldApart` |
| `DocumentIsGraph` | `DocumentProofs` | `ImplementsNetGraph`, where `KeepsStrays` is false and the files have no strays |
| `SavedComesBack` | `DocumentProofs` | `SavedNetComesBack`, under the same hypotheses |
| `EditorTended` | `EditorProofs` | the inductive invariant of the editor |
| `DocumentsSurvive` | `EditorProofs` | `DocumentSurvives`, where the files have no strays |
| `EditsHit` | `EditorProofs` | `EditsHitWhatWasPicked` |
| `SelectionStaysCurrent` | `EditorProofs` | `SelectionIsCurrent` |

Assumptions. `StructureAssumption` gives the constants of a net their types, says
that there are finitely many places, colours and transitions and that a callback
can return something. `PetriAssumption` says that the two markers for "no transition" and
"no task" are not one, and types the bounds. `HistoryAssumption` says that the
edits yield documents and that `kSnapshotEvery` is positive, `PoolAssumption`
that the number of threads is a natural number, also zero, and that no task is the marker for none.
`NestedAssumption` types the constants of the nets and says that nobody runs the
root, that all transitions that run one net belong to one net, and that the nets
are free of conflicts (no place is an input of two transitions).
`ColorsAssumption` says that the names that are there at first take a slot each
and fit in the table, that all pieces of a name but the last fill their slots, and
that no piece is the marker for a torn one; nothing is assumed of the length of a
name. `DocumentAssumption` says that
every path has a file, if a missing one, whose nodes and arcs are lists and whose
colours are those of the model (the parsers make a `Token` of every colour they
read), and that numbers are numbers. `EditorAssumption` says the first of this of the files of
the editor, and that the net it is started with is one of them. (`TokenAssumption`,
that Success is a colour, is only used by runs.) TLC evaluates all of them. The
hypothesis of `DocumentsSurvive` is the one of `DocumentStaysSound` without the
saved documents, as nothing is saved in `Editor`.

The arguments:

* `Tracked == TypeOK /\ TasksAreTracked` is inductive, neither part is alone: a
  result in the queue names a task, and that the task is one of the run and has
  a transition is only known because each task is in one place. Most of the
  proof says what taking a task, enqueueing behind a producer's queue and
  dequeueing its head do to the positions of the reducers.
* `Books == ScheduledMatchesInFlight /\ Finite /\ Quiet` counts. A bag of
  transitions and a set of tasks agree if each step adds or removes one of both,
  which needs the sets to be finite; `Quiet` (no callback between two runs)
  makes it survive the clearing of `scheduled_callbacks` at the start of `fire`.
* `LogBooks`, on top of it, says that what has started and not ended is what has
  `Begun`: the tasks in flight but for those whose start is still to be logged
  (`Due`: queued, taken, or reported to a queue). For a dequeue to make just one
  start no longer due, no start may be in two places (`StartsOnce`), which
  `TasksAreTracked` does not say. The leftovers that the next run throws away do
  not count: with nothing in flight no start or result is among them
  (`QuietLeavesNothing`).
* `Scheduling` says of the candidate list that it holds everything enabled and
  is sorted, and of `Deadlocked` that it stays true of the net once it is
  assigned. The lemmas under it are the reason why the list may be edited in
  place: taking tokens enables nothing, and producing them enables only
  transitions downstream.
* The token game keeps resources: a set of places from which every transition
  takes as much as it gives, such as a lock with the places of its holders, has as
  many tokens as at first, when those that are held by scheduled transitions
  (`HeldFrom`) are counted. The tokens are counted as numbered elements of finite
  sets, one for each unit of the bag, so that a firing is a bijection and no
  sum over a bag has to be proved by induction. `ResourcesKept` follows because
  the executor implements the token game; a second run begins with `Insert`.
* The refinement adds `ResultsAreReturned`: the colour in a queued result is one
  its callback may return, for which the token game asks.
* `PoolInv` counts in `EnoughWakeups`: while stopping, the threads that still
  have to dequeue are at most as many as the empty tasks that are queued or to
  come. A thread that takes an ordinary task instead ends as well and leaves one
  over; so a sleeping thread always finds something.
* `HistoryInv`, types and consistency, is inductive because of what
  `materialize` computes (`Materialized`). That is an induction over the log,
  by looking at the first position where replay and timeline differ; it has a
  least element because `<` on the naturals is well-founded.
* `WorkInv`, for nested nets: a task or a result of it, never both and of results
  only one, belongs to a transition that its net has in `scheduled`; a net that
  has ended or only begins has nothing in `scheduled`; and a net that runs is
  run by a task. A net may only end with `scheduled` empty, and then nothing of it
  is in the pool, so no inner net is running either. The rest of the invariant
  says which states go with which part of `fire` (`StateFollowsLoop`) and that an
  outcome stays true from where it is set (`StateIsTrue`), for which no result may
  come in that changes the tokens later.
* `HearInv`, on top of it, says that the state of an inner net `Follows` that of
  the net around it: it is what the last call in its queue will make it, or the
  same if there is none; and that no call is `Unheard`, that is, as long as an
  inner net has not begun, what the outer net was told is still in the queue of
  the inner one. A call is passed on to the transition that runs the net, so with
  two transitions of one net at work, the one that waits for a thread would be
  passed over: hence the premise `NetsRunAlone`, which follows from the shape of the nets.
* `TurnInv`: a set of places in which a net has one token at first, and to which a
  transition gives at most what it takes (`OneTurn`), has its token in one place
  or with one scheduled transition, never more. Two transitions that both take
  from such a set are never scheduled together, whatever the callbacks return;
  nets whose transitions that run the same net share such a set `TakeTurns`.
  The nets of the run `Nested` do (`OuterTakesTurns`), and so does a tree of nets
  in which each is on one transition (`ControlReachesTree`).
* `ColorsInv` follows a thread through the loops of `find` and `findSlot`. Of the
  slots of a token that was made alone it says that no thread writes to them and
  that a thread that looks for its name has not passed it (`Clear`). The
  threads that look for other names and race for slots can then do what they
  like. Nothing is said about a name that is in two slots, which can happen.
  That a name of several slots is not run over by one that begins before it
  rests on the order in which slots are taken: as long as none is freed the used
  ones come first (`UsedFirst`), so who has found a free slot is behind all of them.
  That `find` takes no other string for the name rests on its last piece: it does
  not fill its slot, the pieces before it do (`HeldNamesAreEqual`, and the end of
  `StrcpyEndsKeeps`).
* `StructureInv`: the document has the `Structure` that `DocumentIsSound` asks for,
  but for its tokens, with every part a sequence, and every file that can be
  loaded is well-formed, also the one that the popup is about to write. There is
  one lemma for each reducer (`RemovePlaceSound`, `AddArcSound`, ...) and for
  `parseNet`, the two installers and `toXml`. They rest on what `Append`, `\o`,
  `RemoveAt`, `FlattenSeq` and `toIndex` return, element by element. The tokens
  need `NoStraysAnywhere` besides: no file, read or about to be written, has a
  marked place that is missing from its net. That every saved document is
  like that is the hypothesis `KeepsStrays = FALSE` of `DocumentStaysSound`; it
  is a restriction of what the user does, and TLC shows that the tokens need it.
  `StructureKept` has no hypothesis. TLC has checked `StructureInv` and
  `NoStraysAnywhere` with the constants of the run `Editing`.
* `EditorInv` has two parts. `Always` holds whatever is picked when: the history is
  in order and the vectors of every document in it are aligned (`Loose`), because a
  reducer that is given a wrong index, if it survives, still treats all vectors
  alike. `Tended` holds as long as nothing was picked in haste, and cannot hold
  longer: an index that was picked before a removal is reduced after it. It says
  of every document of the history that it is sound, so that undo and redo may
  bring back any of them, and of what is under way (`Waiting`) that
  each pick in the queue denotes in the document of now what was meant, with
  nothing before it in the queue, and nothing in the pool, that renumbers
  (`Unshifted`); that an edit is one of the batches the UI makes (`Wholes`);
  that the selection is cleared right after each removal (`ClearsAfter`), before each
  load that replaces the net (`ClearsBefore`) and until that has come in
  (`BlankWhileLoading`); and that it refers to the document of now unless it is
  still to be cleared (`Following`). Each is needed to keep another. The batches
  of several removals need besides that what the first ones remove does not
  move the later ones (`Careful`): they go from the highest index down, which
  `Ordered` does.
* `Composed` folds a batch. Instead of an induction over it, its `Runs` are compared at
  the first position where they differ, or where `Careful` ends, as above.
* `NetsTold` counts without induction: if each arc of the first list is as often
  in the second, then the places of each arc are in bijection, and together these
  are an injection of all positions (`Rearranged`). With equal lengths it is
  onto, so the second list has no other arcs; from equal bags there is one in
  each direction, so the lengths are equal. Where the first list is empty the
  second one is looked at when the nets are asked for in the other order.
* `GraphInv` adds to `StructureInv` and `NoStraysAnywhere` that the nodes of a
  document are `Told` apart by their ids, and that colours in files are colours
  (`FilesColored`). With ids told apart, `NetOf` can be inverted: the bag of
  an index is the bag of its id, and a renumbering of indices is a relabelling
  under which no two entries of a bag fall together. So each reducer has a lemma
  (`RemovePlaceNet`, `AddArcNet`, `TryFireNet`, ...) that says what it does to
  `NetOf`, and the lemmas on actions (`NodesStep`, `ArcsStep`, `TokensStep`, ...)
  say that this is the step of `NetGraph` of that name. `removePlace` is where this could go wrong: the
  marking and the arcs lose the entries of the place and keep all others under a
  smaller index, at the same id. A load is a step of the graph
  because in a net that was parsed every node has an arc (`Connected`), and the
  installers bring fresh ids and shift what they append behind the old net, which
  keeps its arcs and tokens. That no stray is read is needed for `AtPlaces`: a
  token at an index that is no place's has no id.
* `SavedBack` needs no more of a document than `GraphInv`, and no induction over
  the lists that `toXml` writes and the parser collects: the positions of a
  `FlattenSeq` are in bijection with the cells of its parts (`FlattenLists`). So
  the arcs of the file are those of the document, and as names tell nodes apart,
  the parser finds for each its transition, its place and its direction
  (`ReadBack`). The ends it collects for a transition are a rearrangement of the
  transition's arcs, so their bags are equal (`SameBags`, `EndsSaved`), and a
  position or a marking is found under the one name that it was written with
  (`PositionsSaved`, `TokensSaved`).

Only model-checked: `CallbackCompletes`, `FireReturns`, `PushedTaskRuns`,
`DestructorReturns` and `RootReturns` (liveness is beyond the prover), and the
four runs that end in a violation. Every other property of a run is stated by a
theorem.

There is no induction over data in the prover, but a set of naturals has a least
element because the inclusion of intervals is well-founded (`LeastNat`, and
`Materialized` for the history), and that is enough for `FlattenSeq` and `toIndex`.

## 5. What is not modelled

* Vendored code: the queues, the small vector, the reactive library and the file
  browser, which are four fifths of the lines under `src/symmetri`. The queues
  appear by their promise: first in, first out for each producer, and a dequeue
  that blocks. The reactive library appears as the order in which updates are
  reduced.
* Geometry and drawing, main loops, the formatting of names, of XML and of the
  trace, and file access, but for a file that is missing.
* Time stamps, `case_id` and the end times shared by the instances of a callback.
* `registerCallback`, `registerCallbackInPlace` and `reuseApplication`, which test
  `thread_id_` and write afterwards, and a second thread that fires one net.
* The merging of several files into one net (the editor passes one).
* The event log as the editor shows it. A removal shifts every index but those
  of the log, and nothing says what it should show then.
* What a text field of the editor holds while it is typed in, the order of the
  transitions in the simulation menu, numbers that `std::stoi` refuses, and how
  long an idle frame waits for an update.
* In the editor's view: zoom, scrolling, hover, the grid and the colour table,
  which refer to no node.

## 6. Plan

Done: everything in section 2. The executor came first because everything else calls it;
then the pool and the undo history, each with an abstract specification or a
proof; then the reducers against `NetGraph`, the dispatch over them, nested
nets and the table of colours.

Left, in this order:

1. `Petri` extended by `registerCallback`, `reuseApplication` and a second caller
   of `fire`.
2. Parsers: several files in one net, against their union as a reference.
