---------------------------------- MODULE Petri ----------------------------------
(***************************************************************************)
(* The executor of one Petri net: the thread that is inside `fire' runs    *)
(* the loop and is the only one that changes the net; the workers of the   *)
(* pool run callbacks; clients call the public functions.  They meet in    *)
(* two queues.  The loop pushes tasks to the pool, and workers and clients *)
(* enqueue reducers, the closures that the loop applies to the net.        *)
(*                                                                         *)
(* `reducer_queue' is a moodycamel queue, which is FIFO per producing      *)
(* thread only: it is a sequence per producer, and a dequeue may take the  *)
(* head of any of them.  The pool's queue has a single producer here, the  *)
(* loop, so it is one sequence.  Enqueue and dequeue are atomic.           *)
(***************************************************************************)
EXTENDS NetStructure

CONSTANTS
    Worker,         \* the threads of the TaskSystem
    Client,         \* threads that call the public functions
    Runner,         \* the thread that calls fire
    Job,            \* names for the closures pushed to the pool
    NoTransition,   \* "this name is free"
    NoJob,          \* "this worker has no task"
    Calls,          \* the functions that clients call
    MaxCalls,       \* bound: calls made by one client
    MaxRuns         \* bound: how often fire is called

VARIABLES
    \* members of Petri
    thread_id_,             \* TRUE while a thread is registered as running it
    state,
    tokens,
    scheduled_callbacks,    \* bag of transitions
    log,                    \* [Transition -> [Event -> Nat]], see Event
    reducer_queue,          \* [Producer -> Seq(Reducer)]
    \* the thread inside fire
    pc,
    ts,                     \* local of fireTransitions
    result,                 \* what the last call of fire returned
    runs,
    \* the pool
    pool_queue,
    closure,                \* [Job -> Transition]: the closures that exist
    wpc,
    wjob,
    \* the clients
    cpc,
    request,                \* the reducer a client is about to enqueue
    calls

netVars    == <<state, tokens, scheduled_callbacks, log>>
loopVars   == <<thread_id_, pc, ts, result, runs>>
poolVars   == <<pool_queue, closure>>
workerVars == <<wpc, wjob>>
clientVars == <<cpc, request, calls>>
vars == <<netVars, loopVars, reducer_queue, poolVars, workerVars, clientVars>>

Producer == Worker \cup Client \cup {Runner}

Call == {"cancel", "pause", "resume", "trigger", "get"}

ASSUME PetriAssumption ==
    /\ NoTransition \notin Transition
    /\ NoJob \notin Job
    /\ Calls \subseteq Call
    /\ MaxCalls \in Nat
    /\ MaxRuns \in Nat

(***************************************************************************)
(* The events of the log that the properties distinguish.  The log is an   *)
(* append-only vector; a prefix of it is a state, so counting each kind of *)
(* event per transition keeps the order in which they were appended        *)
(* visible to the properties.  "End" is an event whose state is the result *)
(* of the callback.                                                        *)
(***************************************************************************)
Event == {"Scheduled", "Started", "Cancel", "End"}

NetState == {"Scheduled", "Started", "Paused", "Canceled", "Deadlocked", "Success"}

(***************************************************************************)
(* The reducers, by the closure that is enqueued: cancel, pause and        *)
(* resume; an input-transition handle; getMarking, getActiveTransitions    *)
(* and getLog ("get"), which answer a waiting client; the two reducers of  *)
(* a task; and the empty one that makes the first pass of the loop.        *)
(***************************************************************************)
Noop       == [kind |-> "noop"]
Control(k) == [kind |-> k]
Trigger(t) == [kind |-> "trigger", t |-> t]
Get(c)     == [kind |-> "get", client |-> c]
StartOf(j) == [kind |-> "started", job |-> j]
ResultOf(j, res) == [kind |-> "result", job |-> j, result |-> res]

ClientReducer ==
    [kind : {"noop", "cancel", "pause", "resume"}]
        \cup [kind : {"trigger"}, t : InputTransition]
        \cup [kind : {"get"}, client : Client]

Reducer ==
    ClientReducer
        \cup [kind : {"started"}, job : Job]
        \cup [kind : {"result"}, job : Job, result : Token]

Nothing == [t \in Transition |-> 0]

Logged(l, t, e) == [l EXCEPT ![t][e] = @ + 1]

Init ==
    /\ thread_id_ = FALSE
    /\ state = "Scheduled"
    /\ tokens = initial_tokens
    /\ scheduled_callbacks = Nothing
    /\ log = [t \in Transition |-> [e \in Event |-> 0]]
    /\ reducer_queue = [p \in Producer |-> <<>>]
    /\ pc = "idle"
    /\ ts = <<>>
    /\ result = "none"
    /\ runs = 0
    /\ pool_queue = <<>>
    /\ closure = [j \in Job |-> NoTransition]
    /\ wpc = [w \in Worker |-> "idle"]
    /\ wjob = [w \in Worker |-> NoJob]
    /\ cpc = [c \in Client |-> "idle"]
    /\ request = [c \in Client |-> Noop]
    /\ calls = [c \in Client |-> 0]

-----------------------------------------------------------------------------
(***************************************************************************)
(* The reducer queue.                                                      *)
(***************************************************************************)
Enqueue(p, r) == reducer_queue' = [reducer_queue EXCEPT ![p] = Append(@, r)]

Dequeue(p) ==
    /\ reducer_queue[p] # <<>>
    /\ reducer_queue' = [reducer_queue EXCEPT ![p] = Tail(@)]

Front(p) == Head(reducer_queue[p])

QueueEmpty == \A p \in Producer : reducer_queue[p] = <<>>

(***************************************************************************)
(* `fireAsynchronous' (its marking has been deducted by the caller).       *)
(***************************************************************************)
fireAsynchronous(t) ==
    /\ scheduled_callbacks' = [scheduled_callbacks EXCEPT ![t] = @ + 1]
    /\ log' = Logged(log, t, "Scheduled")
    /\ \E j \in Job : closure[j] = NoTransition
    /\ LET j == CHOOSE j \in Job : closure[j] = NoTransition
       IN  /\ closure' = [closure EXCEPT ![j] = t]
           /\ pool_queue' = Append(pool_queue, j)

-----------------------------------------------------------------------------
(***************************************************************************)
(* What each reducer does when the loop applies it.  All of them leave ts  *)
(* and the loop's control state to the action that applies them.           *)
(***************************************************************************)
ApplyNoop(r) ==
    /\ r.kind = "noop"
    /\ UNCHANGED <<netVars, poolVars, cpc>>

(***************************************************************************)
(* Mutation of ApplyCancel: forgets the callbacks it cancels.              *)
(***************************************************************************)
ApplyCancelForgets(r) ==
    /\ r.kind = "cancel"
    /\ state' = "Canceled"
    /\ scheduled_callbacks' = Nothing
    /\ log' = [t \in Transition |->
                [log[t] EXCEPT !["Cancel"] = @ + scheduled_callbacks[t]]]
    /\ UNCHANGED <<tokens, poolVars, cpc>>

(***************************************************************************)
(* The children are callbacks without a cancel, pause or resume of their   *)
(* own here: the defaults of callback.h do nothing.                        *)
(***************************************************************************)
ApplyCancel(r) ==
    /\ r.kind = "cancel"
    /\ state' = "Canceled"
    /\ log' = [t \in Transition |->
                [log[t] EXCEPT !["Cancel"] = @ + scheduled_callbacks[t]]]
    /\ UNCHANGED <<tokens, scheduled_callbacks, poolVars, cpc>>

ApplyPause(r) ==
    /\ r.kind = "pause"
    /\ state' = "Paused"
    /\ UNCHANGED <<tokens, scheduled_callbacks, log, poolVars, cpc>>

ApplyResume(r) ==
    /\ r.kind = "resume"
    /\ state' = "Started"
    /\ UNCHANGED <<tokens, scheduled_callbacks, log, poolVars, cpc>>

ApplyTrigger(r) ==
    /\ r.kind = "trigger"
    /\ fireAsynchronous(r.t)
    /\ UNCHANGED <<state, tokens, cpc>>

ApplyGet(r) ==
    /\ r.kind = "get"
    /\ cpc' = [cpc EXCEPT ![r.client] = "idle"]
    /\ UNCHANGED <<netVars, poolVars>>

ApplyStarted(r) ==
    /\ r.kind = "started"
    /\ log' = Logged(log, closure[r.job], "Started")
    /\ UNCHANGED <<state, tokens, scheduled_callbacks, poolVars, cpc>>

(***************************************************************************)
(* Mutations of ApplyResult: takes every instance of the transition out of *)
(* the scheduled ones (erase-remove instead of swap and pop); and produces *)
(* tokens only when the callback succeeded.                                *)
(***************************************************************************)
ApplyResultErasesAll(r) ==
    LET t == closure[r.job] IN
    /\ r.kind = "result"
    /\ IF scheduled_callbacks[t] > 0
         THEN /\ tokens' = produce(tokens, t, r.result)
              /\ scheduled_callbacks' = [scheduled_callbacks EXCEPT ![t] = 0]
         ELSE UNCHANGED <<tokens, scheduled_callbacks>>
    /\ log' = Logged(log, t, "End")
    /\ closure' = [closure EXCEPT ![r.job] = NoTransition]
    /\ UNCHANGED <<state, pool_queue, cpc>>

ApplyResultOfSuccess(r) ==
    LET t == closure[r.job] IN
    /\ r.kind = "result"
    /\ scheduled_callbacks' = [scheduled_callbacks EXCEPT ![t] = @ - 1]
    /\ tokens' = IF r.result = "Success" THEN produce(tokens, t, r.result) ELSE tokens
    /\ log' = Logged(log, t, "End")
    /\ closure' = [closure EXCEPT ![r.job] = NoTransition]
    /\ UNCHANGED <<state, pool_queue, cpc>>

(***************************************************************************)
(* The result of a callback: only when its transition is still among the   *)
(* scheduled ones are the tokens produced; the event is logged anyway.     *)
(***************************************************************************)
ApplyResult(r) ==
    LET t == closure[r.job] IN
    /\ r.kind = "result"
    /\ IF scheduled_callbacks[t] > 0
         THEN /\ tokens' = produce(tokens, t, r.result)
              /\ scheduled_callbacks' = [scheduled_callbacks EXCEPT ![t] = @ - 1]
         ELSE UNCHANGED <<tokens, scheduled_callbacks>>
    /\ log' = Logged(log, t, "End")
    /\ closure' = [closure EXCEPT ![r.job] = NoTransition]
    /\ UNCHANGED <<state, pool_queue, cpc>>

Apply(r) ==
    \/ ApplyNoop(r)
    \/ ApplyCancel(r)
    \/ ApplyPause(r)
    \/ ApplyResume(r)
    \/ ApplyTrigger(r)
    \/ ApplyGet(r)
    \/ ApplyStarted(r)
    \/ ApplyResult(r)

(***************************************************************************)
(* Mutation of RunReducer: takes the newest reducer of a producer.         *)
(***************************************************************************)
RunReducerNewest(p) ==
    LET q == reducer_queue[p] IN
    /\ q # <<>>
    /\ reducer_queue' = [reducer_queue EXCEPT ![p] = SubSeq(q, 1, Len(q) - 1)]
    /\ Apply(q[Len(q)])
    /\ UNCHANGED <<thread_id_, ts, result, runs, workerVars, request, calls>>

(***************************************************************************)
(* Takes a reducer out of the queue and applies it: `f(m)'.                *)
(***************************************************************************)
RunReducer(p) ==
    /\ Dequeue(p)
    /\ Apply(Front(p))
    /\ UNCHANGED <<thread_id_, ts, result, runs, workerVars, request, calls>>

-----------------------------------------------------------------------------
(***************************************************************************)
(* The loop, `fire' of petri_traits.cpp, one action per step another       *)
(* thread can interleave with.                                             *)
(***************************************************************************)
FireStart ==
    /\ pc = "idle"
    /\ ~thread_id_
    /\ runs < MaxRuns
    /\ thread_id_' = TRUE
    /\ scheduled_callbacks' = Nothing
    /\ tokens' = initial_tokens
    /\ state' = "Started"
    /\ pc' = "discard"
    /\ runs' = runs + 1
    /\ result' = "none"
    /\ UNCHANGED <<log, ts, reducer_queue, poolVars, workerVars, clientVars>>

(***************************************************************************)
(* "get rid of old reducers".  A client whose getter is thrown away stays  *)
(* blocked on its future: the closure only held a reference to a promise   *)
(* on that client's stack.                                                 *)
(***************************************************************************)
Discard(p) ==
    /\ pc = "discard"
    /\ Dequeue(p)
    /\ UNCHANGED <<netVars, loopVars, poolVars, workerVars, clientVars>>

EnqueueNoop ==
    /\ pc = "discard"
    /\ QueueEmpty
    /\ Enqueue(Runner, Noop)
    /\ pc' = "wait"
    /\ UNCHANGED <<netVars, thread_id_, ts, result, runs, poolVars, workerVars,
                   clientVars>>

(***************************************************************************)
(* Blocking dequeue at the top of the loop, then try_dequeue until empty.  *)
(***************************************************************************)
WaitDequeue(p) ==
    /\ pc = "wait"
    /\ state \in {"Started", "Paused"}
    /\ RunReducer(p)
    /\ pc' = "batch"

BatchDequeue(p) ==
    /\ pc = "batch"
    /\ RunReducer(p)
    /\ UNCHANGED pc

Reached == MarkingReached(tokens, final_marking)

(***************************************************************************)
(* The batch is over.  The first step of fireTransitions, collecting and   *)
(* sorting the candidates, belongs to it.                                  *)
(***************************************************************************)
BatchDone ==
    /\ pc = "batch"
    /\ QueueEmpty
    /\ state' = IF Reached THEN "Success" ELSE state
    /\ IF state' = "Started"
         THEN /\ pc' = "fire"
              /\ ts' \in SortedByPriority(possibleTransitions(tokens))
         ELSE pc' = "wait" /\ UNCHANGED ts
    /\ UNCHANGED <<tokens, scheduled_callbacks, log, thread_id_, result, runs,
                   reducer_queue, poolVars, workerVars, clientVars>>

(***************************************************************************)
(* One round of the loop of fireTransitions: the front transition          *)
(* cannot fire and is dropped, or is scheduled on the pool, or is run at   *)
(* once.  It stays in front for as long as it can fire again.              *)
(***************************************************************************)
DropFront ==
    /\ pc = "fire"
    /\ ts # <<>>
    /\ ~Enabled(Head(ts), tokens)
    /\ ts' = Tail(ts)
    /\ UNCHANGED <<netVars, thread_id_, pc, result, runs, reducer_queue,
                   poolVars, workerVars, clientVars>>

FireFrontAsync(t) ==
    /\ pc = "fire"
    /\ ts # <<>>
    /\ t = Head(ts)
    /\ t \notin Synchronous
    /\ Enabled(t, tokens)
    /\ tokens' = deductMarking(tokens, input_n[t])
    /\ fireAsynchronous(t)
    /\ ts' = IF Enabled(t, tokens') THEN ts ELSE Tail(ts)
    /\ UNCHANGED <<state, thread_id_, pc, result, runs, reducer_queue,
                   workerVars, clientVars>>

(***************************************************************************)
(* Mutation of FireFrontSync: does not sort again.                         *)
(***************************************************************************)
FireFrontSyncUnsorted(t, res) ==
    /\ pc = "fire"
    /\ ts # <<>>
    /\ t = Head(ts)
    /\ t \in Synchronous
    /\ Enabled(t, tokens)
    /\ tokens' = produce(deductMarking(tokens, input_n[t]), t, res)
    /\ log' = Logged(Logged(log, t, "Started"), t, "End")
    /\ LET rest == IF Enabled(t, tokens') THEN ts ELSE Tail(ts)
       IN  \E new \in SortedByPriority(downstream(t) \ Range(rest)) :
            ts' = rest \o new
    /\ UNCHANGED <<state, scheduled_callbacks, thread_id_, pc, result, runs,
                   reducer_queue, poolVars, workerVars, clientVars>>

FireFrontSync(t, res) ==
    /\ pc = "fire"
    /\ ts # <<>>
    /\ t = Head(ts)
    /\ t \in Synchronous
    /\ Enabled(t, tokens)
    /\ tokens' = produce(deductMarking(tokens, input_n[t]), t, res)
    /\ log' = Logged(Logged(log, t, "Started"), t, "End")
    /\ LET rest == IF Enabled(t, tokens') THEN Range(ts) ELSE Range(Tail(ts))
       IN  ts' \in SortedByPriority(rest \cup downstream(t))
    /\ UNCHANGED <<state, scheduled_callbacks, thread_id_, pc, result, runs,
                   reducer_queue, poolVars, workerVars, clientVars>>

(***************************************************************************)
(* Mutations of FireDone: never Deadlocked; and Deadlocked although        *)
(* callbacks are under way.                                                *)
(***************************************************************************)
FireDoneUndetected ==
    /\ pc = "fire"
    /\ ts = <<>>
    /\ state' = IF Reached THEN "Success" ELSE state
    /\ pc' = "wait"
    /\ UNCHANGED <<tokens, scheduled_callbacks, log, thread_id_, ts, result,
                   runs, reducer_queue, poolVars, workerVars, clientVars>>

FireDoneHasty ==
    /\ pc = "fire"
    /\ ts = <<>>
    /\ state' = IF Reached THEN "Success"
                ELSE IF pool_queue = <<>> THEN "Deadlocked" ELSE state
    /\ pc' = "wait"
    /\ UNCHANGED <<tokens, scheduled_callbacks, log, thread_id_, ts, result,
                   runs, reducer_queue, poolVars, workerVars, clientVars>>

(***************************************************************************)
(* fireTransitions has returned.                                           *)
(***************************************************************************)
FireDone ==
    /\ pc = "fire"
    /\ ts = <<>>
    /\ state' = IF Reached THEN "Success"
                ELSE IF scheduled_callbacks = Nothing THEN "Deadlocked"
                ELSE state
    /\ pc' = "wait"
    /\ UNCHANGED <<tokens, scheduled_callbacks, log, thread_id_, ts, result,
                   runs, reducer_queue, poolVars, workerVars, clientVars>>

(***************************************************************************)
(* Mutation of LeaveLoop: the loop's condition forgets Deadlocked.         *)
(***************************************************************************)
LeaveLoopUnlessDeadlocked ==
    /\ pc = "wait"
    /\ state \notin {"Started", "Paused", "Deadlocked"}
    /\ state' = IF Reached THEN "Success" ELSE state
    /\ pc' = "drain"
    /\ UNCHANGED <<tokens, scheduled_callbacks, log, thread_id_, ts, result,
                   runs, reducer_queue, poolVars, workerVars, clientVars>>

LeaveLoop ==
    /\ pc = "wait"
    /\ state \notin {"Started", "Paused"}
    /\ state' = IF Reached THEN "Success" ELSE state
    /\ pc' = "drain"
    /\ UNCHANGED <<tokens, scheduled_callbacks, log, thread_id_, ts, result,
                   runs, reducer_queue, poolVars, workerVars, clientVars>>

(***************************************************************************)
(* The callbacks that are still scheduled are waited for; whatever else is *)
(* in the queue is applied too, until nothing is scheduled.                *)
(***************************************************************************)
DrainDequeue(p) ==
    /\ pc = "drain"
    /\ scheduled_callbacks # Nothing
    /\ RunReducer(p)
    /\ UNCHANGED pc

(***************************************************************************)
(* Mutation of FireReturn: does not wait for the callbacks.                *)
(***************************************************************************)
FireReturnAtOnce ==
    /\ pc = "drain"
    /\ thread_id_' = FALSE
    /\ result' = state
    /\ pc' = "idle"
    /\ UNCHANGED <<netVars, ts, runs, reducer_queue, poolVars, workerVars,
                   clientVars>>

FireReturn ==
    /\ pc = "drain"
    /\ scheduled_callbacks = Nothing
    /\ thread_id_' = FALSE
    /\ result' = state
    /\ pc' = "idle"
    /\ UNCHANGED <<netVars, ts, runs, reducer_queue, poolVars, workerVars,
                   clientVars>>

LoopStep ==
    \/ \E p \in Producer :
        Discard(p) \/ WaitDequeue(p) \/ BatchDequeue(p) \/ DrainDequeue(p)
    \/ EnqueueNoop
    \/ BatchDone
    \/ DropFront
    \/ \E t \in Transition :
        \/ FireFrontAsync(t)
        \/ \E res \in Returns[t] : FireFrontSync(t, res)
    \/ FireDone
    \/ LeaveLoop
    \/ FireReturn

-----------------------------------------------------------------------------
(***************************************************************************)
(* A worker: takes a task, enqueues the reducer that logs the start, runs  *)
(* the callback and enqueues the reducer with its result.                  *)
(***************************************************************************)
TakeTask(w) ==
    /\ wpc[w] = "idle"
    /\ pool_queue # <<>>
    /\ wjob' = [wjob EXCEPT ![w] = Head(pool_queue)]
    /\ pool_queue' = Tail(pool_queue)
    /\ wpc' = [wpc EXCEPT ![w] = "taken"]
    /\ UNCHANGED <<netVars, loopVars, reducer_queue, closure, clientVars>>

ReportStart(w) ==
    /\ wpc[w] = "taken"
    /\ Enqueue(w, StartOf(wjob[w]))
    /\ wpc' = [wpc EXCEPT ![w] = "running"]
    /\ UNCHANGED <<netVars, loopVars, poolVars, wjob, clientVars>>

(***************************************************************************)
(* Mutation of ReportResult: runs the same task again, as a worker would   *)
(* that goes on without looking whether it got a new one.                  *)
(***************************************************************************)
ReportResultAgain(w) ==
    /\ wpc[w] = "running"
    /\ \E res \in Returns[closure[wjob[w]]] :
        Enqueue(w, ResultOf(wjob[w], res))
    /\ wpc' = [wpc EXCEPT ![w] = "taken"]
    /\ UNCHANGED <<netVars, loopVars, poolVars, wjob, clientVars>>

ReportResult(w) ==
    /\ wpc[w] = "running"
    /\ \E res \in Returns[closure[wjob[w]]] :
        Enqueue(w, ResultOf(wjob[w], res))
    /\ wpc' = [wpc EXCEPT ![w] = "idle"]
    /\ wjob' = [wjob EXCEPT ![w] = NoJob]
    /\ UNCHANGED <<netVars, loopVars, poolVars, clientVars>>

WorkerStep(w) == TakeTask(w) \/ ReportStart(w) \/ ReportResult(w)

-----------------------------------------------------------------------------
(***************************************************************************)
(* The public functions.  cancel, pause and resume enqueue at once; the    *)
(* others look at thread_id_ first and act on what they saw in a later     *)
(* step.                                                                   *)
(***************************************************************************)
Controls(c, k) ==
    /\ cpc[c] = "idle"
    /\ calls[c] < MaxCalls
    /\ k \in Calls \cap {"cancel", "pause", "resume"}
    /\ Enqueue(c, Control(k))
    /\ calls' = [calls EXCEPT ![c] = @ + 1]
    /\ UNCHANGED <<netVars, loopVars, poolVars, workerVars, cpc, request>>

LoadThreadId(c, r) ==
    /\ cpc[c] = "idle"
    /\ calls[c] < MaxCalls
    /\ r.kind \in Calls
    /\ calls' = [calls EXCEPT ![c] = @ + 1]
    /\ cpc' = [cpc EXCEPT ![c] = IF thread_id_ THEN "enqueue"
                                 ELSE IF r.kind = "get" THEN "read" ELSE "idle"]
    /\ request' = [request EXCEPT ![c] = IF thread_id_ THEN r ELSE Noop]
    /\ UNCHANGED <<netVars, loopVars, reducer_queue, poolVars, workerVars>>

EnqueueRequest(c) ==
    /\ cpc[c] = "enqueue"
    /\ Enqueue(c, request[c])
    /\ cpc' = [cpc EXCEPT ![c] = IF request[c].kind = "get" THEN "waiting" ELSE "idle"]
    /\ request' = [request EXCEPT ![c] = Noop]
    /\ UNCHANGED <<netVars, loopVars, poolVars, workerVars, calls>>

ReadUnlocked(c) ==
    /\ cpc[c] = "read"
    /\ cpc' = [cpc EXCEPT ![c] = "idle"]
    /\ UNCHANGED <<netVars, loopVars, reducer_queue, poolVars, workerVars,
                   request, calls>>

ClientCall(c) ==
    \/ \E k \in {"cancel", "pause", "resume"} : Controls(c, k)
    \/ \E t \in InputTransition : LoadThreadId(c, Trigger(t))
    \/ LoadThreadId(c, Get(c))

ClientStep(c) == EnqueueRequest(c) \/ ReadUnlocked(c)

Next ==
    \/ FireStart
    \/ LoopStep
    \/ \E w \in Worker : WorkerStep(w)
    \/ \E c \in Client : ClientCall(c) \/ ClientStep(c)

Spec == Init /\ [][Next]_vars

(***************************************************************************)
(* Threads that are not blocked go on, callbacks return.  Nobody is        *)
(* obliged to call anything.                                               *)
(***************************************************************************)
Fairness ==
    /\ WF_vars(LoopStep)
    /\ \A w \in Worker : WF_vars(WorkerStep(w))
    /\ \A c \in Client : WF_vars(ClientStep(c))

FairSpec == Spec /\ Fairness

-----------------------------------------------------------------------------
(***************************************************************************)
(* Properties.                                                             *)
(***************************************************************************)

(***************************************************************************)
(* Every variable has its type.  (The members of Petri, the locals of      *)
(* `fire' and `fireTransitions', the pool and the clients.)                *)
(***************************************************************************)
TypeOK ==
    /\ thread_id_ \in BOOLEAN
    /\ state \in NetState
    /\ tokens \in Marking
    /\ scheduled_callbacks \in [Transition -> Nat]
    /\ log \in [Transition -> [Event -> Nat]]
    /\ reducer_queue \in [Producer -> Seq(Reducer)]
    /\ pc \in {"idle", "discard", "wait", "batch", "fire", "drain"}
    /\ ts \in Seq(Transition)
    /\ result \in NetState \cup {"none"}
    /\ runs \in Nat
    /\ pool_queue \in Seq(Job)
    /\ closure \in [Job -> Transition \cup {NoTransition}]
    /\ wpc \in [Worker -> {"idle", "taken", "running"}]
    /\ wjob \in [Worker -> Job \cup {NoJob}]
    /\ cpc \in [Client -> {"idle", "enqueue", "read", "waiting"}]
    /\ request \in [Client -> ClientReducer]
    /\ calls \in [Client -> Nat]

InFlight(t) == {j \in Job : closure[j] = t}

(***************************************************************************)
(* The bookkeeping of `fireAsynchronous' and of its result reducer agrees  *)
(* with what the pool and the queue hold: every entry of                   *)
(* `scheduled_callbacks' is one closure that has been pushed and whose     *)
(* result has not been applied.  The drain loop at the end of `fire'       *)
(* relies on it, and so does the `Deadlocked' test.                        *)
(***************************************************************************)
ScheduledMatchesInFlight ==
    \A t \in Transition : scheduled_callbacks[t] = Cardinality(InFlight(t))

(***************************************************************************)
(* Where the closures are.  A task waits in the pool, or is with a worker, *)
(* or has left its result in the queue, never two of these; no two workers *)
(* have the same task and no result is reported twice.  The reducer that   *)
(* logs the start of a task is in the queue of the worker that runs it and *)
(* before its result.  All of them stand for a transition that is still    *)
(* scheduled.  (The two `enqueue's of the task in `fireAsynchronous'.)     *)
(***************************************************************************)
Busy(w) == wpc[w] # "idle"
Waits(j) == \E i \in 1 .. Len(pool_queue) : pool_queue[i] = j
IsStarted(p, i) == reducer_queue[p][i].kind = "started"
IsResult(p, i) == reducer_queue[p][i].kind = "result"
JobAt(p, i) == reducer_queue[p][i].job
Index(p) == 1 .. Len(reducer_queue[p])

PoolTasks ==
    \A i \in 1 .. Len(pool_queue) :
        /\ closure[pool_queue[i]] \in Transition
        /\ \A k \in 1 .. Len(pool_queue) : pool_queue[i] = pool_queue[k] => i = k

WorkerTasks ==
    \A w \in Worker : Busy(w) =>
        /\ wjob[w] \in Job
        /\ closure[wjob[w]] \in Transition
        /\ ~Waits(wjob[w])
        /\ \A v \in Worker : Busy(v) /\ wjob[v] = wjob[w] => v = w

TaskReducers ==
    \A p \in Producer : \A i \in Index(p) : IsStarted(p, i) \/ IsResult(p, i) =>
        /\ closure[JobAt(p, i)] \in Transition
        /\ ~Waits(JobAt(p, i))
        /\ \A w \in Worker : Busy(w) /\ wjob[w] = JobAt(p, i) =>
            p = w /\ IsStarted(p, i)

ResultsInOrder ==
    \A p, q \in Producer : \A i \in Index(p), k \in Index(q) :
        /\ IsResult(p, i) /\ IsResult(q, k) /\ JobAt(p, i) = JobAt(q, k)
            => p = q /\ i = k
        /\ IsStarted(p, i) /\ IsResult(q, k) /\ JobAt(p, i) = JobAt(q, k)
            => p = q /\ i < k

TasksAreTracked == PoolTasks /\ WorkerTasks /\ TaskReducers /\ ResultsInOrder

(***************************************************************************)
(* Between two runs nothing of the earlier run is left that could reach    *)
(* the next one: no task, no busy worker, no start or result reducer.      *)
(* That is why throwing away "old reducers" and clearing                   *)
(* `scheduled_callbacks' at the start of `fire' lose no callback.          *)
(***************************************************************************)
NothingLeftBehind ==
    pc \in {"idle", "discard"} =>
        /\ \A j \in Job : closure[j] = NoTransition
        /\ pool_queue = <<>>
        /\ \A w \in Worker : wpc[w] = "idle"
        /\ \A p \in Producer : \A i \in DOMAIN reducer_queue[p] :
            reducer_queue[p][i].kind \notin {"started", "result"}

(***************************************************************************)
(* The candidate list of `fireTransitions' never loses an enabled          *)
(* transition: what it drops is not enabled, and what a synchronous firing *)
(* enables is added again.                                                 *)
(***************************************************************************)
CandidatesCoverEnabled ==
    pc = "fire" => \A t \in Transition : Enabled(t, tokens) => t \in Range(ts)

(***************************************************************************)
(* The loop goes to sleep only when everything that could fire has fired   *)
(* and something is under way that will wake it up: it never waits for     *)
(* nothing in state Started.                                               *)
(***************************************************************************)
SleepsForAReason ==
    pc = "wait" /\ state = "Started" =>
        \/ reducer_queue[Runner] # <<>>
        \/ /\ scheduled_callbacks # Nothing
           /\ \A t \in Transition : ~Enabled(t, tokens)

(***************************************************************************)
(* `fire' reports Deadlocked only of a net that is dead: no transition is  *)
(* enabled and no callback could still produce a token.                    *)
(***************************************************************************)
DeadlockedIsDead ==
    state = "Deadlocked" =>
        /\ scheduled_callbacks = Nothing
        /\ \A t \in Transition : ~Enabled(t, tokens)

(***************************************************************************)
(* The event log tells the life cycle of a callback in order, whichever    *)
(* worker reports first: ended no more often than started, started no more *)
(* often than scheduled, and what is scheduled and has not ended is        *)
(* exactly what is active.  Holds across runs, the log is never cleared.   *)
(***************************************************************************)
LogLifecycle ==
    \A t \in Transition :
        /\ log[t]["End"] <= log[t]["Started"]
        /\ t \notin Synchronous =>
            /\ log[t]["Started"] <= log[t]["Scheduled"]
            /\ log[t]["Scheduled"] = log[t]["End"] + scheduled_callbacks[t]

(***************************************************************************)
(* A firing never passes over an enabled transition of higher priority     *)
(* (symmetri_nets.md, "Conflict and priorities").                          *)
(***************************************************************************)
PriorityRespected ==
    [][pc = "fire" /\ tokens' # tokens =>
        \A u \in Transition :
            Enabled(u, tokens) => priority[u] <= priority[Head(ts)]]_vars

(***************************************************************************)
(* The tokens of a bag that are on places of S, numbered, and the tokens   *)
(* there that the callbacks have taken and hold.                           *)
(***************************************************************************)
Numbered(bag, A) == UNION {{a} \X (1 .. bag[a]) : a \in A}
TokensOn(bag, S) == Numbered(bag, S \X Token)

HeldFrom(S) ==
    UNION {({t} \X (1 .. scheduled_callbacks[t])) \X TokensOn(input_n[t], S) : t \in Transition}

(***************************************************************************)
(* The sets of places to which every firing gives back as many tokens as   *)
(* it takes from them: a lock, the slots of a buffer, the states of a      *)
(* machine.                                                                *)
(***************************************************************************)
Conserved ==
    {S \in SUBSET Place : \A t \in Transition :
        Cardinality(TokensOn(input_n[t], S)) = Cardinality(Numbered(output_n[t], S))}

(***************************************************************************)
(* Such a resource keeps its meaning although firings are split in two:    *)
(* each unit of it is in its place (in some colour) or held by exactly one *)
(* callback, whatever the workers and the clients do, also when callbacks  *)
(* fail, when the net is cancelled, and in the next run.  (What            *)
(* fireAsynchronous takes, its result reducer gives back once; and `fire'  *)
(* starts anew only with nothing held.)                                    *)
(***************************************************************************)
ResourcesAreKept ==
    \A S \in Conserved :
        Cardinality(TokensOn(tokens, S)) + Cardinality(HeldFrom(S))
            = Cardinality(TokensOn(initial_tokens, S))

(***************************************************************************)
(* The executor implements the token game.                                 *)
(***************************************************************************)
TokenGame == INSTANCE SymmetriNet WITH
    marking <- tokens, active <- scheduled_callbacks

ImplementsTokenGame == TokenGame!Spec

(***************************************************************************)
(* The result of every callback that was scheduled is eventually applied,  *)
(* also when the net is paused, cancelled or finished in the meantime.     *)
(***************************************************************************)
CallbackCompletes ==
    \A j \in Job : closure[j] # NoTransition ~> closure[j] = NoTransition

(***************************************************************************)
(* On a net without cycles `fire' returns, unless it stays paused.         *)
(***************************************************************************)
FireReturns ==
    <>[](state # "Paused") => (pc = "discard" ~> pc = "idle")

-----------------------------------------------------------------------------
(***************************************************************************)
(* What the documentation says and the code does not do; the run           *)
(* GetterAtReturn shows how.                                               *)
(***************************************************************************)

(***************************************************************************)
(* symmetri.h: getMarking and getActiveTransitions "can be called during   *)
(* PetriNet execution"; their caller gets an answer.                       *)
(***************************************************************************)
GetterReturns == \A c \in Client : cpc[c] = "waiting" ~> cpc[c] = "idle"

=============================================================================
