------------------------------- MODULE TaskSystem --------------------------------
(***************************************************************************)
(* The thread pool of tasks.cpp: its threads take tasks from one queue     *)
(* until the destructor stops them.                                        *)
(*                                                                         *)
(* The queue is a set of tasks and a number of empty tasks, of which a     *)
(* dequeue takes any: tasks are pushed by many threads, the queue keeps    *)
(* order only for each of them, and no statement below is about order.     *)
(* Nobody pushes once the destructor has begun, because the pool is owned  *)
(* by everyone who may push to it (std::shared_ptr).                       *)
(***************************************************************************)
EXTENDS Integers, FiniteSets

CONSTANTS
    n_threads,          \* the argument of the constructor
    Task,               \* the tasks that may be pushed
    Nothing             \* no task: an empty one, or none taken yet

ASSUME PoolAssumption ==
    /\ n_threads \in Nat
    /\ Nothing \notin Task

Thread == 1 .. n_threads    \* pool_

VARIABLES
    queue,              \* queue_: the tasks in it
    wakeups,            \* queue_: how many empty tasks are in it
    is_running_,        \* true means: stop
    pc,                 \* where each thread is in `loop'
    transition,         \* the local variable of `loop'
    destructor,         \* where the destructor is
    i,                  \* its loop variable
    pushed,             \* history: the tasks that were pushed
    ran,                \* history: the tasks whose call has returned
    dropped             \* history: the tasks that were taken but not called

contents == <<queue, wakeups>>
threads == <<pc, transition>>
stopping == <<is_running_, destructor, i>>
history == <<pushed, ran, dropped>>
vars == <<contents, threads, stopping, history>>

Init ==
    /\ queue = {} /\ wakeups = 0
    /\ is_running_ = FALSE /\ destructor = "alive" /\ i = 0
    /\ pc = [t \in Thread |-> "wait"]
    /\ transition = [t \in Thread |-> Nothing]
    /\ pushed = {} /\ ran = {} /\ dropped = {}

push(k) ==
    /\ destructor = "alive" /\ k \notin pushed
    /\ pushed' = pushed \cup {k}
    /\ queue' = queue \cup {k}
    /\ UNCHANGED <<wakeups, threads, stopping, ran, dropped>>

(***************************************************************************)
(* `loop': wait for a task, look at the flag, call the task.               *)
(***************************************************************************)
Step(t, from, to, k) ==
    /\ pc[t] = from
    /\ pc' = [pc EXCEPT ![t] = to]
    /\ transition' = [transition EXCEPT ![t] = k]
    /\ UNCHANGED <<stopping, pushed>>

\* Mutation of TakeTask: the task stays in the queue.
TakeTaskPeek(t) ==
    \E k \in queue : Step(t, "wait", "test", k) /\ UNCHANGED <<contents, ran, dropped>>

TakeTask(t) ==
    \E k \in queue :
        /\ Step(t, "wait", "test", k)
        /\ queue' = queue \ {k}
        /\ UNCHANGED <<wakeups, ran, dropped>>

TakeWakeup(t) ==
    /\ wakeups > 0
    /\ Step(t, "wait", "test", Nothing)
    /\ wakeups' = wakeups - 1
    /\ UNCHANGED <<queue, ran, dropped>>

Break(t) ==
    /\ is_running_
    /\ Step(t, "test", "ended", Nothing)
    /\ dropped' = dropped \cup ({transition[t]} \ {Nothing})
    /\ UNCHANGED <<contents, ran>>

Call(t) ==
    /\ ~is_running_
    /\ Step(t, "test", "run", transition[t])
    /\ UNCHANGED <<contents, ran, dropped>>

\* Mutation of Return: a thread runs one task only.
ReturnOnce(t) ==
    /\ Step(t, "run", "ended", Nothing)
    /\ ran' = ran \cup {transition[t]}
    /\ UNCHANGED <<contents, dropped>>

Return(t) ==
    /\ Step(t, "run", "wait", Nothing)
    /\ ran' = ran \cup {transition[t]}
    /\ UNCHANGED <<contents, dropped>>

loop(t) == TakeTask(t) \/ TakeWakeup(t) \/ Break(t) \/ Call(t) \/ Return(t)

(***************************************************************************)
(* The destructor: raise the flag, enqueue an empty task for each thread,  *)
(* and wait for all of them.                                               *)
(***************************************************************************)
Stop ==
    /\ destructor = "alive"
    /\ is_running_' = TRUE
    /\ destructor' = "wake"
    /\ UNCHANGED <<contents, threads, history, i>>

WakeUpTo(n) ==
    /\ destructor = "wake"
    /\ IF i < n THEN wakeups' = wakeups + 1 /\ i' = i + 1 /\ UNCHANGED destructor
                ELSE destructor' = "join" /\ UNCHANGED <<wakeups, i>>
    /\ UNCHANGED <<queue, is_running_, threads, history>>

\* Mutations of Wake: one empty task too few, and one too many.
WakeAllButOne == WakeUpTo(n_threads - 1)
WakeOneMore == WakeUpTo(n_threads + 1)

Wake == WakeUpTo(n_threads)

Join ==
    /\ destructor = "join"
    /\ \A t \in Thread : pc[t] = "ended"
    /\ destructor' = "returned"
    /\ UNCHANGED <<contents, threads, history, is_running_, i>>

Next ==
    \/ \E k \in Task : push(k)
    \/ \E t \in Thread : loop(t)
    \/ Stop \/ Wake \/ Join

Spec == Init /\ [][Next]_vars

(***************************************************************************)
(* The operating system schedules every thread that is not blocked, tasks  *)
(* return, and a destructor that has been entered goes on.                 *)
(***************************************************************************)
FairSpec ==
    /\ Spec
    /\ \A t \in Thread : WF_vars(loop(t))
    /\ WF_vars(Wake \/ Join)

-----------------------------------------------------------------------------
(***************************************************************************)
(* The types of the variables; wake-ups exist only while stopping.         *)
(***************************************************************************)
PoolTypeOK ==
    /\ queue \in SUBSET Task
    /\ wakeups \in Nat
    /\ is_running_ \in BOOLEAN
    /\ pc \in [Thread -> {"wait", "test", "run", "ended"}]
    /\ transition \in [Thread -> Task \cup {Nothing}]
    /\ destructor \in {"alive", "wake", "join", "returned"}
    /\ i \in 0 .. n_threads
    /\ pushed \in SUBSET Task
    /\ ran \in SUBSET Task
    /\ dropped \in SUBSET Task

(***************************************************************************)
(* Every pushed task is in one place: in the queue, with one thread,       *)
(* called, or dropped.  None is lost, none is called twice, and none is    *)
(* dropped unless the pool is being destroyed.                             *)
(***************************************************************************)
EachTaskInOnePlace ==
    /\ pushed = queue \cup ran \cup dropped
                    \cup ({transition[t] : t \in Thread} \ {Nothing})
    /\ queue \cap ran = {} /\ queue \cap dropped = {} /\ ran \cap dropped = {}
    /\ \A t \in Thread : transition[t] \notin queue \cup ran \cup dropped
    /\ \A t, u \in Thread :
            t # u => transition[t] # transition[u] \/ transition[t] = Nothing
    /\ dropped # {} => is_running_

(***************************************************************************)
(* The destructor never waits for a thread that sleeps: while it joins, a  *)
(* thread at the queue finds something in it, although other threads have  *)
(* taken wake-ups and although tasks that were pushed earlier are taken in *)
(* their place.                                                            *)
(***************************************************************************)
NobodySleepsThroughTheEnd ==
    destructor = "join" =>
        \A t \in Thread : pc[t] = "wait" => wakeups > 0 \/ queue # {}

(***************************************************************************)
(* A task that was pushed is called, if the pool is not destroyed first    *)
(* ("push tasks the queue for later execution on the thread pool", from    *)
(* tasks.h; a pool of less than one thread is said to default to one per   *)
(* processor).                                                             *)
(***************************************************************************)
PushedTaskRuns == \A k \in Task : k \in pushed ~> k \in ran \/ is_running_

(***************************************************************************)
(* The destructor returns.                                                 *)
(***************************************************************************)
DestructorReturns == is_running_ ~> destructor = "returned"
=============================================================================
