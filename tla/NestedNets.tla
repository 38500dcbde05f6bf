-------------------------------- MODULE NestedNets --------------------------------
(***************************************************************************)
(* Nets whose transitions run nets.  A `PetriNet' is a callback like any   *)
(* other: the worker that fires it runs its loop, its own callbacks go to  *)
(* the same pool, and what `fire' returns colours the tokens of the outer  *)
(* net.  cancel, pause and resume are passed on to the callbacks that are  *)
(* scheduled, and getLog asks the callbacks for their logs.                *)
(*                                                                         *)
(* Petri.tla has one net in detail.  Here the nets are safe and free of    *)
(* conflicts, so that markings and scheduled_callbacks are sets and the    *)
(* order in fireTransitions does not matter; callbacks are asynchronous;   *)
(* a net is on several transitions only when they never run at once, so    *)
(* the test of thread_id_ and its store are one step; the reducers that    *)
(* only log are left out.                                                  *)
(*                                                                         *)
(* Of the reducers in a queue, the results come from many workers in any   *)
(* order, while the calls all come from the outer net (those of the root   *)
(* from one client) and stay in order.                                     *)
(***************************************************************************)
EXTENDS Integers, Sequences, FiniteSets, SequencesExt

CONSTANTS
    Net, Root,          \* the nets, and the one that nobody else runs
    Place, Transition,
    In, Out,            \* [Transition -> SUBSET Place]: the arcs, all of colour Success
    Owner,              \* [Transition -> Net]
    Callback,           \* [Transition -> Net \cup {"task"}]: what a transition runs
    Initial, Goal,      \* [Net -> SUBSET Place]
    Threads,            \* thread_count of the TaskSystem
    MaxCalls            \* bound: calls of cancel, pause, resume and getLog

ASSUME NestedAssumption ==
    /\ Root \in Net
    /\ "task" \notin Net
    /\ IsFiniteSet(Transition)
    /\ MaxCalls \in Nat
    /\ Owner \in [Transition -> Net]
    /\ Callback \in [Transition -> Net \cup {"task"}]
    /\ In \in [Transition -> SUBSET Place]
    /\ Out \in [Transition -> SUBSET Place]
    /\ Initial \in [Net -> SUBSET Place]
    /\ Goal \in [Net -> SUBSET Place]
    /\ \A t \in Transition : Callback[t] # Root
    /\ \A t, u \in Transition : Callback[t] \in Net /\ Callback[t] = Callback[u] => Owner[t] = Owner[u]
    /\ \A t, u \in Transition : Owner[t] = Owner[u] /\ t # u => In[t] \cap In[u] = {}

VARIABLES
    pc,         \* [Net -> where the thread inside fire is]; "idle": no thread_id_
    state,      \* [Net -> Token]
    tokens,     \* [Net -> SUBSET (Place \X Token)]
    scheduled,  \* [Net -> SUBSET Transition]: scheduled_callbacks
    noop,       \* [Net -> BOOLEAN]: reducer_queue, the empty reducer
    results,    \* [Net -> SUBSET (Transition \X Token)]: reducer_queue, results
    calls,      \* [Net -> Seq(Control \cup {"getLog"})]: reducer_queue, calls
    asking,     \* [Net -> Seq(Net)]: getLogInternal: the nets still to ask
    back,       \* [Net -> STRING]: where the loop goes on after a getLog
    task,       \* [Transition -> {"none", "queued", "running"}]: the pool
    made,       \* calls made by the client
    held,       \* ghost: the last of cancel, pause and resume that was called is pause
    deaf,       \* ghost [Net -> BOOLEAN]: this run has thrown away a call when it began
    late,       \* ghost [Net -> BOOLEAN]: a call was applied after the loop of this run
    lost        \* ghost: a getLog of an outer net will never be answered

loopVars == <<pc, state, tokens, scheduled, asking, back>>
queueVars == <<noop, results, calls>>
ghosts == <<made, held, deaf, late, lost>>
vars == <<loopVars, queueVars, task, ghosts>>

Control == {"cancel", "pause", "resume"}

Token == {"Success", "Failed", "Deadlocked", "Canceled", "Paused", "Started"}

Init ==
    /\ pc = [n \in Net |-> "idle"]
    /\ state = [n \in Net |-> "Scheduled"]
    /\ tokens = [n \in Net |-> Initial[n] \X {"Success"}]
    /\ scheduled = [n \in Net |-> {}]
    /\ noop = [n \in Net |-> FALSE]
    /\ results = [n \in Net |-> {}]
    /\ calls = [n \in Net |-> <<>>]
    /\ asking = [n \in Net |-> <<>>]
    /\ back = [n \in Net |-> "batch"]
    /\ task = [t \in Transition |-> "none"]
    /\ made = 0
    /\ held = FALSE
    /\ deaf = [n \in Net |-> FALSE]
    /\ late = [n \in Net |-> FALSE]
    /\ lost = FALSE

Inside(t) == Callback[t] \in Net

Reached(n) == Goal[n] # {} /\ Goal[n] \X {"Success"} \subseteq tokens[n]

(***************************************************************************)
(* Mutation of Enabled: a candidate is fired without the test of canFire.  *)
(***************************************************************************)
EnabledUnchecked(n) == {t \in Transition : Owner[t] = n /\ In[t] # {}}

Enabled(n) == {t \in Transition : Owner[t] = n /\ In[t] # {} /\ In[t] \X {"Success"} \subseteq tokens[n]}

QueueEmpty(n) == ~noop[n] /\ results[n] = {} /\ calls[n] = <<>>

-----------------------------------------------------------------------------
(***************************************************************************)
(* The client.                                                             *)
(***************************************************************************)

Called(n, call) == calls' = [calls EXCEPT ![n] = Append(@, call)]

Call(call) ==
    /\ made < MaxCalls
    /\ call = "getLog" => pc[Root] # "idle"
    /\ made' = made + 1
    /\ held' = IF call = "getLog" THEN held ELSE call = "pause"
    /\ Called(Root, call)
    /\ UNCHANGED <<loopVars, noop, results, task, deaf, late, lost>>

-----------------------------------------------------------------------------
(***************************************************************************)
(* The beginning of `fire'.                                                *)
(***************************************************************************)
Begin(n) ==
    /\ pc' = [pc EXCEPT ![n] = "discard"]
    /\ scheduled' = [scheduled EXCEPT ![n] = {}]
    /\ tokens' = [tokens EXCEPT ![n] = Initial[n] \X {"Success"}]
    /\ state' = [state EXCEPT ![n] = "Started"]
    /\ deaf' = [deaf EXCEPT ![n] = FALSE]
    /\ late' = [late EXCEPT ![n] = FALSE]

FireRoot ==
    /\ pc[Root] = "idle"
    /\ state[Root] = "Scheduled"
    /\ Begin(Root)
    /\ UNCHANGED <<asking, back, queueVars, task, made, held, lost>>

(***************************************************************************)
(* A worker takes a task from the pool; a net that is running already      *)
(* fails.                                                                  *)
(***************************************************************************)
Working == {t \in Transition : task[t] = "running"}

TakeTask(t) ==
    /\ task[t] = "queued"
    /\ Cardinality(Working) < Threads
    /\ IF Inside(t) /\ pc[Callback[t]] # "idle"
         THEN /\ task' = [task EXCEPT ![t] = "none"]
              /\ results' = [results EXCEPT ![Owner[t]] = @ \cup {<<t, "Failed">>}]
              /\ UNCHANGED <<pc, state, tokens, scheduled, deaf, late>>
         ELSE /\ task' = [task EXCEPT ![t] = "running"]
              /\ IF Inside(t) THEN Begin(Callback[t])
                              ELSE UNCHANGED <<pc, state, tokens, scheduled, deaf, late>>
              /\ UNCHANGED results
    /\ UNCHANGED <<asking, back, noop, calls, made, held, lost>>

(***************************************************************************)
(* A callback that is not a net returns.                                   *)
(***************************************************************************)
Return(t) ==
    /\ task[t] = "running"
    /\ ~Inside(t)
    /\ task' = [task EXCEPT ![t] = "none"]
    /\ results' = [results EXCEPT ![Owner[t]] = @ \cup {<<t, "Success">>}]
    /\ UNCHANGED <<loopVars, noop, calls, ghosts>>

(***************************************************************************)
(* "get rid of old reducers": calls that came too early, or too late for   *)
(* the run before.  (No result is left over: NoWorkOutlivesItsNet.)        *)
(***************************************************************************)
Discard(n) ==
    /\ pc[n] = "discard"
    /\ calls[n] # <<>>
    /\ calls' = [calls EXCEPT ![n] = Tail(@)]
    /\ IF Head(calls[n]) = "getLog" THEN lost' = (lost \/ n # Root) /\ UNCHANGED deaf
                                    ELSE deaf' = [deaf EXCEPT ![n] = TRUE] /\ UNCHANGED lost
    /\ UNCHANGED <<loopVars, noop, results, task, made, held, late>>

EnqueueNoop(n) ==
    /\ pc[n] = "discard"
    /\ QueueEmpty(n)
    /\ noop' = [noop EXCEPT ![n] = TRUE]
    /\ pc' = [pc EXCEPT ![n] = "wait"]
    /\ UNCHANGED <<state, tokens, scheduled, asking, back, results, calls, task, ghosts>>

-----------------------------------------------------------------------------
(***************************************************************************)
(* The reducers, which the loop applies in a batch and while it drains.    *)
(***************************************************************************)

Running(n) ==
    \/ pc[n] = "wait" /\ state[n] \in {"Started", "Paused"}
    \/ pc[n] = "batch"
    \/ pc[n] = "drain" /\ scheduled[n] # {}

Then(n) == IF pc[n] = "drain" THEN "drain" ELSE "batch"

ApplyNoop(n) ==
    /\ Running(n)
    /\ noop[n]
    /\ noop' = [noop EXCEPT ![n] = FALSE]
    /\ pc' = [pc EXCEPT ![n] = Then(n)]
    /\ UNCHANGED <<state, tokens, scheduled, asking, back, results, calls, task, ghosts>>

ApplyResult(n) ==
    /\ Running(n)
    /\ \E r \in results[n] :
        /\ results' = [results EXCEPT ![n] = @ \ {r}]
        /\ IF r[1] \in scheduled[n]
             THEN /\ tokens' = [tokens EXCEPT ![n] = @ \cup (Out[r[1]] \X {r[2]})]
                  /\ scheduled' = [scheduled EXCEPT ![n] = @ \ {r[1]}]
             ELSE UNCHANGED <<tokens, scheduled>>
    /\ pc' = [pc EXCEPT ![n] = Then(n)]
    /\ UNCHANGED <<state, asking, back, noop, calls, task, ghosts>>

(***************************************************************************)
(* Mutation of NextState: the name of the call instead of the state.       *)
(***************************************************************************)
NextStateNamed(control) == control

NextState(control) ==
    CASE control = "cancel" -> "Canceled"
      [] control = "pause" -> "Paused"
      [] control = "resume" -> "Started"

(***************************************************************************)
(* Mutation of PassedOn: the callbacks are not told.                       *)
(***************************************************************************)
PassedOnToNobody(n, control) == [calls EXCEPT ![n] = Tail(@)]

(***************************************************************************)
(* cancel, pause or resume of every callback that is scheduled.            *)
(***************************************************************************)
PassedOn(n, control) ==
    [m \in Net |->
        IF m = n THEN Tail(calls[n])
        ELSE IF \E t \in scheduled[n] : Callback[t] = m THEN Append(calls[m], control)
        ELSE calls[m]]

ApplyControl(n) ==
    /\ Running(n)
    /\ calls[n] # <<>>
    /\ Head(calls[n]) \in Control
    /\ state' = [state EXCEPT ![n] = NextState(Head(calls[n]))]
    /\ calls' = PassedOn(n, Head(calls[n]))
    /\ late' = [late EXCEPT ![n] = @ \/ pc[n] = "drain"]
    /\ pc' = [pc EXCEPT ![n] = Then(n)]
    /\ UNCHANGED <<tokens, scheduled, asking, back, noop, results, task, made, held, deaf, lost>>

(***************************************************************************)
(* `getLogInternal': the loop asks its callbacks for their logs, one after *)
(* the other, and waits for the answer of each one that is running.        *)
(***************************************************************************)
Callbacks(n) ==
    LET nets == SetToSeq({t \in Transition : Owner[t] = n /\ Inside(t)})
    IN  [i \in DOMAIN nets |-> Callback[nets[i]]]

ApplyGetLog(n) ==
    /\ Running(n)
    /\ calls[n] # <<>>
    /\ Head(calls[n]) = "getLog"
    /\ calls' = [calls EXCEPT ![n] = Tail(@)]
    /\ asking' = [asking EXCEPT ![n] = Callbacks(n)]
    /\ back' = [back EXCEPT ![n] = Then(n)]
    /\ pc' = [pc EXCEPT ![n] = "log"]
    /\ UNCHANGED <<state, tokens, scheduled, noop, results, task, ghosts>>

(***************************************************************************)
(* Mutation of Ask: asks through the queue, whether the net runs or not.   *)
(***************************************************************************)
AskAnyway(n) ==
    /\ pc[n] = "log"
    /\ asking[n] # <<>>
    /\ Called(Head(asking[n]), "getLog")
    /\ pc' = [pc EXCEPT ![n] = "asked"]
    /\ UNCHANGED <<state, tokens, scheduled, asking, back, noop, results, task, ghosts>>

Ask(n) ==
    /\ pc[n] = "log"
    /\ asking[n] # <<>>
    /\ IF pc[Head(asking[n])] # "idle"
         THEN /\ Called(Head(asking[n]), "getLog")
              /\ pc' = [pc EXCEPT ![n] = "asked"]
              /\ UNCHANGED asking
         ELSE /\ asking' = [asking EXCEPT ![n] = Tail(@)]
              /\ UNCHANGED <<calls, pc>>
    /\ UNCHANGED <<state, tokens, scheduled, back, noop, results, task, ghosts>>

(***************************************************************************)
(* The log is complete: `set_value' lets the one who asked go on.          *)
(***************************************************************************)
Asks(m, n) == pc[m] = "asked" /\ Head(asking[m]) = n

Answer(n) ==
    /\ pc[n] = "log"
    /\ asking[n] = <<>>
    /\ pc' = [m \in Net |-> IF m = n THEN back[n] ELSE IF Asks(m, n) THEN "log" ELSE pc[m]]
    /\ asking' = [m \in Net |-> IF Asks(m, n) THEN Tail(asking[m]) ELSE asking[m]]
    /\ UNCHANGED <<state, tokens, scheduled, back, queueVars, task, ghosts>>

-----------------------------------------------------------------------------
(***************************************************************************)
(* The rest of `fire'.                                                     *)
(***************************************************************************)

(***************************************************************************)
(* The queue is empty: look at the goal, fire what can fire (all of it     *)
(* goes to the pool), look at the goal again.  In a safe net, what is      *)
(* active is not enabled.                                                  *)
(***************************************************************************)
BatchDone(n) ==
    LET fired == IF state[n] = "Started" /\ ~Reached(n) THEN Enabled(n) \ scheduled[n] ELSE {}
        consumed == (UNION {In[t] : t \in fired}) \X {"Success"}
    IN  /\ pc[n] = "batch"
        /\ QueueEmpty(n)
        /\ tokens' = [tokens EXCEPT ![n] = @ \ consumed]
        /\ scheduled' = [scheduled EXCEPT ![n] = @ \cup fired]
        /\ task' = [t \in Transition |-> IF t \in fired THEN "queued" ELSE task[t]]
        /\ state' = [state EXCEPT ![n] =
                IF Reached(n) THEN "Success"
                ELSE IF @ = "Started" /\ scheduled[n] \cup fired = {} THEN "Deadlocked"
                ELSE @]
        /\ pc' = [pc EXCEPT ![n] = "wait"]
        /\ UNCHANGED <<asking, back, queueVars, ghosts>>

Leave(n, goesOn, to) ==
    /\ pc[n] = "wait"
    /\ state[n] \notin goesOn
    /\ state' = [state EXCEPT ![n] = IF Reached(n) THEN "Success" ELSE @]
    /\ pc' = [pc EXCEPT ![n] = to]
    /\ UNCHANGED <<tokens, scheduled, asking, back, queueVars, task, ghosts>>

(***************************************************************************)
(* Mutations of LeaveLoop: does not wait for the callbacks; a pause ends   *)
(* the loop.                                                               *)
(***************************************************************************)
LeaveLoopAtOnce(n) == Leave(n, {"Started", "Paused"}, "ending")
LeaveLoopPaused(n) == Leave(n, {"Started"}, "drain")

LeaveLoop(n) == Leave(n, {"Started", "Paused"}, "drain")

DrainDone(n) ==
    /\ pc[n] = "drain"
    /\ scheduled[n] = {}
    /\ pc' = [pc EXCEPT ![n] = "ending"]
    /\ UNCHANGED <<state, tokens, scheduled, asking, back, queueVars, task, ghosts>>

(***************************************************************************)
(* thread_id_ is reset, and the state is the result of the transition that *)
(* ran the net.  A getLog that came too late is not answered.              *)
(***************************************************************************)
Caller(n) == {t \in Working : Callback[t] = n}

Finish(n) ==
    /\ pc[n] = "ending"
    /\ pc' = [pc EXCEPT ![n] = "idle"]
    /\ task' = [t \in Transition |-> IF t \in Caller(n) THEN "none" ELSE task[t]]
    /\ results' = [m \in Net |-> results[m] \cup {<<t, state[n]>> : t \in {t \in Caller(n) : Owner[t] = m}}]
    /\ lost' = (lost \/ \E m \in Net : Asks(m, n))
    /\ UNCHANGED <<state, tokens, scheduled, asking, back, noop, calls, made, held, deaf, late>>

fire(n) ==
    \/ Discard(n)
    \/ EnqueueNoop(n)
    \/ ApplyNoop(n)
    \/ ApplyResult(n)
    \/ ApplyControl(n)
    \/ ApplyGetLog(n)
    \/ Ask(n)
    \/ Answer(n)
    \/ BatchDone(n)
    \/ LeaveLoop(n)
    \/ DrainDone(n)
    \/ Finish(n)

Next ==
    \/ \E call \in Control \cup {"getLog"} : Call(call)
    \/ FireRoot
    \/ \E t \in Transition : TakeTask(t) \/ Return(t)
    \/ \E n \in Net : fire(n)

Spec == Init /\ [][Next]_vars

(***************************************************************************)
(* Threads that are not blocked are scheduled, callbacks return, and the   *)
(* pool's queue gives every task to some worker in the end.                *)
(***************************************************************************)
FairSpec ==
    /\ Spec
    /\ \A n \in Net : WF_vars(fire(n))
    /\ \A t \in Transition : WF_vars(TakeTask(t)) /\ WF_vars(Return(t))

-----------------------------------------------------------------------------
(***************************************************************************)
(* Properties.                                                             *)
(***************************************************************************)

(***************************************************************************)
(* The types of the variables.                                             *)
(***************************************************************************)
NestedTypeOK ==
    /\ pc \in [Net -> {"idle", "discard", "wait", "batch", "log", "asked", "drain", "ending"}]
    /\ state \in [Net -> Token \cup {"Scheduled"}]
    /\ tokens \in [Net -> SUBSET (Place \X Token)]
    /\ scheduled \in [Net -> SUBSET Transition]
    /\ noop \in [Net -> BOOLEAN]
    /\ results \in [Net -> SUBSET (Transition \X Token)]
    /\ calls \in [Net -> Seq(Control \cup {"getLog"})]
    /\ asking \in [Net -> Seq(Net)]
    /\ back \in [Net -> {"batch", "drain"}]
    /\ task \in [Transition -> {"none", "queued", "running"}]
    /\ made \in 0 .. MaxCalls
    /\ held \in BOOLEAN
    /\ deaf \in [Net -> BOOLEAN]
    /\ late \in [Net -> BOOLEAN]
    /\ lost \in BOOLEAN

(***************************************************************************)
(* A callback is in the pool, running, or its result is under way, only    *)
(* while the net that scheduled it is being run and knows of it; a net     *)
(* that ends, whatever it ends for, leaves nothing behind, down to the     *)
(* innermost net.  (The last loop of `fire'; a task left behind would put  *)
(* its tokens into the next run.)                                          *)
(***************************************************************************)
NoWorkOutlivesItsNet ==
    /\ \A t \in Transition :
            task[t] # "none" \/ (\E r \in results[Owner[t]] : r[1] = t) => t \in scheduled[Owner[t]]
    /\ \A n \in Net : scheduled[n] # {} => pc[n] \notin {"idle", "discard", "ending"}
    /\ \A n \in Net \ {Root} : pc[n] # "idle" => \E t \in Transition : Callback[t] = n /\ task[t] = "running"

(***************************************************************************)
(* The transitions of a net that run the same net are not at work at the   *)
(* same time.  (`fire' tests thread_id_ and stores it in two steps, which  *)
(* TakeTask takes for one; and a call for the nested net is meant for the  *)
(* transition that runs it.)                                               *)
(***************************************************************************)
NetsRunAlone ==
    \A t, u \in Transition :
        Inside(t) /\ Callback[t] = Callback[u] /\ t \in scheduled[Owner[t]] /\ u \in scheduled[Owner[u]] => t = u

(***************************************************************************)
(* What makes a net use another one in turns: the transitions that run it  *)
(* all take the one token of a set of places, to which a transition gives  *)
(* at most what it takes.                                                  *)
(***************************************************************************)
AtMostOne(set) == \A a, b \in set : a = b

OneTurn(S, n) ==
    /\ AtMostOne(Initial[n] \cap S)
    /\ \A t \in Transition :
            Owner[t] = n => AtMostOne(Out[t] \cap S) /\ (Out[t] \cap S # {} => In[t] \cap S # {})

TakeTurns ==
    \A t, u \in Transition :
        Inside(t) /\ Callback[t] = Callback[u] /\ t # u =>
            \E S \in SUBSET Place : OneTurn(S, Owner[t]) /\ In[t] \cap S # {} /\ In[u] \cap S # {}

(***************************************************************************)
(* "It will cancel all child Callbacks that are running", and pause them   *)
(* (types.h): a net in its loop that has nothing to hear any more does     *)
(* what the net around it does.  One that threw a call away when it began  *)
(* may go on running when it should not, but none is left paused under a   *)
(* net that goes on.                                                       *)
(***************************************************************************)
Loops(n) == pc[n] \in {"wait", "batch", "log", "asked"} /\ state[n] \in {"Started", "Paused"}

ControlReachesNested ==
    \A t \in Transition :
        LET inner == Callback[t]
            outer == Owner[t]
        IN  Inside(t) /\ task[t] = "running" /\ Loops(inner) /\ calls[inner] = <<>> =>
                /\ state[outer] \in {"Started", "Paused", "Canceled"} /\ ~deaf[inner] =>
                        state[inner] = state[outer]
                /\ state[outer] = "Started" => state[inner] = "Started"

(***************************************************************************)
(* What `fire' returns is the outcome of the run: Success only of a net    *)
(* that is at its goal, Deadlocked only of one that is not and where       *)
(* nothing can fire, and never that it is still running.  A call that      *)
(* comes after the loop has ended changes the state once more.             *)
(***************************************************************************)
OutcomeHolds ==
    \A n \in Net :
        pc[n] = "ending" /\ ~late[n] =>
            /\ state[n] \in {"Success", "Deadlocked", "Canceled"}
            /\ state[n] = "Success" => Reached(n)
            /\ state[n] = "Deadlocked" => ~Reached(n) /\ Enabled(n) = {}

(***************************************************************************)
(* A pool with a thread for every nested net and one more is enough: the   *)
(* nets that occupy threads do not wait for each other, and the root ends, *)
(* unless it is left paused or waits for a log that nobody sends.          *)
(* (tasks.h counts transitions that run in parallel.)                      *)
(***************************************************************************)
RootReturns == <>[]~held /\ []~lost => (pc[Root] = "discard" ~> pc[Root] = "idle")
=============================================================================
