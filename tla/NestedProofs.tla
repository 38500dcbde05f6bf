------------------------------- MODULE NestedProofs -------------------------------
(***************************************************************************)
(* Proofs about nested nets, for every tree of nets, every number of       *)
(* threads and of calls.                                                   *)
(***************************************************************************)
EXTENDS NestedNets, FiniteSetTheorems, TLAPS

(***************************************************************************)
(* Where the loop of a net is, also while it collects a log.               *)
(***************************************************************************)
Where(n) == IF pc[n] \in {"log", "asked"} THEN back[n] ELSE pc[n]

(***************************************************************************)
(* A result is on its way to the net that scheduled its transition, once,  *)
(* and the transition is not in the pool any more.                         *)
(***************************************************************************)
ResultsAreUnique ==
    \A n \in Net : \A r \in results[n] :
        /\ Owner[r[1]] = n
        /\ task[r[1]] = "none"
        /\ \A s \in results[n] : s[1] = r[1] => s = r

TasksAreScheduled == \A t \in Transition : task[t] # "none" => t \in scheduled[Owner[t]]

ResultsAreScheduled == \A n \in Net : \A r \in results[n] : r[1] \in scheduled[n]

IdleHasNothing == \A n \in Net : pc[n] \in {"idle", "discard", "ending"} => scheduled[n] = {}

RunByWorker ==
    \A n \in Net \ {Root} : pc[n] # "idle" => \E t \in Transition : Callback[t] = n /\ task[t] = "running"

(***************************************************************************)
(* The states that go with each part of `fire'.                            *)
(***************************************************************************)
StateFollowsLoop ==
    \A n \in Net :
        /\ Where(n) = "discard" => state[n] = "Started"
        /\ Where(n) = "batch" => state[n] \in {"Started", "Paused", "Canceled"}
        /\ Where(n) \in {"wait", "drain", "ending"} =>
                state[n] \in {"Started", "Paused", "Canceled", "Success", "Deadlocked"}
        /\ Where(n) \in {"drain", "ending"} /\ ~late[n] =>
                state[n] \in {"Canceled", "Success", "Deadlocked"}

(***************************************************************************)
(* Success and Deadlocked are true from where they are set to the end.     *)
(***************************************************************************)
TellsTruth(n) ==
    Where(n) = "wait" \/ (Where(n) \in {"drain", "ending"} /\ ~late[n]) =>
        /\ state[n] = "Success" => Reached(n)
        /\ state[n] = "Deadlocked" => ~Reached(n) /\ Enabled(n) = {} /\ scheduled[n] = {}

StateIsTrue == \A n \in Net : TellsTruth(n)

(***************************************************************************)
(* A loop that waits for a log knows whose.                                *)
(***************************************************************************)
AskedIsAsking == \A n \in Net : pc[n] = "asked" => asking[n] # <<>>

WorkInv ==
    /\ NestedTypeOK
    /\ ResultsAreUnique
    /\ TasksAreScheduled
    /\ ResultsAreScheduled
    /\ IdleHasNothing
    /\ RunByWorker
    /\ StateFollowsLoop
    /\ StateIsTrue
    /\ AskedIsAsking

-----------------------------------------------------------------------------
(***************************************************************************)
(* What a step leaves alone at a net stays true of it.                     *)
(***************************************************************************)
LEMMA TruthKept ==
    ASSUME NEW m \in Net, TellsTruth(m), Where(m)' = Where(m), state'[m] = state[m],
           tokens'[m] = tokens[m], scheduled'[m] = scheduled[m], late'[m] = late[m]
    PROVE  TellsTruth(m)'
<1>1. Reached(m)' = Reached(m) /\ Enabled(m)' = Enabled(m)
    BY DEF Reached, Enabled
<1>2. QED
    BY <1>1 DEF TellsTruth

(***************************************************************************)
(* A net that begins has variables of the right types.                     *)
(***************************************************************************)
LEMMA BeginTypes ==
    ASSUME NestedTypeOK, NEW n \in Net, Begin(n)
    PROVE  /\ pc' \in [Net -> {"idle", "discard", "wait", "batch", "log", "asked", "drain", "ending"}]
           /\ state' \in [Net -> Token \cup {"Scheduled"}]
           /\ tokens' \in [Net -> SUBSET (Place \X Token)]
           /\ scheduled' \in [Net -> SUBSET Transition]
           /\ deaf' \in [Net -> BOOLEAN]
           /\ late' \in [Net -> BOOLEAN]
<1>1. Initial[n] \X {"Success"} \subseteq Place \X Token
    BY NestedAssumption DEF NestedAssumption, Token
<1>2. tokens' \in [Net -> SUBSET (Place \X Token)]
    BY <1>1 DEF NestedTypeOK, Begin
<1>3. state' \in [Net -> Token \cup {"Scheduled"}]
    BY DEF NestedTypeOK, Begin, Token
<1>4. QED
    BY <1>2, <1>3 DEF NestedTypeOK, Begin

(***************************************************************************)
(* A net that begins is in no state to lie about.                          *)
(***************************************************************************)
LEMMA BeginTruth ==
    ASSUME NestedTypeOK, StateIsTrue, NEW n \in Net, Begin(n), UNCHANGED back
    PROVE  StateIsTrue'
<1> SUFFICES ASSUME NEW m \in Net PROVE TellsTruth(m)'
    BY DEF StateIsTrue
<1>1. CASE m = n
    BY <1>1 DEF Begin, NestedTypeOK, TellsTruth
<1>2. CASE m # n
    BY <1>2, TruthKept DEF Begin, NestedTypeOK, StateIsTrue, Where
<1>3. QED
    BY <1>1, <1>2

(***************************************************************************)
(* The callbacks of a net are a sequence.                                  *)
(***************************************************************************)
LEMMA CallbacksType ==
    ASSUME NEW n \in Net
    PROVE  Callbacks(n) \in Seq(Net)
<1> DEFINE S == {t \in Transition : Owner[t] = n /\ Inside(t)}
<1>1. IsFiniteSet(S)
    BY NestedAssumption, FS_Subset DEF NestedAssumption
<1>2. PICK k \in Nat : ExistsBijection(1 .. k, S)
    BY <1>1, FS_NatBijection
<1>3. Cardinality(S) = k
    BY <1>1, <1>2, FS_CountingElements
<1>4. \E f \in [1 .. Cardinality(S) -> S] : IsInjective(f)
    BY <1>2, <1>3 DEF ExistsBijection, Bijection, Injection, IsInjective
<1>5. SetToSeq(S) \in [1 .. Cardinality(S) -> S]
    BY <1>4 DEF SetToSeq
<1>6. Callbacks(n) = [i \in 1 .. k |-> Callback[SetToSeq(S)[i]]]
    BY <1>3, <1>5 DEF Callbacks
<1>7. \A i \in 1 .. k : Callback[SetToSeq(S)[i]] \in Net
    BY <1>3, <1>5 DEF Inside
<1>8. QED
    BY <1>6, <1>7

(***************************************************************************)
(* A result is added to a queue.                                           *)
(***************************************************************************)
LEMMA ResultAdded ==
    ASSUME NestedTypeOK, NEW t \in Transition, NEW x \in Token,
           results' = [results EXCEPT ![Owner[t]] = @ \cup {<<t, x>>}]
    PROVE  /\ Owner[t] \in Net
           /\ results' \in [Net -> SUBSET (Transition \X Token)]
           /\ results'[Owner[t]] = results[Owner[t]] \cup {<<t, x>>}
           /\ \A m \in Net : m # Owner[t] => results'[m] = results[m]
<1>1. Owner[t] \in Net
    BY NestedAssumption DEF NestedAssumption
<1> DEFINE o == Owner[t]
<1>2. o \in Net /\ results' = [results EXCEPT ![o] = results[o] \cup {<<t, x>>}]
    BY <1>1
<1>3. <<t, x>> \in Transition \X Token
    OBVIOUS
<1> HIDE DEF o
<1>4. results'[o] = results[o] \cup {<<t, x>>} /\ \A m \in Net : m # o => results'[m] = results[m]
    BY <1>2 DEF NestedTypeOK
<1> DEFINE added == results[o] \cup {<<t, x>>}
<1>6. added \in SUBSET (Transition \X Token)
    BY <1>2, <1>3 DEF NestedTypeOK
<1>7. results' = [results EXCEPT ![o] = added]
    BY <1>2
<1> HIDE DEF added
<1>8. results' \in [Net -> SUBSET (Transition \X Token)]
    BY <1>2, <1>6, <1>7, SMTT(60), ZenonT(60) DEF NestedTypeOK
<1>9. QED
    BY <1>1, <1>4, <1>8 DEF o

(***************************************************************************)
(* The result of a task that leaves the pool is the only one it has.       *)
(***************************************************************************)
LEMMA ResultAddedOnce ==
    ASSUME WorkInv, NEW t \in Transition, task[t] # "none", NEW x \in Token,
           results' = [results EXCEPT ![Owner[t]] = @ \cup {<<t, x>>}],
           task' = [task EXCEPT ![t] = "none"], UNCHANGED scheduled
    PROVE  ResultsAreUnique' /\ ResultsAreScheduled' /\ TasksAreScheduled'
<1>1. \A m \in Net : \A r \in results[m] : r[1] # t
    BY DEF WorkInv, ResultsAreUnique
<1>2. \A m \in Net : \A r \in results'[m] : r \in results[m] \/ (r = <<t, x>> /\ m = Owner[t])
    BY ResultAdded DEF WorkInv
<1>3. ResultsAreUnique'
    <2>1. ASSUME NEW m \in Net, NEW r \in results'[m]
          PROVE  Owner[r[1]] = m /\ task'[r[1]] = "none"
        BY <1>2 DEF WorkInv, NestedTypeOK, ResultsAreUnique
    <2>2. ASSUME NEW m \in Net, NEW r \in results'[m], NEW s \in results'[m], s[1] = r[1]
          PROVE  s = r
        BY <1>1, <1>2, <2>2 DEF WorkInv, ResultsAreUnique
    <2>3. QED
        BY <2>1, <2>2 DEF ResultsAreUnique
<1>4. ResultsAreScheduled'
    BY <1>2 DEF WorkInv, ResultsAreScheduled, TasksAreScheduled
<1>5. TasksAreScheduled'
    BY DEF WorkInv, TasksAreScheduled
<1>6. QED
    BY <1>3, <1>4, <1>5

(***************************************************************************)
(* What a worker does that takes a task.                                   *)
(***************************************************************************)
LEMMA TakeTaskCases ==
    ASSUME NEW t \in Transition, TakeTask(t)
    PROVE  \/ /\ task' = [task EXCEPT ![t] = "none"]
              /\ results' = [results EXCEPT ![Owner[t]] = @ \cup {<<t, "Failed">>}]
              /\ UNCHANGED <<pc, state, tokens, scheduled, deaf, late>>
           \/ /\ task' = [task EXCEPT ![t] = "running"]
              /\ Callback[t] \in Net /\ pc[Callback[t]] = "idle" /\ Begin(Callback[t])
              /\ UNCHANGED results
           \/ /\ task' = [task EXCEPT ![t] = "running"]
              /\ UNCHANGED <<results, pc, state, tokens, scheduled, deaf, late>>
    BY DEF TakeTask, Inside

-----------------------------------------------------------------------------
(***************************************************************************)
(* Every action keeps the invariant.                                       *)
(***************************************************************************)
LEMMA WorkCall ==
    ASSUME WorkInv, NEW call \in Control \cup {"getLog"}, Call(call)
    PROVE  WorkInv'
<1>1. NestedTypeOK'
    <2>1. made' \in 0 .. MaxCalls
        BY NestedAssumption DEF WorkInv, NestedTypeOK, Call, NestedAssumption
    <2>2. held' \in BOOLEAN
        <3>1. CASE call = "getLog"
            BY <3>1 DEF WorkInv, NestedTypeOK, Call
        <3>2. CASE call # "getLog"
            BY <3>2 DEF Call
        <3>3. QED
            BY <3>1, <3>2
    <2>3. calls' \in [Net -> Seq(Control \cup {"getLog"})]
        BY NestedAssumption DEF WorkInv, NestedTypeOK, Call, Called, NestedAssumption
    <2>4. QED
        BY <2>1, <2>2, <2>3 DEF WorkInv, NestedTypeOK, Call, loopVars
<1>2. ResultsAreUnique'
    BY DEF WorkInv, ResultsAreUnique, Call, loopVars
<1>3. TasksAreScheduled'
    BY DEF WorkInv, TasksAreScheduled, Call, loopVars
<1>4. ResultsAreScheduled'
    BY DEF WorkInv, ResultsAreScheduled, Call, loopVars
<1>5. IdleHasNothing'
    BY DEF WorkInv, IdleHasNothing, Call, loopVars
<1>6. RunByWorker'
    BY DEF WorkInv, RunByWorker, Call, loopVars
<1>7. StateFollowsLoop'
    BY DEF WorkInv, StateFollowsLoop, Where, Call, loopVars
<1>8. StateIsTrue'
    BY DEF WorkInv, StateIsTrue, TellsTruth, Where, Reached, Enabled, Call, loopVars
<1>9. AskedIsAsking'
    BY DEF WorkInv, AskedIsAsking, Call, loopVars
<1>10. QED
    BY <1>1, <1>2, <1>3, <1>4, <1>5, <1>6, <1>7, <1>8, <1>9 DEF WorkInv

LEMMA WorkFireRoot ==
    ASSUME WorkInv, FireRoot
    PROVE  WorkInv'
<1>1. NestedTypeOK'
    BY BeginTypes, NestedAssumption DEF WorkInv, NestedTypeOK, FireRoot, queueVars, NestedAssumption
<1>2. ResultsAreUnique'
    BY DEF WorkInv, ResultsAreUnique, FireRoot, queueVars
<1>3. TasksAreScheduled'
    BY DEF WorkInv, NestedTypeOK, TasksAreScheduled, FireRoot, Begin, queueVars, IdleHasNothing
<1>4. ResultsAreScheduled'
    BY DEF WorkInv, ResultsAreScheduled, FireRoot, Begin, queueVars, IdleHasNothing
<1>5. IdleHasNothing'
    BY DEF WorkInv, IdleHasNothing, FireRoot, Begin, queueVars
<1>6. RunByWorker'
    BY DEF WorkInv, RunByWorker, FireRoot, Begin, queueVars
<1>7. StateFollowsLoop'
    BY DEF WorkInv, NestedTypeOK, StateFollowsLoop, Where, FireRoot, Begin, queueVars
<1>8. StateIsTrue'
    BY BeginTruth, NestedAssumption DEF WorkInv, FireRoot, NestedAssumption
<1>9. AskedIsAsking'
    BY DEF WorkInv, AskedIsAsking, FireRoot, Begin, queueVars
<1>10. QED
    BY <1>1, <1>2, <1>3, <1>4, <1>5, <1>6, <1>7, <1>8, <1>9 DEF WorkInv

LEMMA WorkTakeTask ==
    ASSUME WorkInv, NEW t \in Transition, TakeTask(t)
    PROVE  WorkInv'
<1>1. NestedTypeOK'
    <2>1. CASE /\ task' = [task EXCEPT ![t] = "none"]
                 /\ results' = [results EXCEPT ![Owner[t]] = @ \cup {<<t, "Failed">>}]
                 /\ UNCHANGED <<pc, state, tokens, scheduled, deaf, late>>
        BY <2>1, ResultAdded DEF WorkInv, NestedTypeOK, TakeTask, Token
    <2>2. CASE /\ task' = [task EXCEPT ![t] = "running"]
                 /\ Callback[t] \in Net /\ pc[Callback[t]] = "idle" /\ Begin(Callback[t])
                 /\ UNCHANGED results
        BY <2>2, BeginTypes DEF WorkInv, NestedTypeOK, TakeTask
    <2>3. CASE /\ task' = [task EXCEPT ![t] = "running"]
                 /\ UNCHANGED <<results, pc, state, tokens, scheduled, deaf, late>>
        BY <2>3 DEF WorkInv, NestedTypeOK, TakeTask
    <2>4. QED
        BY <2>1, <2>2, <2>3, TakeTaskCases
<1>2. ResultsAreUnique'
    <2>1. CASE /\ task' = [task EXCEPT ![t] = "none"]
                 /\ results' = [results EXCEPT ![Owner[t]] = @ \cup {<<t, "Failed">>}]
                 /\ UNCHANGED <<pc, state, tokens, scheduled, deaf, late>>
        BY <2>1, ResultAddedOnce DEF TakeTask, Token
    <2>2. CASE /\ task' = [task EXCEPT ![t] = "running"]
                 /\ Callback[t] \in Net /\ pc[Callback[t]] = "idle" /\ Begin(Callback[t])
                 /\ UNCHANGED results
        BY <2>2 DEF WorkInv, ResultsAreUnique, TakeTask
    <2>3. CASE /\ task' = [task EXCEPT ![t] = "running"]
                 /\ UNCHANGED <<results, pc, state, tokens, scheduled, deaf, late>>
        BY <2>3 DEF WorkInv, ResultsAreUnique, TakeTask
    <2>4. QED
        BY <2>1, <2>2, <2>3, TakeTaskCases
<1>3. TasksAreScheduled'
    <2>1. CASE /\ task' = [task EXCEPT ![t] = "none"]
                 /\ results' = [results EXCEPT ![Owner[t]] = @ \cup {<<t, "Failed">>}]
                 /\ UNCHANGED <<pc, state, tokens, scheduled, deaf, late>>
        BY <2>1, ResultAddedOnce DEF TakeTask, Token
    <2>2. CASE /\ task' = [task EXCEPT ![t] = "running"]
                 /\ Callback[t] \in Net /\ pc[Callback[t]] = "idle" /\ Begin(Callback[t])
                 /\ UNCHANGED results
        BY <2>2 DEF WorkInv, TasksAreScheduled, IdleHasNothing, Begin, TakeTask
    <2>3. CASE /\ task' = [task EXCEPT ![t] = "running"]
                 /\ UNCHANGED <<results, pc, state, tokens, scheduled, deaf, late>>
        BY <2>3 DEF WorkInv, TasksAreScheduled, TakeTask
    <2>4. QED
        BY <2>1, <2>2, <2>3, TakeTaskCases
<1>4. ResultsAreScheduled'
    <2>1. CASE /\ task' = [task EXCEPT ![t] = "none"]
                 /\ results' = [results EXCEPT ![Owner[t]] = @ \cup {<<t, "Failed">>}]
                 /\ UNCHANGED <<pc, state, tokens, scheduled, deaf, late>>
        BY <2>1, ResultAddedOnce DEF TakeTask, Token
    <2>2. CASE /\ task' = [task EXCEPT ![t] = "running"]
                 /\ Callback[t] \in Net /\ pc[Callback[t]] = "idle" /\ Begin(Callback[t])
                 /\ UNCHANGED results
        BY <2>2 DEF WorkInv, ResultsAreScheduled, IdleHasNothing, Begin, TakeTask
    <2>3. CASE /\ task' = [task EXCEPT ![t] = "running"]
                 /\ UNCHANGED <<results, pc, state, tokens, scheduled, deaf, late>>
        BY <2>3 DEF WorkInv, ResultsAreScheduled, TakeTask
    <2>4. QED
        BY <2>1, <2>2, <2>3, TakeTaskCases
<1>5. IdleHasNothing'
    BY SMTT(60), ZenonT(60) DEF WorkInv, NestedTypeOK, IdleHasNothing, TakeTask, Begin
<1>6. RunByWorker'
    BY SMTT(60), ZenonT(60) DEF WorkInv, NestedTypeOK, RunByWorker, TakeTask, Begin
<1>7. StateFollowsLoop'
    BY DEF WorkInv, NestedTypeOK, StateFollowsLoop, Where, TakeTask, Begin
<1>8. StateIsTrue'
    <2>1. CASE Inside(t) /\ Begin(Callback[t])
        BY <2>1, BeginTruth DEF WorkInv, TakeTask, Inside
    <2>2. CASE UNCHANGED <<pc, state, tokens, scheduled, deaf, late>>
        BY <2>2, TruthKept DEF WorkInv, StateIsTrue, TakeTask, Where
    <2>3. QED
        BY <2>1, <2>2 DEF TakeTask
<1>9. AskedIsAsking'
    BY SMTT(60), ZenonT(60) DEF WorkInv, NestedTypeOK, AskedIsAsking, TakeTask, Begin
<1>10. QED
    BY <1>1, <1>2, <1>3, <1>4, <1>5, <1>6, <1>7, <1>8, <1>9 DEF WorkInv

LEMMA WorkReturn ==
    ASSUME WorkInv, NEW t \in Transition, Return(t)
    PROVE  WorkInv'
<1>1. NestedTypeOK'
    BY ResultAdded DEF WorkInv, NestedTypeOK, Return, Token, loopVars, ghosts
<1>2. ResultsAreUnique'
    BY ResultAddedOnce DEF Return, Token, loopVars
<1>3. TasksAreScheduled'
    BY DEF WorkInv, TasksAreScheduled, Return, loopVars, ghosts
<1>4. ResultsAreScheduled'
    BY DEF WorkInv, ResultsAreScheduled, Return, loopVars, ghosts, TasksAreScheduled
<1>5. IdleHasNothing'
    BY DEF WorkInv, IdleHasNothing, Return, loopVars, ghosts
<1>6. RunByWorker'
    BY DEF WorkInv, RunByWorker, Return, Inside, loopVars, ghosts
<1>7. StateFollowsLoop'
    BY DEF WorkInv, StateFollowsLoop, Where, Return, loopVars, ghosts
<1>8. StateIsTrue'
    BY DEF WorkInv, StateIsTrue, TellsTruth, Where, Reached, Enabled, Return, loopVars, ghosts
<1>9. AskedIsAsking'
    BY DEF WorkInv, AskedIsAsking, Return, loopVars, ghosts
<1>10. QED
    BY <1>1, <1>2, <1>3, <1>4, <1>5, <1>6, <1>7, <1>8, <1>9 DEF WorkInv

LEMMA WorkDiscard ==
    ASSUME WorkInv, NEW n \in Net, Discard(n)
    PROVE  WorkInv'
<1>1. NestedTypeOK'
    <2>1. lost' \in BOOLEAN /\ deaf' \in [Net -> BOOLEAN]
        <3>1. CASE Head(calls[n]) = "getLog"
            BY <3>1 DEF WorkInv, NestedTypeOK, Discard
        <3>2. CASE Head(calls[n]) # "getLog"
            BY <3>2 DEF WorkInv, NestedTypeOK, Discard
        <3>3. QED
            BY <3>1, <3>2
    <2>2. calls' \in [Net -> Seq(Control \cup {"getLog"})]
        BY DEF WorkInv, NestedTypeOK, Discard
    <2>3. QED
        BY <2>1, <2>2 DEF WorkInv, NestedTypeOK, Discard, loopVars
<1>2. ResultsAreUnique'
    BY DEF WorkInv, ResultsAreUnique, Discard, loopVars
<1>3. TasksAreScheduled'
    BY DEF WorkInv, TasksAreScheduled, Discard, loopVars
<1>4. ResultsAreScheduled'
    BY DEF WorkInv, ResultsAreScheduled, Discard, loopVars
<1>5. IdleHasNothing'
    BY DEF WorkInv, IdleHasNothing, Discard, loopVars
<1>6. RunByWorker'
    BY DEF WorkInv, RunByWorker, Discard, loopVars
<1>7. StateFollowsLoop'
    BY DEF WorkInv, StateFollowsLoop, Where, Discard, loopVars
<1>8. StateIsTrue'
    BY DEF WorkInv, StateIsTrue, TellsTruth, Where, Reached, Enabled, Discard, loopVars
<1>9. AskedIsAsking'
    BY DEF WorkInv, AskedIsAsking, Discard, loopVars
<1>10. QED
    BY <1>1, <1>2, <1>3, <1>4, <1>5, <1>6, <1>7, <1>8, <1>9 DEF WorkInv

LEMMA WorkEnqueueNoop ==
    ASSUME WorkInv, NEW n \in Net, EnqueueNoop(n)
    PROVE  WorkInv'
<1>1. NestedTypeOK'
    BY DEF WorkInv, NestedTypeOK, EnqueueNoop, ghosts
<1>2. ResultsAreUnique'
    BY DEF WorkInv, ResultsAreUnique, EnqueueNoop, ghosts
<1>3. TasksAreScheduled'
    BY DEF WorkInv, TasksAreScheduled, EnqueueNoop, ghosts
<1>4. ResultsAreScheduled'
    BY DEF WorkInv, ResultsAreScheduled, EnqueueNoop, ghosts
<1>5. IdleHasNothing'
    BY DEF WorkInv, IdleHasNothing, EnqueueNoop, ghosts
<1>6. RunByWorker'
    BY DEF WorkInv, RunByWorker, EnqueueNoop, ghosts
<1>7. StateFollowsLoop'
    BY DEF WorkInv, StateFollowsLoop, Where, EnqueueNoop, ghosts
<1>8. StateIsTrue'
    <2> SUFFICES ASSUME NEW m \in Net PROVE TellsTruth(m)'
        BY DEF StateIsTrue
    <2>1. CASE m = n
        BY <2>1 DEF WorkInv, StateFollowsLoop, EnqueueNoop, TellsTruth, Where
    <2>2. CASE m # n
        BY <2>2, TruthKept DEF WorkInv, StateIsTrue, EnqueueNoop, Where, ghosts
    <2>3. QED
        BY <2>1, <2>2
<1>9. AskedIsAsking'
    BY DEF WorkInv, AskedIsAsking, EnqueueNoop, ghosts
<1>10. QED
    BY <1>1, <1>2, <1>3, <1>4, <1>5, <1>6, <1>7, <1>8, <1>9 DEF WorkInv

LEMMA WorkApplyNoop ==
    ASSUME WorkInv, NEW n \in Net, ApplyNoop(n)
    PROVE  WorkInv'
<1>1. NestedTypeOK'
    BY DEF WorkInv, NestedTypeOK, ApplyNoop, ghosts, Then
<1>2. ResultsAreUnique'
    BY DEF WorkInv, ResultsAreUnique, ApplyNoop, ghosts
<1>3. TasksAreScheduled'
    BY DEF WorkInv, TasksAreScheduled, ApplyNoop, ghosts
<1>4. ResultsAreScheduled'
    BY DEF WorkInv, ResultsAreScheduled, ApplyNoop, ghosts
<1>5. IdleHasNothing'
    BY DEF WorkInv, IdleHasNothing, ApplyNoop, ghosts, Then
<1>6. RunByWorker'
    BY DEF WorkInv, RunByWorker, ApplyNoop, Running, ghosts
<1>7. StateFollowsLoop'
    BY DEF WorkInv, StateFollowsLoop, Where, ApplyNoop, Running, ghosts, Then
<1>8. StateIsTrue'
    BY DEF WorkInv, StateIsTrue, TellsTruth, Where, Reached, Enabled, ApplyNoop, ghosts, Then
<1>9. AskedIsAsking'
    BY DEF WorkInv, AskedIsAsking, ApplyNoop, ghosts, Then
<1>10. QED
    BY <1>1, <1>2, <1>3, <1>4, <1>5, <1>6, <1>7, <1>8, <1>9 DEF WorkInv

LEMMA WorkApplyResult ==
    ASSUME WorkInv, NEW n \in Net, ApplyResult(n)
    PROVE  WorkInv'
<1>1. NestedTypeOK'
    <2>1. PICK r \in results[n] :
            IF r[1] \in scheduled[n]
              THEN /\ tokens' = [tokens EXCEPT ![n] = tokens[n] \cup (Out[r[1]] \X {r[2]})]
                   /\ scheduled' = [scheduled EXCEPT ![n] = scheduled[n] \ {r[1]}]
              ELSE UNCHANGED <<tokens, scheduled>>
        BY DEF ApplyResult
    <2> DEFINE more == tokens[n] \cup (Out[r[1]] \X {r[2]})
    <2> DEFINE fewer == scheduled[n] \ {r[1]}
    <2>2. more \in SUBSET (Place \X Token) /\ fewer \in SUBSET Transition
        BY NestedAssumption DEF WorkInv, NestedTypeOK, NestedAssumption
    <2>3. (tokens' = [tokens EXCEPT ![n] = more] \/ tokens' = tokens)
          /\ (scheduled' = [scheduled EXCEPT ![n] = fewer] \/ scheduled' = scheduled)
        BY <2>1
    <2> HIDE DEF more, fewer
    <2>4. tokens' \in [Net -> SUBSET (Place \X Token)]
        BY <2>2, <2>3 DEF WorkInv, NestedTypeOK
    <2>5. scheduled' \in [Net -> SUBSET Transition]
        BY <2>2, <2>3 DEF WorkInv, NestedTypeOK
    <2>6. results' \in [Net -> SUBSET (Transition \X Token)]
        BY DEF WorkInv, NestedTypeOK, ApplyResult
    <2>7. QED
        BY <2>4, <2>5, <2>6 DEF WorkInv, NestedTypeOK, ApplyResult, ghosts, Then
<1>2. ResultsAreUnique'
    BY DEF WorkInv, ResultsAreUnique, ApplyResult, ghosts
<1>3. TasksAreScheduled'
    <2>1. PICK r \in results[n] :
            UNCHANGED scheduled \/ scheduled' = [scheduled EXCEPT ![n] = scheduled[n] \ {r[1]}]
        BY DEF ApplyResult
    <2>2. task[r[1]] = "none"
        BY DEF WorkInv, ResultsAreUnique
    <2>3. ASSUME NEW t \in Transition, task[t] # "none" PROVE t \in scheduled'[Owner[t]]
        <3>1. t \in scheduled[Owner[t]] /\ t # r[1] /\ Owner[t] \in Net
            BY <2>2, <2>3, NestedAssumption DEF WorkInv, TasksAreScheduled, NestedAssumption
        <3>2. CASE Owner[t] = n
            BY <2>1, <3>1, <3>2 DEF WorkInv, NestedTypeOK
        <3>3. CASE Owner[t] # n
            BY <2>1, <3>1, <3>3 DEF WorkInv, NestedTypeOK
        <3>4. QED
            BY <3>2, <3>3
    <2>4. QED
        BY <2>3 DEF TasksAreScheduled, ApplyResult
<1>4. ResultsAreScheduled'
    BY DEF WorkInv, NestedTypeOK, ResultsAreScheduled, ApplyResult, ghosts, ResultsAreUnique
<1>5. IdleHasNothing'
    BY DEF WorkInv, NestedTypeOK, IdleHasNothing, ApplyResult, ghosts, Then
<1>6. RunByWorker'
    BY DEF WorkInv, RunByWorker, ApplyResult, Running, ghosts
<1>7. StateFollowsLoop'
    BY DEF WorkInv, StateFollowsLoop, Where, ApplyResult, Running, ghosts, Then
<1>8. StateIsTrue'
    <2> SUFFICES ASSUME NEW m \in Net PROVE TellsTruth(m)'
        BY DEF StateIsTrue
    <2>1. CASE m # n
        BY <2>1, TruthKept, SMTT(60), ZenonT(60) DEF WorkInv, NestedTypeOK, StateIsTrue, ApplyResult, Where, ghosts
    <2>2. CASE m = n
        <3>1. pc[n] # "drain" => Where(n)' = "batch"
            BY DEF WorkInv, NestedTypeOK, ApplyResult, Where, Then
        <3>2. pc[n] = "drain" => Where(n)' = "drain" /\ Where(n) = "drain" /\ scheduled[n] # {}
            BY DEF WorkInv, ApplyResult, Running, Where, Then
        <3>3. Reached(n) => Reached(n)'
            BY DEF WorkInv, NestedTypeOK, ApplyResult, Reached
        <3>4. QED
            BY <2>2, <3>1, <3>2, <3>3 DEF WorkInv, StateIsTrue, TellsTruth, ApplyResult, ghosts
    <2>3. QED
        BY <2>1, <2>2
<1>9. AskedIsAsking'
    BY DEF WorkInv, AskedIsAsking, ApplyResult, ghosts, Then
<1>10. QED
    BY <1>1, <1>2, <1>3, <1>4, <1>5, <1>6, <1>7, <1>8, <1>9 DEF WorkInv

LEMMA WorkApplyControl ==
    ASSUME WorkInv, NEW n \in Net, ApplyControl(n)
    PROVE  WorkInv'
<1>1. NestedTypeOK'
    <2>1. calls' \in [Net -> Seq(Control \cup {"getLog"})]
        BY DEF WorkInv, NestedTypeOK, ApplyControl, PassedOn
    <2>2. late' \in [Net -> BOOLEAN]
        BY DEF WorkInv, NestedTypeOK, ApplyControl
    <2>3. state' \in [Net -> Token \cup {"Scheduled"}]
        BY DEF WorkInv, NestedTypeOK, ApplyControl, NextState, Control, Token
    <2>4. pc' \in [Net -> {"idle", "discard", "wait", "batch", "log", "asked", "drain", "ending"}]
        BY DEF WorkInv, NestedTypeOK, ApplyControl, Then
    <2>5. QED
        BY <2>1, <2>2, <2>3, <2>4 DEF WorkInv, NestedTypeOK, ApplyControl
<1>2. ResultsAreUnique'
    BY DEF WorkInv, ResultsAreUnique, ApplyControl, NextState, Control
<1>3. TasksAreScheduled'
    BY DEF WorkInv, TasksAreScheduled, ApplyControl, NextState, Control
<1>4. ResultsAreScheduled'
    BY DEF WorkInv, ResultsAreScheduled, ApplyControl, NextState, Control
<1>5. IdleHasNothing'
    BY DEF WorkInv, IdleHasNothing, ApplyControl, NextState, Control, Then
<1>6. RunByWorker'
    BY DEF WorkInv, RunByWorker, ApplyControl, Running, NextState, Control
<1>7. StateFollowsLoop'
    <2>1. pc[n] # "drain" => Where(n)' = "batch"
        BY DEF WorkInv, NestedTypeOK, ApplyControl, Where, Then
    <2>2. pc[n] = "drain" => Where(n)' = "drain" /\ late'[n]
        BY DEF WorkInv, NestedTypeOK, ApplyControl, Where, Then
    <2>3. state'[n] \in {"Started", "Paused", "Canceled"}
        BY DEF WorkInv, NestedTypeOK, ApplyControl, NextState, Control
    <2>4. \A m \in Net \ {n} : Where(m)' = Where(m) /\ state'[m] = state[m] /\ late'[m] = late[m]
        BY DEF WorkInv, ApplyControl, Where
    <2>5. QED
        BY <2>1, <2>2, <2>3, <2>4 DEF WorkInv, StateFollowsLoop
<1>8. StateIsTrue'
    <2>1. pc[n] # "drain" => Where(n)' = "batch"
        BY DEF WorkInv, NestedTypeOK, ApplyControl, Where, Then
    <2>2. pc[n] = "drain" => Where(n)' = "drain" /\ late'[n]
        BY DEF WorkInv, NestedTypeOK, ApplyControl, Where, Then
    <2>3. TellsTruth(n)'
        BY <2>1, <2>2 DEF TellsTruth
    <2>4. ASSUME NEW m \in Net \ {n} PROVE TellsTruth(m)'
        BY TruthKept DEF WorkInv, StateIsTrue, ApplyControl, Where
    <2>5. QED
        BY <2>3, <2>4 DEF StateIsTrue
<1>9. AskedIsAsking'
    BY DEF WorkInv, AskedIsAsking, ApplyControl, NextState, Control, Then
<1>10. QED
    BY <1>1, <1>2, <1>3, <1>4, <1>5, <1>6, <1>7, <1>8, <1>9 DEF WorkInv

LEMMA WorkApplyGetLog ==
    ASSUME WorkInv, NEW n \in Net, ApplyGetLog(n)
    PROVE  WorkInv'
<1>1. NestedTypeOK'
    <2>1. asking' \in [Net -> Seq(Net)]
        BY CallbacksType DEF WorkInv, NestedTypeOK, ApplyGetLog
    <2>2. calls' \in [Net -> Seq(Control \cup {"getLog"})]
        BY DEF WorkInv, NestedTypeOK, ApplyGetLog
    <2>3. QED
        BY <2>1, <2>2 DEF WorkInv, NestedTypeOK, ApplyGetLog, ghosts, Then
<1>2. ResultsAreUnique'
    BY DEF WorkInv, ResultsAreUnique, ApplyGetLog, ghosts
<1>3. TasksAreScheduled'
    BY DEF WorkInv, TasksAreScheduled, ApplyGetLog, ghosts
<1>4. ResultsAreScheduled'
    BY DEF WorkInv, ResultsAreScheduled, ApplyGetLog, ghosts
<1>5. IdleHasNothing'
    BY DEF WorkInv, IdleHasNothing, ApplyGetLog, ghosts
<1>6. RunByWorker'
    BY DEF WorkInv, RunByWorker, ApplyGetLog, Running, ghosts
<1>7. StateFollowsLoop'
    BY DEF WorkInv, NestedTypeOK, StateFollowsLoop, Where, ApplyGetLog, Running, ghosts, Then
<1>8. StateIsTrue'
    BY SMTT(60), ZenonT(60) DEF WorkInv, NestedTypeOK, StateIsTrue, TellsTruth, Where, Reached, Enabled, ApplyGetLog, ghosts, Then
<1>9. AskedIsAsking'
    BY DEF WorkInv, AskedIsAsking, ApplyGetLog, Running, ghosts
<1>10. QED
    BY <1>1, <1>2, <1>3, <1>4, <1>5, <1>6, <1>7, <1>8, <1>9 DEF WorkInv

LEMMA WorkAsk ==
    ASSUME WorkInv, NEW n \in Net, Ask(n)
    PROVE  WorkInv'
<1>1. NestedTypeOK'
    <2> DEFINE asked == Head(asking[n])
    <2> DEFINE longer == Append(calls[asked], "getLog")
    <2>1. asked \in Net /\ Tail(asking[n]) \in Seq(Net)
        BY DEF WorkInv, NestedTypeOK, Ask
    <2>2. longer \in Seq(Control \cup {"getLog"})
        BY <2>1 DEF WorkInv, NestedTypeOK
    <2>3. calls' = [calls EXCEPT ![asked] = longer] \/ calls' = calls
        BY DEF Ask, Called
    <2> HIDE DEF asked, longer
    <2>4. calls' \in [Net -> Seq(Control \cup {"getLog"})]
        BY <2>1, <2>2, <2>3 DEF WorkInv, NestedTypeOK
    <2>5. asking' \in [Net -> Seq(Net)]
        BY <2>1 DEF WorkInv, NestedTypeOK, Ask
    <2>6. QED
        BY <2>4, <2>5 DEF WorkInv, NestedTypeOK, Ask, ghosts
<1>2. ResultsAreUnique'
    BY DEF WorkInv, ResultsAreUnique, Ask, ghosts
<1>3. TasksAreScheduled'
    BY DEF WorkInv, TasksAreScheduled, Ask, ghosts
<1>4. ResultsAreScheduled'
    BY DEF WorkInv, ResultsAreScheduled, Ask, ghosts
<1>5. IdleHasNothing'
    BY DEF WorkInv, NestedTypeOK, IdleHasNothing, Ask, ghosts
<1>6. RunByWorker'
    BY DEF WorkInv, NestedTypeOK, RunByWorker, Ask, Called, ghosts
<1>7. StateFollowsLoop'
    BY DEF WorkInv, NestedTypeOK, StateFollowsLoop, Where, Ask, ghosts
<1>8. StateIsTrue'
    <2>1. \A m \in Net : Where(m)' = Where(m)
        BY DEF WorkInv, NestedTypeOK, Ask, Where
    <2>2. QED
        BY <2>1, TruthKept DEF WorkInv, StateIsTrue, Ask, ghosts
<1>9. AskedIsAsking'
    BY DEF WorkInv, NestedTypeOK, AskedIsAsking, Ask, ghosts
<1>10. QED
    BY <1>1, <1>2, <1>3, <1>4, <1>5, <1>6, <1>7, <1>8, <1>9 DEF WorkInv

LEMMA WorkAnswer ==
    ASSUME WorkInv, NEW n \in Net, Answer(n)
    PROVE  WorkInv'
<1>1. NestedTypeOK'
    <2>1. asking' \in [Net -> Seq(Net)]
        <3>1. ASSUME NEW m \in Net
              PROVE  (IF Asks(m, n) THEN Tail(asking[m]) ELSE asking[m]) \in Seq(Net)
            <4>1. asking[m] \in Seq(Net) /\ (asking[m] # <<>> => Tail(asking[m]) \in Seq(Net))
                BY DEF WorkInv, NestedTypeOK
            <4>2. Asks(m, n) => asking[m] # <<>>
                BY DEF WorkInv, AskedIsAsking, Asks
            <4>3. QED
                BY <4>1, <4>2
        <3>2. QED
            BY <3>1 DEF Answer
    <2>2. pc' \in [Net -> {"idle", "discard", "wait", "batch", "log", "asked", "drain", "ending"}]
        BY DEF WorkInv, NestedTypeOK, Answer
    <2>3. QED
        BY <2>1, <2>2 DEF WorkInv, NestedTypeOK, Answer, queueVars, ghosts
<1>2. ResultsAreUnique'
    BY DEF WorkInv, ResultsAreUnique, Answer, Asks, queueVars, ghosts
<1>3. TasksAreScheduled'
    BY DEF WorkInv, TasksAreScheduled, Answer, Asks, queueVars, ghosts
<1>4. ResultsAreScheduled'
    BY DEF WorkInv, ResultsAreScheduled, Answer, Asks, queueVars, ghosts
<1>5. IdleHasNothing'
    BY DEF WorkInv, NestedTypeOK, IdleHasNothing, Answer, Asks, queueVars, ghosts
<1>6. RunByWorker'
    BY DEF WorkInv, RunByWorker, Answer, Asks, queueVars, ghosts
<1>7. StateFollowsLoop'
    BY DEF WorkInv, StateFollowsLoop, Where, Answer, Asks, queueVars, ghosts
<1>8. StateIsTrue'
    BY DEF WorkInv, StateIsTrue, TellsTruth, Where, Reached, Enabled, Answer, Asks, queueVars, ghosts
<1>9. AskedIsAsking'
    BY DEF WorkInv, NestedTypeOK, AskedIsAsking, Answer, Asks, queueVars, ghosts
<1>10. QED
    BY <1>1, <1>2, <1>3, <1>4, <1>5, <1>6, <1>7, <1>8, <1>9 DEF WorkInv

LEMMA WorkBatchDone ==
    ASSUME WorkInv, NEW n \in Net, BatchDone(n)
    PROVE  WorkInv'
<1>1. NestedTypeOK'
    <2>1. scheduled' \in [Net -> SUBSET Transition]
        BY DEF WorkInv, NestedTypeOK, BatchDone, Enabled
    <2>2. tokens' \in [Net -> SUBSET (Place \X Token)]
        BY DEF WorkInv, NestedTypeOK, BatchDone
    <2>3. task' \in [Transition -> {"none", "queued", "running"}]
        BY DEF WorkInv, NestedTypeOK, BatchDone
    <2>4. state' \in [Net -> Token \cup {"Scheduled"}]
        BY DEF WorkInv, NestedTypeOK, BatchDone, Token
    <2>5. QED
        BY <2>1, <2>2, <2>3, <2>4 DEF WorkInv, NestedTypeOK, BatchDone, queueVars, ghosts
<1>2. ResultsAreUnique'
    BY DEF WorkInv, NestedTypeOK, ResultsAreUnique, BatchDone, queueVars, ghosts, ResultsAreScheduled, Enabled
<1>3. TasksAreScheduled'
    BY DEF WorkInv, NestedTypeOK, TasksAreScheduled, BatchDone, queueVars, ghosts, Enabled
<1>4. ResultsAreScheduled'
    BY DEF WorkInv, ResultsAreScheduled, BatchDone, queueVars, ghosts
<1>5. IdleHasNothing'
    BY DEF WorkInv, IdleHasNothing, BatchDone, queueVars, ghosts
<1>6. RunByWorker'
    BY NestedAssumption DEF WorkInv, NestedAssumption, RunByWorker, BatchDone, queueVars, ghosts, TasksAreScheduled, Enabled
<1>7. StateFollowsLoop'
    BY DEF WorkInv, NestedTypeOK, StateFollowsLoop, Where, BatchDone, queueVars, ghosts
<1>8. StateIsTrue'
    <2> SUFFICES ASSUME NEW m \in Net PROVE TellsTruth(m)'
        BY DEF StateIsTrue
    <2>1. CASE m # n
        BY <2>1, TruthKept DEF WorkInv, NestedTypeOK, StateIsTrue, BatchDone, Where, ghosts
    <2>2. CASE m = n
        <3>1. state[n] \notin {"Success", "Deadlocked"}
            BY DEF WorkInv, StateFollowsLoop, BatchDone, Where
        <3>2. CASE Reached(n)
            <4>1. state'[n] = "Success" /\ tokens'[n] = tokens[n]
                BY <3>2 DEF WorkInv, NestedTypeOK, BatchDone
            <4>2. QED
                BY <2>2, <3>2, <4>1 DEF TellsTruth, Reached
        <3>3. CASE ~Reached(n) /\ state[n] = "Started" /\ scheduled[n] \cup Enabled(n) = {}
            <4>1. tokens'[n] = tokens[n] /\ scheduled'[n] = {} /\ state'[n] = "Deadlocked"
                BY <3>3 DEF WorkInv, NestedTypeOK, BatchDone
            <4>2. Reached(n)' = Reached(n) /\ Enabled(n)' = Enabled(n)
                BY <4>1 DEF Reached, Enabled
            <4>3. QED
                BY <2>2, <3>3, <4>1, <4>2 DEF TellsTruth
        <3>4. CASE ~Reached(n) /\ ~(state[n] = "Started" /\ scheduled[n] \cup Enabled(n) = {})
            <4>1. state'[n] = state[n]
                BY <3>4 DEF WorkInv, BatchDone
            <4>2. QED
                BY <2>2, <3>1, <4>1 DEF TellsTruth
        <3>5. QED
            BY <3>2, <3>3, <3>4
    <2>3. QED
        BY <2>1, <2>2
<1>9. AskedIsAsking'
    BY DEF WorkInv, AskedIsAsking, BatchDone, queueVars, ghosts
<1>10. QED
    BY <1>1, <1>2, <1>3, <1>4, <1>5, <1>6, <1>7, <1>8, <1>9 DEF WorkInv

LEMMA WorkLeaveLoop ==
    ASSUME WorkInv, NEW n \in Net, LeaveLoop(n)
    PROVE  WorkInv'
<1>1. NestedTypeOK'
    <2>1. state' \in [Net -> Token \cup {"Scheduled"}]
        BY DEF WorkInv, NestedTypeOK, LeaveLoop, Leave, Token
    <2>2. QED
        BY <2>1 DEF WorkInv, NestedTypeOK, LeaveLoop, Leave, queueVars, ghosts
<1>2. ResultsAreUnique'
    BY DEF WorkInv, ResultsAreUnique, LeaveLoop, Leave, queueVars, ghosts
<1>3. TasksAreScheduled'
    BY DEF WorkInv, TasksAreScheduled, LeaveLoop, Leave, queueVars, ghosts
<1>4. ResultsAreScheduled'
    BY DEF WorkInv, ResultsAreScheduled, LeaveLoop, Leave, queueVars, ghosts
<1>5. IdleHasNothing'
    BY DEF WorkInv, IdleHasNothing, LeaveLoop, Leave, queueVars, ghosts
<1>6. RunByWorker'
    BY DEF WorkInv, RunByWorker, LeaveLoop, Leave, queueVars, ghosts
<1>7. StateFollowsLoop'
    BY DEF WorkInv, StateFollowsLoop, Where, LeaveLoop, Leave, queueVars, ghosts
<1>8. StateIsTrue'
    <2> SUFFICES ASSUME NEW m \in Net PROVE TellsTruth(m)'
        BY DEF StateIsTrue
    <2>1. CASE m # n
        BY <2>1, TruthKept DEF WorkInv, StateIsTrue, LeaveLoop, Leave, Where, ghosts
    <2>2. CASE m = n
        <3>1. Reached(n)' = Reached(n) /\ Enabled(n)' = Enabled(n)
            BY DEF LeaveLoop, Leave, Reached, Enabled
        <3>2. state'[n] = IF Reached(n) THEN "Success" ELSE state[n]
            BY DEF WorkInv, NestedTypeOK, LeaveLoop, Leave
        <3>3. TellsTruth(n) /\ Where(n) = "wait" /\ scheduled'[n] = scheduled[n]
            BY DEF WorkInv, StateIsTrue, LeaveLoop, Leave, Where
        <3>4. QED
            BY <2>2, <3>1, <3>2, <3>3 DEF TellsTruth
    <2>3. QED
        BY <2>1, <2>2
<1>9. AskedIsAsking'
    BY DEF WorkInv, AskedIsAsking, LeaveLoop, Leave, queueVars, ghosts
<1>10. QED
    BY <1>1, <1>2, <1>3, <1>4, <1>5, <1>6, <1>7, <1>8, <1>9 DEF WorkInv

LEMMA WorkDrainDone ==
    ASSUME WorkInv, NEW n \in Net, DrainDone(n)
    PROVE  WorkInv'
<1>1. NestedTypeOK'
    BY DEF WorkInv, NestedTypeOK, DrainDone, queueVars, ghosts
<1>2. ResultsAreUnique'
    BY DEF WorkInv, ResultsAreUnique, DrainDone, queueVars, ghosts
<1>3. TasksAreScheduled'
    BY DEF WorkInv, TasksAreScheduled, DrainDone, queueVars, ghosts
<1>4. ResultsAreScheduled'
    BY DEF WorkInv, ResultsAreScheduled, DrainDone, queueVars, ghosts
<1>5. IdleHasNothing'
    BY DEF WorkInv, IdleHasNothing, DrainDone, queueVars, ghosts
<1>6. RunByWorker'
    BY DEF WorkInv, RunByWorker, DrainDone, queueVars, ghosts
<1>7. StateFollowsLoop'
    BY DEF WorkInv, StateFollowsLoop, Where, DrainDone, queueVars, ghosts
<1>8. StateIsTrue'
    BY DEF WorkInv, StateIsTrue, TellsTruth, Where, Reached, Enabled, DrainDone, queueVars, ghosts
<1>9. AskedIsAsking'
    BY DEF WorkInv, AskedIsAsking, DrainDone, queueVars, ghosts
<1>10. QED
    BY <1>1, <1>2, <1>3, <1>4, <1>5, <1>6, <1>7, <1>8, <1>9 DEF WorkInv

LEMMA WorkFinish ==
    ASSUME WorkInv, NEW n \in Net, Finish(n)
    PROVE  WorkInv'
<1>1. NestedTypeOK'
    <2>1. state[n] \in Token
        BY DEF WorkInv, StateFollowsLoop, Finish, Where, Token
    <2>2. results' \in [Net -> SUBSET (Transition \X Token)]
        BY <2>1 DEF WorkInv, NestedTypeOK, Finish, Caller, Working
    <2>3. task' \in [Transition -> {"none", "queued", "running"}]
        BY DEF WorkInv, NestedTypeOK, Finish
    <2>4. lost' \in BOOLEAN
        BY DEF WorkInv, Finish
    <2>5. QED
        BY <2>2, <2>3, <2>4 DEF WorkInv, NestedTypeOK, Finish
<1>2. ResultsAreUnique'
    <2>1. ASSUME NEW m \in Net, NEW r \in results'[m]
          PROVE  /\ Owner[r[1]] = m
                 /\ task'[r[1]] = "none"
                 /\ r \in results[m] \/ (r[1] \in Caller(n) /\ r = <<r[1], state[n]>>)
        BY DEF WorkInv, NestedTypeOK, ResultsAreUnique, Finish, Caller, Working
    <2>2. \A m \in Net : \A r \in results[m] : r[1] \notin Caller(n)
        BY DEF WorkInv, ResultsAreUnique, Caller, Working
    <2>3. QED
        BY <2>1, <2>2 DEF WorkInv, ResultsAreUnique
<1>3. TasksAreScheduled'
    BY DEF WorkInv, TasksAreScheduled, Finish
<1>4. ResultsAreScheduled'
    BY NestedAssumption DEF WorkInv, NestedAssumption, ResultsAreScheduled, Finish, Caller, Working, TasksAreScheduled
<1>5. IdleHasNothing'
    BY DEF WorkInv, IdleHasNothing, Finish
<1>6. RunByWorker'
    BY NestedAssumption DEF WorkInv, NestedAssumption, NestedTypeOK, RunByWorker, Finish, Caller
<1>7. StateFollowsLoop'
    BY DEF WorkInv, StateFollowsLoop, Where, Finish
<1>8. StateIsTrue'
    BY DEF WorkInv, StateIsTrue, TellsTruth, Where, Reached, Enabled, Finish
<1>9. AskedIsAsking'
    BY DEF WorkInv, AskedIsAsking, Finish
<1>10. QED
    BY <1>1, <1>2, <1>3, <1>4, <1>5, <1>6, <1>7, <1>8, <1>9 DEF WorkInv

-----------------------------------------------------------------------------
(***************************************************************************)
(* The invariant is inductive.                                             *)
(***************************************************************************)
LEMMA WorkInit ==
    ASSUME Init
    PROVE  WorkInv
<1>1. NestedTypeOK
    <2>1. \A n \in Net : Initial[n] \X {"Success"} \subseteq Place \X Token
        BY NestedAssumption DEF NestedAssumption, Token
    <2>2. tokens \in [Net -> SUBSET (Place \X Token)]
        BY <2>1 DEF Init
    <2>3. made \in 0 .. MaxCalls
        BY NestedAssumption DEF Init, NestedAssumption
    <2>4. calls \in [Net -> Seq(Control \cup {"getLog"})] /\ asking \in [Net -> Seq(Net)]
        BY DEF Init
    <2>5. pc \in [Net -> {"idle", "discard", "wait", "batch", "log", "asked", "drain", "ending"}]
        BY DEF Init
    <2>6. state \in [Net -> Token \cup {"Scheduled"}]
        BY DEF Init
    <2>7. back \in [Net -> {"batch", "drain"}]
        BY DEF Init
    <2>8. task \in [Transition -> {"none", "queued", "running"}]
        BY DEF Init
    <2>9. scheduled \in [Net -> SUBSET Transition] /\ results \in [Net -> SUBSET (Transition \X Token)]
        BY DEF Init
    <2>10. noop \in [Net -> BOOLEAN] /\ deaf \in [Net -> BOOLEAN] /\ late \in [Net -> BOOLEAN]
        BY DEF Init
    <2>11. held \in BOOLEAN /\ lost \in BOOLEAN
        BY DEF Init
    <2>12. QED
        BY <2>2, <2>3, <2>4, <2>5, <2>6, <2>7, <2>8, <2>9, <2>10, <2>11 DEF NestedTypeOK
<1>2. ResultsAreUnique /\ TasksAreScheduled /\ ResultsAreScheduled
    BY DEF Init, ResultsAreUnique, TasksAreScheduled, ResultsAreScheduled
<1>3. IdleHasNothing /\ RunByWorker /\ AskedIsAsking
    BY DEF Init, IdleHasNothing, RunByWorker, AskedIsAsking
<1>4. StateFollowsLoop /\ StateIsTrue
    BY DEF Init, StateFollowsLoop, StateIsTrue, TellsTruth, Where
<1>5. QED
    BY <1>1, <1>2, <1>3, <1>4 DEF WorkInv

LEMMA WorkStutters ==
    ASSUME WorkInv, UNCHANGED vars
    PROVE  WorkInv'
<1> USE DEF vars, loopVars, queueVars, ghosts
<1>1. NestedTypeOK'
    BY DEF WorkInv, NestedTypeOK
<1>2. ResultsAreUnique' /\ TasksAreScheduled' /\ ResultsAreScheduled'
    BY DEF WorkInv, ResultsAreUnique, TasksAreScheduled, ResultsAreScheduled
<1>3. IdleHasNothing' /\ RunByWorker' /\ AskedIsAsking'
    BY DEF WorkInv, IdleHasNothing, RunByWorker, AskedIsAsking
<1>4. StateFollowsLoop'
    BY DEF WorkInv, StateFollowsLoop, Where
<1>5. StateIsTrue'
    BY DEF WorkInv, StateIsTrue, TellsTruth, Where, Reached, Enabled
<1>6. QED
    BY <1>1, <1>2, <1>3, <1>4, <1>5 DEF WorkInv

LEMMA WorkNext ==
    ASSUME WorkInv, [Next]_vars
    PROVE  WorkInv'
<1>1. CASE \E call \in Control \cup {"getLog"} : Call(call)
    BY <1>1, WorkCall
<1>2. CASE FireRoot
    BY <1>2, WorkFireRoot
<1>3. CASE \E t \in Transition : TakeTask(t) \/ Return(t)
    BY <1>3, WorkTakeTask, WorkReturn
<1>4. CASE \E n \in Net : fire(n)
    <2>1. PICK n \in Net : fire(n)
        BY <1>4
    <2>2. CASE Discard(n) \/ EnqueueNoop(n)
        BY <2>2, WorkDiscard, WorkEnqueueNoop
    <2>3. CASE ApplyNoop(n) \/ ApplyResult(n) \/ ApplyControl(n) \/ ApplyGetLog(n)
        BY <2>3, WorkApplyNoop, WorkApplyResult, WorkApplyControl, WorkApplyGetLog
    <2>4. CASE Ask(n) \/ Answer(n)
        BY <2>4, WorkAsk, WorkAnswer
    <2>5. CASE BatchDone(n) \/ LeaveLoop(n)
        BY <2>5, WorkBatchDone, WorkLeaveLoop
    <2>6. CASE DrainDone(n) \/ Finish(n)
        BY <2>6, WorkDrainDone, WorkFinish
    <2>7. QED
        BY <2>1, <2>2, <2>3, <2>4, <2>5, <2>6 DEF fire
<1>5. CASE UNCHANGED vars
    BY <1>5, WorkStutters
<1>6. QED
    BY <1>1, <1>2, <1>3, <1>4, <1>5 DEF Next

(***************************************************************************)
(* The inductive invariant holds.                                          *)
(***************************************************************************)
THEOREM WorkInvariant == Spec => []WorkInv
<1>1. Init => WorkInv
    BY WorkInit
<1>2. WorkInv /\ [Next]_vars => WorkInv'
    BY WorkNext
<1>3. QED
    BY <1>1, <1>2, PTL DEF Spec

(***************************************************************************)
(* Every variable keeps its type, in every tree of nets.                   *)
(***************************************************************************)
THEOREM NestedTypeCorrect == Spec => []NestedTypeOK
<1>1. WorkInv => NestedTypeOK
    BY DEF WorkInv
<1>2. QED
    BY <1>1, WorkInvariant, PTL

(***************************************************************************)
(* When `fire' returns, for whatever reason, no callback of the net is in  *)
(* the pool or running any more, at any depth: the loop drains, and a      *)
(* nested net runs only inside the callback that its caller waits for.     *)
(***************************************************************************)
THEOREM NothingOutlivesItsNet == Spec => []NoWorkOutlivesItsNet
<1>1. WorkInv => NoWorkOutlivesItsNet
    <2> SUFFICES ASSUME WorkInv PROVE NoWorkOutlivesItsNet
        OBVIOUS
    <2>1. ASSUME NEW t \in Transition, task[t] # "none" \/ \E r \in results[Owner[t]] : r[1] = t
          PROVE  t \in scheduled[Owner[t]]
        <3>1. Owner[t] \in Net
            BY NestedAssumption DEF NestedAssumption
        <3>2. QED
            BY <2>1, <3>1 DEF WorkInv, TasksAreScheduled, ResultsAreScheduled
    <2>2. QED
        BY <2>1 DEF WorkInv, NoWorkOutlivesItsNet, IdleHasNothing, RunByWorker
<1>2. QED
    BY <1>1, WorkInvariant, PTL

(***************************************************************************)
(* `fire' returns the truth: Success at the goal, Deadlocked where nothing *)
(* can fire, and Canceled otherwise.                                       *)
(***************************************************************************)
THEOREM FireTellsTheTruth == Spec => []OutcomeHolds
<1>1. WorkInv => OutcomeHolds
    <2> SUFFICES ASSUME WorkInv, NEW n \in Net, pc[n] = "ending", ~late[n]
                 PROVE  /\ state[n] \in {"Success", "Deadlocked", "Canceled"}
                        /\ state[n] = "Success" => Reached(n)
                        /\ state[n] = "Deadlocked" => ~Reached(n) /\ Enabled(n) = {}
        BY DEF OutcomeHolds
    <2>1. Where(n) = "ending"
        BY DEF Where
    <2>2. state[n] \in {"Success", "Deadlocked", "Canceled"}
        BY <2>1 DEF WorkInv, StateFollowsLoop
    <2>3. TellsTruth(n)
        BY DEF WorkInv, StateIsTrue
    <2>4. QED
        BY <2>1, <2>2, <2>3 DEF TellsTruth
<1>2. QED
    BY <1>1, WorkInvariant, PTL

-----------------------------------------------------------------------------
(***************************************************************************)
(* Control reaches nested nets.  A net follows the net around it when the  *)
(* last cancel, pause or resume that waits in its queue sets the state of  *)
(* that net, or when it has nothing to hear and is in the same state, is   *)
(* not in its loop, or threw a call away when it began.                    *)
(***************************************************************************)
Silent(q) == \A i \in 1 .. Len(q) : q[i] \notin Control

LastControl(q, i) == q[i] \in Control /\ \A k \in 1 .. Len(q) : k > i => q[k] \notin Control

Follows(q, inner, outer, missed) ==
    \/ \E i \in 1 .. Len(q) : LastControl(q, i) /\ outer = NextState(q[i])
    \/ Silent(q) /\ (inner = outer \/ (missed /\ inner = "Started")
                                   \/ inner \notin {"Started", "Paused"})

Hearing == {"wait", "batch", "log", "asked", "drain"}

Obeys(t) ==
    Inside(t) /\ task[t] = "running" /\ pc[Callback[t]] \in Hearing
        /\ state[Owner[t]] \in {"Started", "Paused", "Canceled"} =>
            Follows(calls[Callback[t]], state[Callback[t]], state[Owner[t]], deaf[Callback[t]])

(***************************************************************************)
(* Until a net has begun, what the net around it was told is still in its  *)
(* queue, or has been thrown away.                                         *)
(***************************************************************************)
Beginning(t) ==
    \/ task[t] = "queued"
    \/ task[t] = "running" /\ pc[Callback[t]] = "discard" /\ ~deaf[Callback[t]]

Unheard(t) ==
    Inside(t) /\ Callback[t] # Owner[t] /\ Beginning(t) /\ Silent(calls[Callback[t]]) =>
        state[Owner[t]] \notin {"Paused", "Canceled"}

(***************************************************************************)
(* A net schedules its own transitions, and runs none that runs it.        *)
(***************************************************************************)
SchedulesItsOwn == \A n \in Net : \A t \in scheduled[n] : Owner[t] = n

NotInItself == \A t \in Transition : task[t] = "running" => Callback[t] # Owner[t]

HearInv ==
    /\ SchedulesItsOwn
    /\ NotInItself
    /\ \A t \in Transition : Obeys(t) /\ Unheard(t)

(***************************************************************************)
(* The queue grows and shrinks at its ends.                                *)
(***************************************************************************)
Message == Control \cup {"getLog"}

LEMMA AppendFacts ==
    ASSUME NEW q \in Seq(Message), NEW e \in Message
    PROVE  /\ Len(q) \in Nat
           /\ Len(Append(q, e)) = Len(q) + 1
           /\ \A i \in 1 .. Len(q) : Append(q, e)[i] = q[i]
           /\ Append(q, e)[Len(q) + 1] = e
    OBVIOUS

LEMMA TailFacts ==
    ASSUME NEW q \in Seq(Message), q # <<>>
    PROVE  /\ Len(q) \in Nat \ {0}
           /\ Len(Tail(q)) = Len(q) - 1
           /\ \A i \in 1 .. Len(q) - 1 : Tail(q)[i] = q[i + 1]
           /\ Head(q) = q[1] /\ Head(q) \in Message
    OBVIOUS

LEMMA LogAppended ==
    ASSUME NEW q \in Seq(Message), NEW s, NEW o, NEW d
    PROVE  /\ Silent(Append(q, "getLog")) => Silent(q)
           /\ Follows(q, s, o, d) => Follows(Append(q, "getLog"), s, o, d)
<1> DEFINE a == Append(q, "getLog")
<1>1. "getLog" \in Message /\ "getLog" \notin Control
    BY DEF Message, Control
<1>2. /\ Len(q) \in Nat
      /\ Len(a) = Len(q) + 1
      /\ \A i \in 1 .. Len(q) : a[i] = q[i]
      /\ a[Len(q) + 1] = "getLog"
    BY <1>1, AppendFacts
<1> HIDE DEF a
<1>3. Silent(a) <=> Silent(q)
    BY <1>1, <1>2 DEF Silent
<1>4. ASSUME NEW i \in 1 .. Len(q), LastControl(q, i)
      PROVE  i \in 1 .. Len(a) /\ LastControl(a, i) /\ a[i] = q[i]
    BY <1>1, <1>2, <1>4 DEF LastControl
<1>5. QED
    BY <1>3, <1>4 DEF Follows, a

LEMMA ControlAppended ==
    ASSUME NEW q \in Seq(Message), NEW c \in Control, NEW s, NEW d
    PROVE  /\ ~Silent(Append(q, c))
           /\ Follows(Append(q, c), s, NextState(c), d)
<1> DEFINE a == Append(q, c)
<1>1. /\ Len(q) \in Nat
      /\ Len(a) = Len(q) + 1
      /\ a[Len(q) + 1] = c
    BY AppendFacts DEF Message
<1> HIDE DEF a
<1>2. Len(q) + 1 \in 1 .. Len(a) /\ LastControl(a, Len(q) + 1)
    BY <1>1 DEF LastControl
<1>3. QED
    BY <1>1, <1>2 DEF Follows, Silent, a

LEMMA LogTaken ==
    ASSUME NEW q \in Seq(Message), q # <<>>, Head(q) = "getLog", NEW s, NEW o, NEW d
    PROVE  /\ Silent(Tail(q)) => Silent(q)
           /\ Follows(q, s, o, d) => Follows(Tail(q), s, o, d)
<1> DEFINE a == Tail(q)
<1>1. /\ Len(q) \in Nat \ {0}
      /\ Len(a) = Len(q) - 1
      /\ \A i \in 1 .. Len(q) - 1 : a[i] = q[i + 1]
      /\ q[1] = "getLog"
    BY TailFacts
<1>2. "getLog" \notin Control
    BY DEF Control
<1> HIDE DEF a
<1>3. \A i \in 1 .. Len(q) : i = 1 \/ (i - 1 \in 1 .. Len(a) /\ a[i - 1] = q[i])
    BY <1>1
<1>4. \A i \in 1 .. Len(a) : i + 1 \in 1 .. Len(q) /\ a[i] = q[i + 1]
    BY <1>1
<1>5. Silent(a) <=> Silent(q)
    BY <1>1, <1>2, <1>3, <1>4 DEF Silent
<1>6. ASSUME NEW i \in 1 .. Len(q), LastControl(q, i)
      PROVE  i - 1 \in 1 .. Len(a) /\ LastControl(a, i - 1) /\ a[i - 1] = q[i]
    <2>1. i # 1
        BY <1>1, <1>2, <1>6 DEF LastControl
    <2>2. i - 1 \in 1 .. Len(a) /\ a[i - 1] = q[i]
        BY <1>3, <2>1
    <2>3. \A k \in 1 .. Len(a) : k > i - 1 => a[k] \notin Control
        BY <1>4, <1>6 DEF LastControl
    <2>4. QED
        BY <1>6, <2>2, <2>3 DEF LastControl
<1>7. QED
    BY <1>5, <1>6 DEF Follows, a

LEMMA ControlTaken ==
    ASSUME NEW q \in Seq(Message), q # <<>>, Head(q) \in Control,
           NEW s, NEW o, NEW d, Follows(q, s, o, d)
    PROVE  Follows(Tail(q), NextState(Head(q)), o, d)
<1> DEFINE a == Tail(q)
<1>1. /\ Len(q) \in Nat \ {0}
      /\ Len(a) = Len(q) - 1
      /\ \A i \in 1 .. Len(q) - 1 : a[i] = q[i + 1]
      /\ q[1] = Head(q)
    BY TailFacts
<1> HIDE DEF a
<1>2. \A i \in 1 .. Len(q) : i = 1 \/ (i - 1 \in 1 .. Len(a) /\ a[i - 1] = q[i])
    BY <1>1
<1>3. \A i \in 1 .. Len(a) : i + 1 \in 1 .. Len(q) /\ a[i] = q[i + 1]
    BY <1>1
<1>4. ~Silent(q)
    BY <1>1 DEF Silent
<1>5. PICK i \in 1 .. Len(q) : LastControl(q, i) /\ o = NextState(q[i])
    BY <1>4 DEF Follows
<1>6. CASE i = 1
    <2>1. Silent(a)
        BY <1>3, <1>5, <1>6 DEF Silent, LastControl
    <2>2. QED
        BY <1>1, <1>5, <1>6, <2>1 DEF Follows, a
<1>7. CASE i # 1
    <2>1. i - 1 \in 1 .. Len(a) /\ a[i - 1] = q[i]
        BY <1>2, <1>7
    <2>2. \A k \in 1 .. Len(a) : k > i - 1 => a[k] \notin Control
        BY <1>3, <1>5 DEF LastControl
    <2>3. LastControl(a, i - 1)
        BY <1>5, <2>1, <2>2 DEF LastControl
    <2>4. QED
        BY <1>5, <2>1, <2>3 DEF Follows, a
<1>8. QED
    BY <1>6, <1>7

(***************************************************************************)
(* A net that leaves its loop does not contradict the net around it.       *)
(***************************************************************************)
LEMMA SettlingFollows ==
    ASSUME NEW q, NEW s, NEW o, NEW d, Follows(q, s, o, d),
           NEW r \in {"Success", "Deadlocked"}
    PROVE  Follows(q, r, o, d)
BY DEF Follows

-----------------------------------------------------------------------------
(***************************************************************************)
(* What a step does to a transition that it only brings closer to the end  *)
(* of a run, or to a log.                                                  *)
(***************************************************************************)
LogMoves(old, new) ==
    \/ new = old
    \/ new = Append(old, "getLog")
    \/ old # <<>> /\ Head(old) = "getLog" /\ new = Tail(old)

Settles(old, new) == new = old \/ new \in {"Success", "Deadlocked"}

LEMMA HearKept ==
    ASSUME WorkInv, NEW t \in Transition, Obeys(t), Unheard(t),
           task'[t] = task[t],
           Inside(t) =>
                /\ Settles(state[Owner[t]], state'[Owner[t]])
                /\ Settles(state[Callback[t]], state'[Callback[t]])
                /\ deaf'[Callback[t]] = deaf[Callback[t]]
                /\ pc'[Callback[t]] \in Hearing => pc[Callback[t]] \in Hearing
                /\ pc'[Callback[t]] = "discard" => pc[Callback[t]] = "discard"
                /\ LogMoves(calls[Callback[t]], calls'[Callback[t]])
    PROVE  Obeys(t)' /\ Unheard(t)'
<1>1. CASE ~Inside(t)
    BY <1>1 DEF Obeys, Unheard, Inside
<1>2. CASE Inside(t)
    <2>1. PICK q \in Seq(Message) : q = calls[Callback[t]]
        BY <1>2 DEF WorkInv, NestedTypeOK, Message, Inside
    <2>2. PICK new : new = calls'[Callback[t]]
        OBVIOUS
    <2>3. PICK s : s = state[Callback[t]]
        OBVIOUS
    <2>4. PICK o : o = state[Owner[t]]
        OBVIOUS
    <2>5. PICK d : d = deaf[Callback[t]]
        OBVIOUS
    <2>6. LogMoves(q, new)
        BY <1>2, <2>1, <2>2
    <2>7. /\ Silent(new) => Silent(q)
          /\ Follows(q, s, o, d) => Follows(new, s, o, d)
        BY <2>6, LogAppended, LogTaken DEF LogMoves
    <2>8. PICK r : r = state'[Callback[t]]
        OBVIOUS
    <2>9. Follows(new, s, o, d) => Follows(new, r, o, d)
        BY <1>2, <2>3, <2>8, SettlingFollows DEF Settles
    <2>10. Unheard(t)'
        BY <1>2, <2>1, <2>2, <2>4, <2>7 DEF Unheard, Beginning, Inside, Settles
    <2>11. ASSUME task'[t] = "running", pc'[Callback[t]] \in Hearing,
                  state'[Owner[t]] \in {"Started", "Paused", "Canceled"}
           PROVE  Follows(new, r, state'[Owner[t]], deaf'[Callback[t]])
        <3>1. state'[Owner[t]] = o /\ deaf'[Callback[t]] = d
            BY <1>2, <2>4, <2>5, <2>11 DEF Settles
        <3>2. Follows(q, s, o, d)
            BY <1>2, <2>1, <2>3, <2>4, <2>5, <2>11, <3>1 DEF Obeys
        <3>3. QED
            BY <2>7, <2>9, <3>1, <3>2
    <2>12. Obeys(t)'
        BY <2>2, <2>8, <2>11 DEF Obeys
    <2>13. QED
        BY <2>10, <2>12
<1>3. QED
    BY <1>1, <1>2

(***************************************************************************)
(* A step that gives no orders keeps the invariant; a task that leaves the *)
(* pool hears nothing any more.                                            *)
(***************************************************************************)
Quiet(m) ==
    /\ Settles(state[m], state'[m])
    /\ pc'[m] \in Hearing => pc[m] \in Hearing
    /\ pc'[m] = "discard" => pc[m] = "discard"
    /\ LogMoves(calls[m], calls'[m])
    /\ scheduled'[m] \subseteq scheduled[m]

LEMMA HearQuiet ==
    ASSUME WorkInv, HearInv, UNCHANGED deaf,
           \A t \in Transition : task'[t] = task[t] \/ task'[t] = "none",
           \A m \in Net : Quiet(m)
    PROVE  HearInv'
<1>1. SchedulesItsOwn' /\ NotInItself'
    BY DEF HearInv, SchedulesItsOwn, NotInItself, Quiet
<1>2. ASSUME NEW t \in Transition PROVE Obeys(t)' /\ Unheard(t)'
    <2>1. Owner[t] \in Net
        BY NestedAssumption DEF NestedAssumption
    <2>2. Settles(state[Owner[t]], state'[Owner[t]])
        BY <2>1 DEF Quiet
    <2>3. Inside(t) => Quiet(Callback[t])
        BY DEF Inside
    <2>4. CASE task'[t] = task[t]
        BY <2>2, <2>3, <2>4, HearKept DEF HearInv, Quiet
    <2>5. CASE task'[t] = "none"
        BY <2>5 DEF Obeys, Unheard, Beginning
    <2>6. QED
        BY <2>4, <2>5
<1>3. QED
    BY <1>1, <1>2 DEF HearInv

LEMMA HearApplyNoop ==
    ASSUME WorkInv, HearInv, NEW n \in Net, ApplyNoop(n)
    PROVE  HearInv'
<1>1. ASSUME NEW m \in Net PROVE Quiet(m)
    BY DEF WorkInv, NestedTypeOK, ApplyNoop, Running, Then, ghosts, Quiet, Settles, LogMoves, Hearing
<1>2. QED
    BY <1>1, HearQuiet DEF ApplyNoop, ghosts

LEMMA HearApplyResult ==
    ASSUME WorkInv, HearInv, NEW n \in Net, ApplyResult(n)
    PROVE  HearInv'
<1>1. PICK r \in results[n] :
        scheduled' = [scheduled EXCEPT ![n] = scheduled[n] \ {r[1]}] \/ scheduled' = scheduled
    BY DEF ApplyResult
<1>2. ASSUME NEW m \in Net PROVE scheduled'[m] \subseteq scheduled[m]
    BY <1>1 DEF WorkInv, NestedTypeOK
<1>3. ASSUME NEW m \in Net PROVE Quiet(m)
    BY <1>2 DEF WorkInv, NestedTypeOK, ApplyResult, Running, Then, ghosts, Quiet, Settles, LogMoves, Hearing
<1>4. QED
    BY <1>3, HearQuiet DEF ApplyResult, ghosts

LEMMA HearApplyGetLog ==
    ASSUME WorkInv, HearInv, NEW n \in Net, ApplyGetLog(n)
    PROVE  HearInv'
<1>1. ASSUME NEW m \in Net PROVE LogMoves(calls[m], calls'[m])
    BY DEF WorkInv, NestedTypeOK, ApplyGetLog, LogMoves
<1>2. ASSUME NEW m \in Net PROVE Quiet(m)
    BY <1>1 DEF WorkInv, NestedTypeOK, ApplyGetLog, Running, ghosts, Quiet, Settles, Hearing
<1>3. QED
    BY <1>2, HearQuiet DEF ApplyGetLog, ghosts

LEMMA HearAsk ==
    ASSUME WorkInv, HearInv, NEW n \in Net, Ask(n)
    PROVE  HearInv'
<1> DEFINE asked == Head(asking[n])
<1>1. asked \in Net
    BY DEF WorkInv, NestedTypeOK, Ask
<1>2. calls' = [calls EXCEPT ![asked] = Append(calls[asked], "getLog")] \/ calls' = calls
    BY DEF Ask, Called
<1> HIDE DEF asked
<1>3. ASSUME NEW m \in Net PROVE LogMoves(calls[m], calls'[m])
    BY <1>1, <1>2 DEF WorkInv, NestedTypeOK, LogMoves
<1>4. ASSUME NEW m \in Net PROVE Quiet(m)
    BY <1>3 DEF WorkInv, NestedTypeOK, Ask, ghosts, Quiet, Settles, Hearing
<1>5. QED
    BY <1>4, HearQuiet DEF Ask, ghosts

LEMMA HearAnswer ==
    ASSUME WorkInv, HearInv, NEW n \in Net, Answer(n)
    PROVE  HearInv'
<1>1. ASSUME NEW m \in Net PROVE Quiet(m)
    <2>1. \/ pc'[m] = pc[m]
          \/ pc[m] = "log" /\ pc'[m] \in {"batch", "drain"}
          \/ pc[m] = "asked" /\ pc'[m] = "log"
        BY DEF WorkInv, NestedTypeOK, Answer, Asks
    <2>2. QED
        BY <2>1 DEF Answer, queueVars, ghosts, Quiet, Settles, LogMoves, Hearing
<1>2. QED
    BY <1>1, HearQuiet DEF Answer, ghosts

LEMMA HearLeaveLoop ==
    ASSUME WorkInv, HearInv, NEW n \in Net, LeaveLoop(n)
    PROVE  HearInv'
<1>1. ASSUME NEW m \in Net PROVE Quiet(m)
    BY DEF WorkInv, NestedTypeOK, LeaveLoop, Leave, queueVars, ghosts, Quiet, Settles, LogMoves, Hearing
<1>2. QED
    BY <1>1, HearQuiet DEF LeaveLoop, Leave, ghosts

LEMMA HearDrainDone ==
    ASSUME WorkInv, HearInv, NEW n \in Net, DrainDone(n)
    PROVE  HearInv'
<1>1. ASSUME NEW m \in Net PROVE Quiet(m)
    BY DEF WorkInv, NestedTypeOK, DrainDone, queueVars, ghosts, Quiet, Settles, LogMoves, Hearing
<1>2. QED
    BY <1>1, HearQuiet DEF DrainDone, ghosts

LEMMA HearReturn ==
    ASSUME WorkInv, HearInv, NEW t \in Transition, Return(t)
    PROVE  HearInv'
<1>1. ASSUME NEW m \in Net PROVE Quiet(m)
    BY DEF Return, loopVars, ghosts, Quiet, Settles, LogMoves, Hearing
<1>2. \A u \in Transition : task'[u] = task[u] \/ task'[u] = "none"
    BY DEF WorkInv, NestedTypeOK, Return
<1>3. QED
    BY <1>1, <1>2, HearQuiet DEF Return, ghosts

LEMMA HearFinish ==
    ASSUME WorkInv, HearInv, NEW n \in Net, Finish(n)
    PROVE  HearInv'
<1>1. ASSUME NEW m \in Net PROVE Quiet(m)
    BY DEF WorkInv, NestedTypeOK, Finish, Quiet, Settles, LogMoves, Hearing
<1>2. \A u \in Transition : task'[u] = task[u] \/ task'[u] = "none"
    BY DEF Finish
<1>3. QED
    BY <1>1, <1>2, HearQuiet DEF Finish

LEMMA HearCall ==
    ASSUME WorkInv, HearInv, NEW call \in Control \cup {"getLog"}, Call(call)
    PROVE  HearInv'
<1>1. SchedulesItsOwn' /\ NotInItself'
    BY DEF HearInv, SchedulesItsOwn, NotInItself, Call, loopVars
<1>2. ASSUME NEW t \in Transition PROVE Obeys(t)' /\ Unheard(t)'
    <2>1. Inside(t) => calls'[Callback[t]] = calls[Callback[t]]
        BY NestedAssumption DEF NestedAssumption, WorkInv, NestedTypeOK, Call, Called, Inside
    <2>2. QED
        BY <2>1, HearKept DEF HearInv, Call, loopVars, Settles, LogMoves
<1>3. QED
    BY <1>1, <1>2 DEF HearInv

(***************************************************************************)
(* A net that is not running, or has just begun, has no callbacks.         *)
(***************************************************************************)
LEMMA IdleRunsNothing ==
    ASSUME WorkInv, NEW t \in Transition, pc[Owner[t]] \in {"idle", "discard", "ending"}
    PROVE  task[t] = "none"
BY NestedAssumption DEF NestedAssumption, WorkInv, TasksAreScheduled, IdleHasNothing

LEMMA HearFireRoot ==
    ASSUME WorkInv, HearInv, FireRoot
    PROVE  HearInv'
<1>1. SchedulesItsOwn' /\ NotInItself'
    BY NestedAssumption DEF NestedAssumption, WorkInv, NestedTypeOK, HearInv, SchedulesItsOwn, NotInItself, FireRoot, Begin
<1>2. ASSUME NEW t \in Transition PROVE Obeys(t)' /\ Unheard(t)'
    <2>1. CASE Owner[t] = Root
        <3>1. task'[t] = "none"
            BY <2>1, IdleRunsNothing DEF FireRoot
        <3>2. QED
            BY <3>1 DEF Obeys, Unheard, Beginning
    <2>2. CASE Owner[t] # Root
        <3>1. Inside(t) => Callback[t] \in Net /\ Callback[t] # Root
            BY NestedAssumption DEF NestedAssumption, Inside
        <3>2. Owner[t] \in Net
            BY NestedAssumption DEF NestedAssumption
        <3>3. \A m \in Net \ {Root} : state'[m] = state[m] /\ pc'[m] = pc[m] /\ deaf'[m] = deaf[m]
            BY DEF WorkInv, NestedTypeOK, FireRoot, Begin
        <3>4. QED
            BY <2>2, <3>1, <3>2, <3>3, HearKept DEF HearInv, FireRoot, queueVars, Settles, LogMoves
    <2>3. QED
        BY <2>1, <2>2
<1>3. QED
    BY <1>1, <1>2 DEF HearInv

(***************************************************************************)
(* Two transitions that run the same net are not in the pool together.     *)
(***************************************************************************)
LEMMA OneInPool ==
    ASSUME WorkInv, NetsRunAlone, NEW t \in Transition, NEW u \in Transition,
           Inside(t), Callback[t] = Callback[u], task[t] # "none", task[u] # "none"
    PROVE  t = u
BY DEF WorkInv, TasksAreScheduled, NetsRunAlone

LEMMA HearBegin ==
    ASSUME WorkInv, HearInv, NetsRunAlone, NEW u \in Transition, TakeTask(u),
           task' = [task EXCEPT ![u] = "running"],
           Callback[u] \in Net, pc[Callback[u]] = "idle", Begin(Callback[u])
    PROVE  HearInv'
<1> DEFINE x == Callback[u]
<1>1. /\ x \in Net
      /\ pc'[x] = "discard"
      /\ deaf'[x] = FALSE
      /\ scheduled'[x] = {}
      /\ \A m \in Net \ {x} :
            state'[m] = state[m] /\ pc'[m] = pc[m] /\ deaf'[m] = deaf[m] /\ scheduled'[m] = scheduled[m]
    BY DEF WorkInv, NestedTypeOK, Begin
<1>2. Owner[u] \in Net /\ Owner[u] # x
    BY NestedAssumption, IdleRunsNothing DEF NestedAssumption, TakeTask
<1>3. task[u] = "queued" /\ task'[u] = "running" /\ \A t \in Transition \ {u} : task'[t] = task[t]
    BY DEF WorkInv, NestedTypeOK, TakeTask
<1>4. calls' = calls
    BY DEF TakeTask
<1>5. SchedulesItsOwn' /\ NotInItself'
    <2>1. SchedulesItsOwn'
        BY <1>1 DEF HearInv, SchedulesItsOwn
    <2>2. NotInItself'
        BY <1>2, <1>3 DEF HearInv, NotInItself
    <2>3. QED
        BY <2>1, <2>2
<1>6. ASSUME NEW t \in Transition PROVE Obeys(t)' /\ Unheard(t)'
    <2>1. CASE t = u
        <3>1. Obeys(t)'
            BY <1>1, <2>1 DEF Obeys, Hearing
        <3>2. state'[Owner[u]] = state[Owner[u]]
            BY <1>1, <1>2
        <3>3. Unheard(u) /\ Beginning(u)
            BY <1>3 DEF HearInv, Beginning
        <3>4. Unheard(t)'
            BY <1>4, <2>1, <3>2, <3>3 DEF Unheard, Inside
        <3>5. QED
            BY <3>1, <3>4
    <2>2. CASE t # u /\ (Owner[t] = x \/ Callback[t] = x)
        <3>1. task[t] = "none"
            BY <1>1, <1>3, <2>2, IdleRunsNothing, OneInPool DEF Inside
        <3>2. task'[t] = "none"
            BY <1>3, <2>2, <3>1
        <3>3. QED
            BY <3>2 DEF Obeys, Unheard, Beginning
    <2>3. CASE t # u /\ Owner[t] # x /\ Callback[t] # x
        <3>1. Owner[t] \in Net /\ (Inside(t) => Callback[t] \in Net)
            BY NestedAssumption DEF NestedAssumption, Inside
        <3>2. QED
            BY <1>1, <1>3, <1>4, <2>3, <3>1, HearKept DEF HearInv, Settles, LogMoves
    <2>4. QED
        BY <2>1, <2>2, <2>3
<1>7. QED
    BY <1>5, <1>6 DEF HearInv

LEMMA HearTakeTask ==
    ASSUME WorkInv, HearInv, NetsRunAlone, NEW u \in Transition, TakeTask(u)
    PROVE  HearInv'
<1>1. CASE Inside(u) /\ pc[Callback[u]] # "idle"
    <2>1. \A t \in Transition : task'[t] = task[t] \/ task'[t] = "none"
        BY <1>1 DEF WorkInv, NestedTypeOK, TakeTask
    <2>2. ASSUME NEW m \in Net PROVE Quiet(m)
        BY <1>1 DEF TakeTask, Quiet, Settles, LogMoves, Hearing
    <2>3. QED
        BY <1>1, <2>1, <2>2, HearQuiet DEF TakeTask
<1>2. CASE Inside(u) /\ pc[Callback[u]] = "idle"
    BY <1>2, HearBegin DEF TakeTask, Inside
<1>3. CASE ~Inside(u)
    <2>1. /\ task' = [task EXCEPT ![u] = "running"]
          /\ UNCHANGED <<pc, state, scheduled, deaf, calls>>
        BY <1>3 DEF TakeTask
    <2>2. SchedulesItsOwn' /\ NotInItself'
        <3>1. Callback[u] # Owner[u]
            BY <1>3, NestedAssumption DEF NestedAssumption, Inside
        <3>2. QED
            BY <2>1, <3>1 DEF WorkInv, NestedTypeOK, HearInv, SchedulesItsOwn, NotInItself
    <2>3. ASSUME NEW t \in Transition PROVE Obeys(t)' /\ Unheard(t)'
        <3>1. CASE t = u
            BY <1>3, <3>1 DEF Obeys, Unheard, Inside
        <3>2. CASE t # u
            BY <2>1, <3>2, HearKept DEF WorkInv, NestedTypeOK, HearInv, Settles, LogMoves
        <3>3. QED
            BY <3>1, <3>2
    <2>4. QED
        BY <2>2, <2>3 DEF HearInv
<1>4. QED
    BY <1>1, <1>2, <1>3

(***************************************************************************)
(* While a nested net runs, no other transition that runs it waits.        *)
(***************************************************************************)
LEMMA NoneQueued ==
    ASSUME WorkInv, NetsRunAlone, NEW t \in Transition, Inside(t), pc[Callback[t]] # "idle"
    PROVE  task[t] # "queued"
<1>1. Callback[t] \in Net \ {Root}
    BY NestedAssumption DEF NestedAssumption, Inside
<1>2. PICK v \in Transition : Callback[v] = Callback[t] /\ task[v] = "running"
    BY <1>1 DEF WorkInv, RunByWorker
<1>3. task[t] = "queued" => t = v
    BY <1>2, OneInPool
<1>4. QED
    BY <1>2, <1>3

LEMMA HearDiscard ==
    ASSUME WorkInv, HearInv, NetsRunAlone, NEW n \in Net, Discard(n)
    PROVE  HearInv'
<1>1. SchedulesItsOwn' /\ NotInItself'
    BY DEF HearInv, SchedulesItsOwn, NotInItself, Discard, loopVars
<1>2. /\ calls'[n] = Tail(calls[n])
      /\ \A m \in Net \ {n} : calls'[m] = calls[m] /\ deaf'[m] = deaf[m]
      /\ ~deaf'[n] => Head(calls[n]) = "getLog" /\ ~deaf[n]
    BY DEF WorkInv, NestedTypeOK, Discard
<1>3. ASSUME NEW t \in Transition PROVE Obeys(t)' /\ Unheard(t)'
    <2>1. CASE Inside(t) /\ Callback[t] = n
        <3>1. Obeys(t)'
            BY <2>1 DEF Obeys, Discard, loopVars, Hearing
        <3>2. task[t] # "queued"
            BY <2>1, NoneQueued DEF Discard
        <3>3. CASE ~deaf'[n]
            <4>1. PICK q \in Seq(Message) : q = calls[n] /\ q # <<>> /\ Head(q) = "getLog" /\ calls'[n] = Tail(q)
                BY <1>2, <3>3 DEF WorkInv, NestedTypeOK, Message, Discard
            <4>2. Silent(Tail(q)) => Silent(q)
                BY <4>1, LogTaken
            <4>3. Silent(calls'[n]) => Silent(calls[n])
                BY <4>1, <4>2
            <4>4. Beginning(t)' => Beginning(t)
                BY <1>2, <2>1, <3>2, <3>3 DEF Beginning, Discard, loopVars
            <4>5. Unheard(t)
                BY DEF HearInv
            <4>6. QED
                BY <2>1, <3>1, <4>3, <4>4, <4>5 DEF Unheard, Inside, Discard, loopVars
        <3>4. CASE deaf'[n]
            BY <2>1, <3>1, <3>2, <3>4 DEF Unheard, Beginning, Discard
        <3>5. QED
            BY <3>3, <3>4
    <2>2. CASE ~(Inside(t) /\ Callback[t] = n)
        <3>1. Inside(t) => calls'[Callback[t]] = calls[Callback[t]] /\ deaf'[Callback[t]] = deaf[Callback[t]]
            BY <1>2, <2>2 DEF Inside
        <3>2. QED
            BY <3>1, HearKept DEF HearInv, Discard, loopVars, Settles, LogMoves
    <2>3. QED
        BY <2>1, <2>2
<1>4. QED
    BY <1>1, <1>3 DEF HearInv

LEMMA HearEnqueueNoop ==
    ASSUME WorkInv, HearInv, NEW n \in Net, EnqueueNoop(n)
    PROVE  HearInv'
<1>1. SchedulesItsOwn' /\ NotInItself'
    BY DEF HearInv, SchedulesItsOwn, NotInItself, EnqueueNoop
<1>2. ASSUME NEW t \in Transition PROVE Obeys(t)' /\ Unheard(t)'
    <2>1. CASE Inside(t) /\ Callback[t] = n
        <3>1. /\ state[n] = "Started" /\ pc[n] = "discard" /\ calls[n] = <<>>
              /\ UNCHANGED <<state, calls, task, deaf>>
            BY DEF WorkInv, StateFollowsLoop, Where, EnqueueNoop, QueueEmpty, ghosts
        <3>2. Silent(calls[n])
            BY <3>1 DEF Silent
        <3>3. Unheard(t) /\ (task[t] = "running" => Callback[t] # Owner[t])
            BY DEF HearInv, NotInItself
        <3>4. Unheard(t)'
            BY <2>1, <3>1, <3>3 DEF Unheard, Beginning, Inside, EnqueueNoop, WorkInv, NestedTypeOK
        <3>5. ASSUME task[t] = "running", state[Owner[t]] \in {"Started", "Paused", "Canceled"}, ~deaf[n]
              PROVE  state[Owner[t]] = "Started"
            BY <2>1, <3>1, <3>2, <3>3, <3>5 DEF Unheard, Beginning
        <3>6. ASSUME task[t] = "running", state[Owner[t]] \in {"Started", "Paused", "Canceled"}
              PROVE  Follows(calls[n], state[n], state[Owner[t]], deaf[n])
            BY <3>1, <3>2, <3>5, <3>6 DEF Follows
        <3>7. Obeys(t)'
            BY <2>1, <3>1, <3>6 DEF Obeys
        <3>8. QED
            BY <3>4, <3>7
    <2>2. CASE ~(Inside(t) /\ Callback[t] = n)
        <3>1. Inside(t) => pc'[Callback[t]] = pc[Callback[t]]
            BY <2>2 DEF Inside, EnqueueNoop, WorkInv, NestedTypeOK
        <3>2. QED
            BY <3>1, HearKept DEF HearInv, EnqueueNoop, ghosts, Settles, LogMoves
    <2>3. QED
        BY <2>1, <2>2
<1>3. QED
    BY <1>1, <1>2 DEF HearInv

LEMMA HearApplyControl ==
    ASSUME WorkInv, HearInv, NetsRunAlone, NEW n \in Net, ApplyControl(n)
    PROVE  HearInv'
<1>1. SchedulesItsOwn' /\ NotInItself'
    BY DEF HearInv, SchedulesItsOwn, NotInItself, ApplyControl
<1>2. PICK h \in Control : h = Head(calls[n])
    BY DEF ApplyControl
<1>3. /\ state'[n] = NextState(h)
      /\ \A m \in Net \ {n} : state'[m] = state[m] /\ pc'[m] = pc[m]
      /\ pc[n] \in Hearing /\ pc'[n] \in Hearing
      /\ calls' = PassedOn(n, h)
      /\ UNCHANGED <<task, deaf, scheduled>>
    BY <1>2 DEF WorkInv, NestedTypeOK, ApplyControl, Running, Then, Hearing
<1>4. ASSUME NEW t \in Transition PROVE Obeys(t)' /\ Unheard(t)'
    <2>1. CASE ~Inside(t) \/ task[t] = "none"
        BY <1>3, <2>1 DEF Obeys, Unheard, Beginning, Inside
    <2>2. CASE Inside(t) /\ task[t] # "none" /\ Callback[t] = n
        <3>1. task[t] = "running"
            BY <1>3, <2>2, NoneQueued DEF Hearing, WorkInv, NestedTypeOK
        <3>2. Callback[t] # Owner[t] /\ Owner[t] \in Net
            BY <3>1, NestedAssumption DEF NestedAssumption, HearInv, NotInItself
        <3>3. state'[Owner[t]] = state[Owner[t]]
            BY <1>3, <2>2, <3>2
        <3>4. Unheard(t)'
            BY <1>3, <2>2, <3>1 DEF Unheard, Beginning, Hearing
        <3>5. PICK q \in Seq(Message) : q = calls[n] /\ q # <<>> /\ Head(q) = h /\ calls'[n] = Tail(q)
            BY <1>2, <1>3 DEF WorkInv, NestedTypeOK, Message, ApplyControl, PassedOn
        <3>6. ASSUME state[Owner[t]] \in {"Started", "Paused", "Canceled"}
              PROVE  Follows(q, state[n], state[Owner[t]], deaf[n])
            BY <1>3, <2>2, <3>1, <3>5, <3>6 DEF HearInv, Obeys
        <3>7. PICK s, o, d : s = state[n] /\ o = state[Owner[t]] /\ d = deaf[n]
            OBVIOUS
        <3>8. o \in {"Started", "Paused", "Canceled"} => Follows(Tail(q), NextState(h), o, d)
            BY <3>5, <3>6, <3>7, ControlTaken
        <3>9. state'[n] = NextState(h) /\ calls'[n] = Tail(q) /\ deaf'[n] = d /\ state'[Owner[t]] = o
            BY <1>3, <3>3, <3>5, <3>7
        <3>10. Obeys(t)'
            BY <2>2, <3>8, <3>9 DEF Obeys
        <3>11. QED
            BY <3>4, <3>10
    <2>3. CASE Inside(t) /\ task[t] # "none" /\ Callback[t] # n /\ Owner[t] = n
        <3>1. t \in scheduled[n] /\ Callback[t] \in Net
            BY <2>3 DEF WorkInv, TasksAreScheduled, Inside
        <3>2. PICK q \in Seq(Message) : q = calls[Callback[t]]
            BY <3>1 DEF WorkInv, NestedTypeOK, Message
        <3>3. calls'[Callback[t]] = Append(q, h)
            BY <1>3, <2>3, <3>1, <3>2 DEF PassedOn
        <3>4. PICK s, d : s = state'[Callback[t]] /\ d = deaf'[Callback[t]]
            OBVIOUS
        <3>5. ~Silent(Append(q, h)) /\ Follows(Append(q, h), s, NextState(h), d)
            BY ControlAppended
        <3>6. Unheard(t)'
            BY <3>3, <3>5 DEF Unheard
        <3>7. Obeys(t)'
            BY <1>3, <2>3, <3>3, <3>4, <3>5 DEF Obeys
        <3>8. QED
            BY <3>6, <3>7
    <2>4. CASE Inside(t) /\ Callback[t] # n /\ Owner[t] # n
        <3>1. ~\E v \in scheduled[n] : Callback[v] = Callback[t]
            BY <2>4, NestedAssumption DEF NestedAssumption, HearInv, SchedulesItsOwn, Inside, WorkInv, NestedTypeOK
        <3>2. calls'[Callback[t]] = calls[Callback[t]]
            BY <1>3, <2>4, <3>1 DEF PassedOn, Inside
        <3>3. Owner[t] \in Net
            BY NestedAssumption DEF NestedAssumption
        <3>4. QED
            BY <1>3, <2>4, <3>2, <3>3, HearKept DEF HearInv, Settles, LogMoves, Inside
    <2>5. QED
        BY <2>1, <2>2, <2>3, <2>4
<1>5. QED
    BY <1>1, <1>4 DEF HearInv

LEMMA HearBatchDone ==
    ASSUME WorkInv, HearInv, NEW n \in Net, BatchDone(n)
    PROVE  HearInv'
<1>1. PICK fired :
        /\ fired = IF state[n] = "Started" /\ ~Reached(n) THEN Enabled(n) \ scheduled[n] ELSE {}
        /\ scheduled' = [scheduled EXCEPT ![n] = scheduled[n] \cup fired]
        /\ task' = [t \in Transition |-> IF t \in fired THEN "queued" ELSE task[t]]
        /\ state' = [state EXCEPT ![n] =
                IF Reached(n) THEN "Success"
                ELSE IF state[n] = "Started" /\ scheduled[n] \cup fired = {} THEN "Deadlocked"
                ELSE state[n]]
    BY DEF BatchDone
<1>2. /\ fired \subseteq Transition
      /\ \A t \in fired : Owner[t] = n
      /\ fired # {} => state'[n] = "Started"
      /\ \A m \in Net : Settles(state[m], state'[m])
    <2>1. fired \subseteq Enabled(n)
        BY <1>1
    <2>2. fired # {} => state[n] = "Started" /\ ~Reached(n)
        BY <1>1
    <2>3. fired # {} => state'[n] = "Started"
        BY <1>1, <2>2 DEF WorkInv, NestedTypeOK
    <2>4. ASSUME NEW m \in Net PROVE Settles(state[m], state'[m])
        BY <1>1 DEF WorkInv, NestedTypeOK, Settles
    <2>5. QED
        BY <2>1, <2>3, <2>4 DEF Enabled
<1>3. SchedulesItsOwn'
    BY <1>1, <1>2 DEF HearInv, SchedulesItsOwn, WorkInv, NestedTypeOK
<1>4. NotInItself'
    BY <1>1 DEF HearInv, NotInItself
<1>5. ASSUME NEW t \in Transition PROVE Obeys(t)' /\ Unheard(t)'
    <2>1. CASE t \in fired
        <3>1. task'[t] = "queued" /\ state'[Owner[t]] = "Started"
            BY <1>1, <1>2, <2>1
        <3>2. QED
            BY <3>1 DEF Obeys, Unheard
    <2>2. CASE t \notin fired
        <3>1. task'[t] = task[t]
            BY <1>1, <2>2
        <3>2. Owner[t] \in Net /\ (Inside(t) => Callback[t] \in Net)
            BY NestedAssumption DEF NestedAssumption, Inside
        <3>3. \A m \in Net : (pc'[m] \in Hearing => pc[m] \in Hearing) /\ (pc'[m] = "discard" => pc[m] = "discard")
            BY DEF BatchDone, WorkInv, NestedTypeOK, Hearing
        <3>4. QED
            BY <1>2, <3>1, <3>2, <3>3, HearKept DEF HearInv, BatchDone, queueVars, ghosts, LogMoves
    <2>3. QED
        BY <2>1, <2>2
<1>6. QED
    BY <1>3, <1>4, <1>5 DEF HearInv

-----------------------------------------------------------------------------
LEMMA HearInit ==
    ASSUME Init
    PROVE  HearInv
<1>1. /\ \A n \in Net : scheduled[n] = {}
      /\ \A t \in Transition : task[t] = "none"
    BY DEF Init
<1>2. QED
    BY <1>1 DEF HearInv, SchedulesItsOwn, NotInItself, Obeys, Unheard, Beginning

LEMMA HearStep ==
    ASSUME WorkInv, HearInv, NetsRunAlone, [Next]_vars
    PROVE  HearInv'
<1>1. CASE UNCHANGED vars
    <2>1. ASSUME NEW t \in Transition PROVE Obeys(t)' /\ Unheard(t)'
        BY <1>1 DEF HearInv, vars, loopVars, queueVars, ghosts, Obeys, Unheard, Beginning
    <2>2. QED
        BY <1>1, <2>1 DEF HearInv, SchedulesItsOwn, NotInItself, vars, loopVars, queueVars, ghosts
<1>2. CASE \E call \in Control \cup {"getLog"} : Call(call)
    BY <1>2, HearCall
<1>3. CASE FireRoot
    BY <1>3, HearFireRoot
<1>4. CASE \E t \in Transition : TakeTask(t)
    BY <1>4, HearTakeTask
<1>5. CASE \E t \in Transition : Return(t)
    BY <1>5, HearReturn
<1>6. ASSUME NEW n \in Net, fire(n) PROVE HearInv'
    BY <1>6, HearDiscard, HearEnqueueNoop, HearApplyNoop, HearApplyResult, HearApplyControl,
       HearApplyGetLog, HearAsk, HearAnswer, HearBatchDone, HearLeaveLoop, HearDrainDone, HearFinish DEF fire
<1>7. QED
    BY <1>1, <1>2, <1>3, <1>4, <1>5, <1>6 DEF Next

LEMMA FollowerAgrees ==
    ASSUME WorkInv, HearInv
    PROVE  ControlReachesNested
<1> SUFFICES ASSUME NEW t \in Transition, Inside(t), task[t] = "running",
                    Loops(Callback[t]), calls[Callback[t]] = <<>>
             PROVE  /\ state[Owner[t]] \in {"Started", "Paused", "Canceled"} /\ ~deaf[Callback[t]] =>
                            state[Callback[t]] = state[Owner[t]]
                    /\ state[Owner[t]] = "Started" => state[Callback[t]] = "Started"
    BY DEF ControlReachesNested
<1>1. ~\E i \in 1 .. Len(calls[Callback[t]]) : TRUE
    OBVIOUS
<1>2. state[Owner[t]] \in {"Started", "Paused", "Canceled"} =>
        Follows(calls[Callback[t]], state[Callback[t]], state[Owner[t]], deaf[Callback[t]])
    BY DEF HearInv, Obeys, Loops, Hearing
<1>3. QED
    BY <1>1, <1>2 DEF Follows, Loops

(***************************************************************************)
(* As long as no net is run by two transitions at once, cancel, pause and  *)
(* resume reach every nested net that runs, however deep and wherever it   *)
(* is in its loop.  (cancel, pause and resume of symmetri.cpp, which       *)
(* enqueue in every callback of scheduled_callbacks.)                      *)
(***************************************************************************)
THEOREM ControlReaches == Spec /\ []NetsRunAlone => []ControlReachesNested
<1>1. Init => HearInv
    BY HearInit
<1>2. WorkInv /\ HearInv /\ NetsRunAlone /\ [Next]_vars => HearInv'
    BY HearStep
<1>3. WorkInv /\ HearInv => ControlReachesNested
    BY FollowerAgrees
<1>4. Spec => []WorkInv
    BY WorkInvariant
<1>5. QED
    BY <1>1, <1>2, <1>3, <1>4, PTL DEF Spec

-----------------------------------------------------------------------------
(***************************************************************************)
(* The token of a set of places with one turn is in one place of the set,  *)
(* or with one transition that has taken it.                               *)
(***************************************************************************)
Takes(t, S) == In[t] \cap S # {}

TurnsOf(S, n) ==
    /\ \A x, y \in tokens[n] : x[1] \in S /\ y[1] \in S => x = y
    /\ \A t, u \in scheduled[n] : Takes(t, S) /\ Takes(u, S) => t = u
    /\ \A t \in scheduled[n] : Takes(t, S) => \A x \in tokens[n] : x[1] \notin S

TurnInv ==
    /\ SchedulesItsOwn
    /\ \A n \in Net : \A S \in SUBSET Place : OneTurn(S, n) => TurnsOf(S, n)

LEMMA TurnQuiet ==
    ASSUME TurnInv, UNCHANGED <<tokens, scheduled>>
    PROVE  TurnInv'
BY DEF TurnInv, SchedulesItsOwn, TurnsOf

LEMMA TurnBegin ==
    ASSUME WorkInv, TurnInv, NEW m \in Net, Begin(m)
    PROVE  TurnInv'
<1>1. SchedulesItsOwn'
    BY DEF TurnInv, SchedulesItsOwn, Begin, WorkInv, NestedTypeOK
<1>2. ASSUME NEW n \in Net, NEW S \in SUBSET Place, OneTurn(S, n)
      PROVE  TurnsOf(S, n)'
    <2>1. CASE n = m
        <3>1. scheduled'[n] = {} /\ tokens'[n] = Initial[n] \X {"Success"}
            BY <2>1 DEF Begin, WorkInv, NestedTypeOK
        <3>2. \A x, y \in tokens'[n] : x[1] \in S /\ y[1] \in S => x = y
            BY <1>2, <3>1 DEF OneTurn, AtMostOne
        <3>3. QED
            BY <3>1, <3>2 DEF TurnsOf
    <2>2. CASE n # m
        <3>1. tokens'[n] = tokens[n] /\ scheduled'[n] = scheduled[n]
            BY <2>2 DEF Begin, WorkInv, NestedTypeOK
        <3>2. TurnsOf(S, n)
            BY <1>2 DEF TurnInv
        <3>3. QED
            BY <3>1, <3>2 DEF TurnsOf
    <2>3. QED
        BY <2>1, <2>2
<1>3. QED
    BY <1>1, <1>2 DEF TurnInv, OneTurn

LEMMA TurnApplyResult ==
    ASSUME WorkInv, TurnInv, NEW m \in Net, ApplyResult(m)
    PROVE  TurnInv'
<1>1. PICK r \in results[m] :
        IF r[1] \in scheduled[m]
            THEN /\ tokens' = [tokens EXCEPT ![m] = @ \cup (Out[r[1]] \X {r[2]})]
                 /\ scheduled' = [scheduled EXCEPT ![m] = @ \ {r[1]}]
            ELSE UNCHANGED <<tokens, scheduled>>
    BY DEF ApplyResult
<1>2. PICK t, x : t \in Transition /\ t = r[1] /\ x = r[2]
    BY DEF WorkInv, NestedTypeOK
<1>3. CASE t \notin scheduled[m]
    BY <1>1, <1>2, <1>3, TurnQuiet
<1>4. CASE t \in scheduled[m]
    <2>1. /\ tokens' = [tokens EXCEPT ![m] = tokens[m] \cup (Out[t] \X {x})]
          /\ scheduled' = [scheduled EXCEPT ![m] = scheduled[m] \ {t}]
        BY <1>1, <1>2, <1>4
    <2>2. Owner[t] = m
        BY <1>4 DEF TurnInv, SchedulesItsOwn
    <2>3. SchedulesItsOwn'
        BY <2>1 DEF TurnInv, SchedulesItsOwn, WorkInv, NestedTypeOK
    <2>4. ASSUME NEW n \in Net, NEW S \in SUBSET Place, OneTurn(S, n)
          PROVE  TurnsOf(S, n)'
        <3>1. TurnsOf(S, n)
            BY <2>4 DEF TurnInv
        <3>2. CASE n = m
            <4>1. tokens'[n] = tokens[n] \cup (Out[t] \X {x}) /\ scheduled'[n] = scheduled[n] \ {t}
                BY <2>1, <3>2 DEF WorkInv, NestedTypeOK
            <4>2. AtMostOne(Out[t] \cap S) /\ (Out[t] \cap S # {} => Takes(t, S))
                BY <1>2, <2>2, <2>4, <3>2 DEF OneTurn, Takes
            <4>3. \A u \in scheduled'[n] : u \in scheduled[n] /\ u # t
                BY <4>1
            <4>4. CASE Out[t] \cap S = {}
                <5>1. \A y \in tokens'[n] : y[1] \in S => y \in tokens[n]
                    BY <4>1, <4>4
                <5>2. QED
                    BY <3>1, <4>3, <5>1 DEF TurnsOf
            <4>5. CASE Out[t] \cap S # {}
                <5>1. Takes(t, S)
                    BY <4>2, <4>5
                <5>2. \A y \in tokens[n] : y[1] \notin S
                    BY <1>4, <3>1, <3>2, <5>1 DEF TurnsOf
                <5>3. \A u \in scheduled'[n] : ~Takes(u, S)
                    BY <1>4, <3>1, <3>2, <4>3, <5>1 DEF TurnsOf
                <5>4. \A y, z \in tokens'[n] : y[1] \in S /\ z[1] \in S => y = z
                    BY <4>1, <4>2, <5>2 DEF AtMostOne
                <5>5. QED
                    BY <5>3, <5>4 DEF TurnsOf, Takes
            <4>6. QED
                BY <4>4, <4>5
        <3>3. CASE n # m
            BY <2>1, <3>1, <3>3 DEF WorkInv, NestedTypeOK, TurnsOf
        <3>4. QED
            BY <3>2, <3>3
    <2>5. QED
        BY <2>3, <2>4 DEF TurnInv, OneTurn
<1>5. QED
    BY <1>3, <1>4

LEMMA TurnBatchDone ==
    ASSUME WorkInv, TurnInv, NEW m \in Net, BatchDone(m)
    PROVE  TurnInv'
<1>1. PICK fired :
        /\ fired = IF state[m] = "Started" /\ ~Reached(m) THEN Enabled(m) \ scheduled[m] ELSE {}
        /\ tokens' = [tokens EXCEPT ![m] = tokens[m] \ ((UNION {In[t] : t \in fired}) \X {"Success"})]
        /\ scheduled' = [scheduled EXCEPT ![m] = scheduled[m] \cup fired]
    BY DEF BatchDone
<1>2. \A t \in fired : t \in Transition /\ Owner[t] = m /\ In[t] \X {"Success"} \subseteq tokens[m]
    BY <1>1 DEF Enabled
<1>3. SchedulesItsOwn'
    BY <1>1, <1>2 DEF TurnInv, SchedulesItsOwn, WorkInv, NestedTypeOK
<1>4. ASSUME NEW n \in Net, NEW S \in SUBSET Place, OneTurn(S, n)
      PROVE  TurnsOf(S, n)'
    <2>1. TurnsOf(S, n)
        BY <1>4 DEF TurnInv
    <2>2. CASE n # m
        BY <1>1, <2>1, <2>2 DEF WorkInv, NestedTypeOK, TurnsOf
    <2>3. CASE n = m
        <3>1. /\ tokens'[n] = tokens[n] \ ((UNION {In[t] : t \in fired}) \X {"Success"})
              /\ scheduled'[n] = scheduled[n] \cup fired
            BY <1>1, <2>3 DEF WorkInv, NestedTypeOK
        <3>2. ASSUME NEW t \in fired, Takes(t, S)
              PROVE  \E p \in S : p \in In[t] /\ <<p, "Success">> \in tokens[n]
            BY <1>2, <2>3, <3>2 DEF Takes
        <3>3. ASSUME NEW t \in fired, Takes(t, S), NEW u \in scheduled'[n], Takes(u, S)
              PROVE  t = u
            <4>1. PICK p \in S : p \in In[t] /\ <<p, "Success">> \in tokens[n]
                BY <3>2, <3>3
            <4>2. u \notin scheduled[n]
                BY <2>1, <3>3, <4>1 DEF TurnsOf
            <4>3. PICK q \in S : q \in In[u] /\ <<q, "Success">> \in tokens[n]
                BY <3>1, <3>2, <3>3, <4>2
            <4>4. p = q
                BY <2>1, <4>1, <4>3 DEF TurnsOf
            <4>5. t \in Transition /\ u \in Transition /\ Owner[t] = Owner[u]
                BY <1>2, <3>1, <3>3, <4>2
            <4>6. QED
                BY <4>1, <4>3, <4>4, <4>5, NestedAssumption DEF NestedAssumption
        <3>4. ASSUME NEW t \in fired, Takes(t, S), NEW x \in tokens'[n]
              PROVE  x[1] \notin S
            <4>1. PICK p \in S : p \in In[t] /\ <<p, "Success">> \in tokens[n]
                BY <3>2, <3>4
            <4>2. <<p, "Success">> \notin tokens'[n]
                BY <3>1, <4>1
            <4>3. QED
                BY <2>1, <3>1, <4>1, <4>2 DEF TurnsOf
        <3>5. \A t, u \in scheduled'[n] : Takes(t, S) /\ Takes(u, S) => t = u
            BY <2>1, <3>1, <3>3 DEF TurnsOf
        <3>6. \A t \in scheduled'[n] : Takes(t, S) => \A x \in tokens'[n] : x[1] \notin S
            BY <2>1, <3>1, <3>4 DEF TurnsOf
        <3>7. \A x, y \in tokens'[n] : x[1] \in S /\ y[1] \in S => x = y
            BY <2>1, <3>1 DEF TurnsOf
        <3>8. QED
            BY <3>5, <3>6, <3>7 DEF TurnsOf, Takes
    <2>4. QED
        BY <2>2, <2>3
<1>5. QED
    BY <1>3, <1>4 DEF TurnInv, OneTurn

LEMMA TurnInit ==
    ASSUME Init
    PROVE  TurnInv
BY NestedAssumption, SMTT(60), ZenonT(60) DEF Init, TurnInv, SchedulesItsOwn, TurnsOf, OneTurn, AtMostOne, NestedAssumption

LEMMA TurnStep ==
    ASSUME WorkInv, TurnInv, [Next]_vars
    PROVE  TurnInv'
<1>1. CASE UNCHANGED vars
    BY <1>1, TurnQuiet DEF vars, loopVars
<1>2. CASE \E call \in Control \cup {"getLog"} : Call(call)
    BY <1>2, TurnQuiet DEF Call, loopVars
<1>3. CASE FireRoot
    BY <1>3, TurnBegin, NestedAssumption DEF FireRoot, NestedAssumption
<1>4. ASSUME NEW t \in Transition, TakeTask(t) PROVE TurnInv'
    BY <1>4, TakeTaskCases, TurnBegin, TurnQuiet
<1>5. ASSUME NEW t \in Transition, Return(t) PROVE TurnInv'
    BY <1>5, TurnQuiet DEF Return, loopVars
<1>6. ASSUME NEW n \in Net, fire(n) PROVE TurnInv'
    <2>1. CASE ApplyResult(n) \/ BatchDone(n)
        BY <2>1, TurnApplyResult, TurnBatchDone
    <2>2. CASE ~(ApplyResult(n) \/ BatchDone(n))
        BY <1>6, <2>2, TurnQuiet DEF fire, Discard, EnqueueNoop, ApplyNoop, ApplyControl, ApplyGetLog, Ask,
           Answer, LeaveLoop, Leave, DrainDone, Finish, loopVars
    <2>3. QED
        BY <2>1, <2>2
<1>7. QED
    BY <1>1, <1>2, <1>3, <1>4, <1>5, <1>6 DEF Next

(***************************************************************************)
(* Nets that take turns for the token that a net is run with never run it  *)
(* twice at once, whatever the callbacks return and whenever the calls     *)
(* come.  (fireTransition takes the tokens before it schedules, and only   *)
(* the result of the callback gives tokens back.)                          *)
(***************************************************************************)
THEOREM TurnsAreAlone ==
    ASSUME TakeTurns
    PROVE  Spec => []NetsRunAlone
<1>1. Init => TurnInv
    BY TurnInit
<1>2. WorkInv /\ TurnInv /\ [Next]_vars => TurnInv'
    BY TurnStep
<1>3. TurnInv => NetsRunAlone
    <2> SUFFICES ASSUME TurnInv, NEW t \in Transition, NEW u \in Transition, Inside(t), Callback[t] = Callback[u],
                        t \in scheduled[Owner[t]], u \in scheduled[Owner[u]], t # u
                 PROVE  FALSE
        BY DEF NetsRunAlone
    <2>1. Owner[t] \in Net /\ Owner[t] = Owner[u]
        BY NestedAssumption DEF NestedAssumption, Inside
    <2>2. PICK S \in SUBSET Place : OneTurn(S, Owner[t]) /\ Takes(t, S) /\ Takes(u, S)
        BY DEF TakeTurns, Takes
    <2>3. TurnsOf(S, Owner[t])
        BY <2>1, <2>2 DEF TurnInv
    <2>4. QED
        BY <2>1, <2>2, <2>3 DEF TurnsOf
<1>4. Spec => []WorkInv
    BY WorkInvariant
<1>5. QED
    BY <1>1, <1>2, <1>3, <1>4, PTL DEF Spec

(***************************************************************************)
(* So cancel, pause and resume reach every nested net that runs, in nets   *)
(* that take turns.                                                        *)
(***************************************************************************)
THEOREM ControlReachesInTurns ==
    ASSUME TakeTurns
    PROVE  Spec => []ControlReachesNested
<1>1. Spec => []NetsRunAlone
    BY TurnsAreAlone
<1>2. Spec /\ []NetsRunAlone => []ControlReachesNested
    BY ControlReaches
<1>3. QED
    BY <1>1, <1>2, PTL

(***************************************************************************)
(* In particular, when every net is on one transition only, as in a tree   *)
(* of nets where each has its own callback.                                *)
(***************************************************************************)
THEOREM ControlReachesTree ==
    ASSUME \A t, u \in Transition : Inside(t) /\ Callback[t] = Callback[u] => t = u
    PROVE  Spec => []ControlReachesNested
<1>1. TakeTurns
    BY DEF TakeTurns
<1>2. QED
    BY <1>1, ControlReachesInTurns, PTL
=============================================================================
