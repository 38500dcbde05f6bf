------------------------------- MODULE PetriProofs -------------------------------
(***************************************************************************)
(* Proofs about the executor, for every net, any number of workers and     *)
(* clients and any number of calls and runs: the types and where the tasks *)
(* are, the bookkeeping of scheduled callbacks and the event log, the      *)
(* decisions of the loop, the token game it implements, and what the token *)
(* game keeps.                                                             *)
(***************************************************************************)
EXTENDS Petri, FiniteSetTheorems, SequenceTheorems, TLAPS

-----------------------------------------------------------------------------
(***************************************************************************)
(* Lemmas about the marking, the candidates and the queues.                *)
(***************************************************************************)
LEMMA DeductType ==
    ASSUME NEW m \in Marking, NEW t \in Transition, Enabled(t, m)
    PROVE  deductMarking(m, input_n[t]) \in Marking
BY StructureAssumption DEF Enabled, canFire, deductMarking, Marking

LEMMA ProduceType ==
    ASSUME NEW m \in Marking, NEW t \in Transition, NEW res
    PROVE  produce(m, t, res) \in Marking
BY StructureAssumption DEF produce, Marking, AugmentedToken

LEMMA SortedFacts ==
    ASSUME NEW S \in SUBSET Transition, NEW s \in SortedByPriority(S)
    PROVE  /\ s \in Seq(Transition)
           /\ Range(s) = S
           /\ \A i, j \in 1 .. Len(s) : i < j => priority[s[i]] >= priority[s[j]]
<1>1. IsFiniteSet(S)
    BY StructureAssumption, FS_Subset
<1>2. Cardinality(S) \in Nat
    BY <1>1, FS_CardinalityType
<1>3. s \in [1 .. Cardinality(S) -> S]
    BY DEF SortedByPriority
<1>4. s \in Seq(S)
    BY <1>2, <1>3, SeqDef
<1>5. DOMAIN s = 1 .. Len(s)
    BY <1>4, LenProperties
<1>6. s \in Seq(Transition)
    BY <1>4, SeqMonotonic
<1>7. QED
    BY <1>5, <1>6 DEF SortedByPriority

LEMMA CandidatesType ==
    ASSUME NEW m
    PROVE  possibleTransitions(m) \subseteq Transition
BY DEF possibleTransitions

LEMMA DownstreamType ==
    ASSUME NEW t
    PROVE  downstream(t) \subseteq Transition
BY DEF downstream, p_to_ts_n

LEMMA TailFacts ==
    ASSUME NEW D, NEW s \in Seq(D), s # <<>>
    PROVE  /\ Head(s) \in D
           /\ Tail(s) \in Seq(D)
           /\ Len(Tail(s)) = Len(s) - 1
           /\ Len(s) \in Nat \ {0}
           /\ \A i \in 1 .. Len(s) - 1 : Tail(s)[i] = s[i + 1]
           /\ Head(s) = s[1]
           /\ Range(Tail(s)) \subseteq Range(s)
           /\ Range(s) \ {Head(s)} \subseteq Range(Tail(s))
<1>1. /\ Head(s) \in D
      /\ Tail(s) \in Seq(D)
      /\ Len(Tail(s)) = Len(s) - 1
      /\ Len(s) \in Nat \ {0}
      /\ \A i \in 1 .. Len(s) - 1 : Tail(s)[i] = s[i + 1]
      /\ Head(s) = s[1]
    BY EmptySeq, HeadTailProperties
<1>2. DOMAIN s = 1 .. Len(s) /\ DOMAIN Tail(s) = 1 .. Len(s) - 1
    BY <1>1
<1>3. Range(Tail(s)) \subseteq Range(s)
    BY <1>1, <1>2 DEF Range
<1>4. ASSUME NEW i \in 1 .. Len(s), s[i] # Head(s)
      PROVE  s[i] \in Range(Tail(s))
    <2>1. i - 1 \in 1 .. Len(s) - 1 /\ Tail(s)[i - 1] = s[i]
        BY <1>1, <1>4
    <2>2. QED
        BY <1>2, <2>1 DEF Range
<1>5. QED
    BY <1>1, <1>2, <1>3, <1>4 DEF Range

(***************************************************************************)
(* The kinds of reducers and what they carry.                              *)
(***************************************************************************)
LEMMA ReducerFields ==
    ASSUME NEW r \in Reducer
    PROVE  /\ r.kind \in {"noop", "cancel", "pause", "resume", "trigger",
                          "get", "started", "result"}
           /\ r.kind = "trigger" => r.t \in Transition
           /\ r.kind = "get" => r.client \in Client
           /\ r.kind = "started" => r.job \in Job
           /\ r.kind = "result" => r.job \in Job /\ r.result \in Token
BY DEF Reducer, ClientReducer, InputTransition

LEMMA ClientReducerKinds ==
    /\ ClientReducer \subseteq Reducer
    /\ \A r \in ClientReducer : r.kind \notin {"started", "result"}
    /\ Noop \in ClientReducer
    /\ \A k \in {"cancel", "pause", "resume"} : Control(k) \in ClientReducer
    /\ \A t \in InputTransition : Trigger(t) \in ClientReducer
    /\ \A c \in Client : Get(c) \in ClientReducer
BY DEF Reducer, ClientReducer, Noop, Control, Trigger, Get

LEMMA TaskReducerKinds ==
    ASSUME NEW j \in Job
    PROVE  /\ StartOf(j) \in Reducer
           /\ StartOf(j).kind = "started" /\ StartOf(j).job = j
           /\ \A res \in Token :
                /\ ResultOf(j, res) \in Reducer
                /\ ResultOf(j, res).kind = "result" /\ ResultOf(j, res).job = j
BY DEF Reducer, StartOf, ResultOf

-----------------------------------------------------------------------------
(***************************************************************************)
(* The queue after an enqueue and after a dequeue, element by element.     *)
(***************************************************************************)
LEMMA EnqueueFacts ==
    ASSUME NEW p \in Producer, NEW r \in Reducer, Enqueue(p, r),
           reducer_queue \in [Producer -> Seq(Reducer)]
    PROVE  /\ reducer_queue' \in [Producer -> Seq(Reducer)]
           /\ Len(reducer_queue[p]) \in Nat
           /\ Len(reducer_queue'[p]) = Len(reducer_queue[p]) + 1
           /\ \A i \in 1 .. Len(reducer_queue[p]) :
                reducer_queue'[p][i] = reducer_queue[p][i]
           /\ reducer_queue'[p][Len(reducer_queue[p]) + 1] = r
           /\ \A q \in Producer \ {p} : reducer_queue'[q] = reducer_queue[q]
<1>1. reducer_queue[p] \in Seq(Reducer)
    OBVIOUS
<1>2. reducer_queue' = [reducer_queue EXCEPT ![p] = Append(reducer_queue[p], r)]
    BY DEF Enqueue
<1>3. /\ Append(reducer_queue[p], r) \in Seq(Reducer)
      /\ Len(Append(reducer_queue[p], r)) = Len(reducer_queue[p]) + 1
      /\ \A i \in 1 .. Len(reducer_queue[p]) :
            Append(reducer_queue[p], r)[i] = reducer_queue[p][i]
      /\ Append(reducer_queue[p], r)[Len(reducer_queue[p]) + 1] = r
    BY <1>1, AppendProperties
<1>4. reducer_queue'[p] = Append(reducer_queue[p], r)
    BY <1>2
<1>5. Len(reducer_queue[p]) \in Nat
    BY <1>1, LenProperties
<1>6. reducer_queue' \in [Producer -> Seq(Reducer)]
    BY <1>2, <1>3
<1>7. \A q \in Producer \ {p} : reducer_queue'[q] = reducer_queue[q]
    BY <1>2
<1>8. QED
    BY <1>3, <1>4, <1>5, <1>6, <1>7

LEMMA DequeueFacts ==
    ASSUME NEW p \in Producer, Dequeue(p),
           reducer_queue \in [Producer -> Seq(Reducer)]
    PROVE  /\ reducer_queue' \in [Producer -> Seq(Reducer)]
           /\ Front(p) \in Reducer
           /\ Len(reducer_queue[p]) \in Nat \ {0}
           /\ Front(p) = reducer_queue[p][1]
           /\ Len(reducer_queue'[p]) = Len(reducer_queue[p]) - 1
           /\ \A i \in 1 .. Len(reducer_queue[p]) - 1 :
                reducer_queue'[p][i] = reducer_queue[p][i + 1]
           /\ \A q \in Producer \ {p} : reducer_queue'[q] = reducer_queue[q]
<1>1. reducer_queue[p] \in Seq(Reducer) /\ reducer_queue[p] # <<>>
    BY DEF Dequeue
<1>2. reducer_queue' = [reducer_queue EXCEPT ![p] = Tail(reducer_queue[p])]
    BY DEF Dequeue
<1>3. reducer_queue'[p] = Tail(reducer_queue[p])
    BY <1>2
<1>4. \A q \in Producer \ {p} : reducer_queue'[q] = reducer_queue[q]
    BY <1>2
<1>5. /\ Head(reducer_queue[p]) \in Reducer
      /\ Tail(reducer_queue[p]) \in Seq(Reducer)
      /\ Len(Tail(reducer_queue[p])) = Len(reducer_queue[p]) - 1
      /\ Len(reducer_queue[p]) \in Nat \ {0}
      /\ \A i \in 1 .. Len(reducer_queue[p]) - 1 :
            Tail(reducer_queue[p])[i] = reducer_queue[p][i + 1]
      /\ Head(reducer_queue[p]) = reducer_queue[p][1]
    BY <1>1, TailFacts
<1>6. reducer_queue' \in [Producer -> Seq(Reducer)]
    BY <1>2, <1>5
<1>7. QED
    BY <1>3, <1>4, <1>5, <1>6 DEF Front

-----------------------------------------------------------------------------
(***************************************************************************)
(* Types.                                                                  *)
(***************************************************************************)
LEMMA LoggedType ==
    ASSUME NEW l \in [Transition -> [Event -> Nat]],
           NEW t \in Transition, NEW e \in Event
    PROVE  Logged(l, t, e) \in [Transition -> [Event -> Nat]]
<1>1. l[t] \in [Event -> Nat]
    OBVIOUS
<1>2. [l[t] EXCEPT ![e] = @ + 1] \in [Event -> Nat]
    BY <1>1
<1>3. QED
    BY <1>2 DEF Logged

LEMMA ScheduleFacts ==
    ASSUME TypeOK, NEW t \in Transition, fireAsynchronous(t)
    PROVE  /\ scheduled_callbacks' \in [Transition -> Nat]
           /\ log' \in [Transition -> [Event -> Nat]]
           /\ pool_queue' \in Seq(Job)
           /\ closure' \in [Job -> Transition \cup {NoTransition}]
           /\ \E j \in Job :
                /\ closure[j] = NoTransition
                /\ closure' = [closure EXCEPT ![j] = t]
                /\ pool_queue' = Append(pool_queue, j)
<1>1. PICK j \in Job : /\ closure[j] = NoTransition
                       /\ closure' = [closure EXCEPT ![j] = t]
                       /\ pool_queue' = Append(pool_queue, j)
    <2> DEFINE free == CHOOSE j \in Job : closure[j] = NoTransition
    <2>1. free \in Job /\ closure[free] = NoTransition
        BY DEF fireAsynchronous
    <2>2. QED
        BY <2>1 DEF fireAsynchronous
<1>2. pool_queue' \in Seq(Job)
    BY <1>1, AppendProperties DEF TypeOK
<1>3. log' \in [Transition -> [Event -> Nat]]
    BY LoggedType DEF TypeOK, fireAsynchronous, Event
<1>4. scheduled_callbacks' \in [Transition -> Nat]
    <2>1. scheduled_callbacks' =
            [scheduled_callbacks EXCEPT ![t] = scheduled_callbacks[t] + 1]
        BY DEF fireAsynchronous
    <2>2. QED
        BY <2>1 DEF TypeOK
<1>5. closure' \in [Job -> Transition \cup {NoTransition}]
    BY <1>1 DEF TypeOK
<1>6. QED
    BY <1>1, <1>2, <1>3, <1>4, <1>5

LEMMA RunReducerType ==
    ASSUME TypeOK, TaskReducers, NEW p \in Producer, RunReducer(p)
    PROVE  /\ state' \in NetState
           /\ tokens' \in Marking
           /\ scheduled_callbacks' \in [Transition -> Nat]
           /\ log' \in [Transition -> [Event -> Nat]]
           /\ reducer_queue' \in [Producer -> Seq(Reducer)]
           /\ pool_queue' \in Seq(Job)
           /\ closure' \in [Job -> Transition \cup {NoTransition}]
           /\ cpc' \in [Client -> {"idle", "enqueue", "read", "waiting"}]
<1> DEFINE r == Front(p)
<1>1. /\ reducer_queue' \in [Producer -> Seq(Reducer)]
      /\ r \in Reducer
      /\ r = reducer_queue[p][1]
      /\ 1 \in 1 .. Len(reducer_queue[p])
    BY DequeueFacts DEF RunReducer, TypeOK
<1>2. Apply(r)
    BY DEF RunReducer
<1> HIDE DEF r
<1>3. r.kind \in {"started", "result"} => r.job \in Job /\ closure[r.job] \in Transition
    BY <1>1, ReducerFields DEF TaskReducers, Index, IsStarted, IsResult, JobAt
<1>4. CASE ApplyNoop(r)
    BY <1>1, <1>4 DEF ApplyNoop, TypeOK, netVars, poolVars
<1>5. CASE ApplyCancel(r)
    <2>1. \A t \in Transition :
            [log[t] EXCEPT !["Cancel"] = @ + scheduled_callbacks[t]] \in [Event -> Nat]
        BY DEF TypeOK, Event
    <2>2. log' \in [Transition -> [Event -> Nat]]
        BY <1>5, <2>1 DEF ApplyCancel
    <2>3. QED
        BY <1>1, <1>5, <2>2 DEF ApplyCancel, TypeOK, NetState, poolVars
<1>6. CASE ApplyPause(r)
    BY <1>1, <1>6 DEF ApplyPause, TypeOK, NetState, poolVars
<1>7. CASE ApplyResume(r)
    BY <1>1, <1>7 DEF ApplyResume, TypeOK, NetState, poolVars
<1>8. CASE ApplyTrigger(r)
    <2>1. r.t \in Transition
        BY <1>1, <1>8, ReducerFields DEF ApplyTrigger
    <2>2. QED
        BY <1>1, <1>8, <2>1, ScheduleFacts DEF ApplyTrigger, TypeOK
<1>9. CASE ApplyGet(r)
    BY <1>1, <1>9, ReducerFields DEF ApplyGet, TypeOK, netVars, poolVars
<1>10. CASE ApplyStarted(r)
    <2>1. log' \in [Transition -> [Event -> Nat]]
        BY <1>3, <1>10, LoggedType DEF ApplyStarted, TypeOK, Event
    <2>2. QED
        BY <1>1, <1>10, <2>1 DEF ApplyStarted, TypeOK, poolVars
<1>11. CASE ApplyResult(r)
    <2> DEFINE t == closure[r.job]
    <2>1. r.job \in Job /\ t \in Transition
        BY <1>3, <1>11 DEF ApplyResult
    <2>2. log' \in [Transition -> [Event -> Nat]]
        BY <1>11, <2>1, LoggedType DEF ApplyResult, TypeOK, Event
    <2>3. /\ tokens' \in Marking
          /\ scheduled_callbacks' \in [Transition -> Nat]
        <3>1. CASE scheduled_callbacks[t] > 0
            <4>1. tokens' = produce(tokens, t, r.result)
                BY <1>11, <3>1 DEF ApplyResult
            <4>2. scheduled_callbacks' =
                    [scheduled_callbacks EXCEPT ![t] = scheduled_callbacks[t] - 1]
                BY <1>11, <3>1 DEF ApplyResult
            <4>3. tokens' \in Marking
                BY <2>1, <4>1, ProduceType DEF TypeOK
            <4>4. scheduled_callbacks' \in [Transition -> Nat]
                BY <2>1, <3>1, <4>2 DEF TypeOK
            <4>5. QED
                BY <4>3, <4>4
        <3>2. CASE ~(scheduled_callbacks[t] > 0)
            BY <1>11, <3>2 DEF ApplyResult, TypeOK
        <3>3. QED
            BY <3>1, <3>2
    <2>4. QED
        BY <1>1, <1>11, <2>1, <2>2, <2>3 DEF ApplyResult, TypeOK
<1>12. QED
    BY <1>2, <1>4, <1>5, <1>6, <1>7, <1>8, <1>9, <1>10, <1>11 DEF Apply

LEMMA InitType == Init => TypeOK
<1> SUFFICES ASSUME Init PROVE TypeOK
    OBVIOUS
<1>1. tokens \in Marking
    BY StructureAssumption DEF Init
<1>2. <<>> \in Seq(Transition) /\ <<>> \in Seq(Job) /\ <<>> \in Seq(Reducer)
    BY EmptySeq
<1>3. request \in [Client -> ClientReducer]
    BY ClientReducerKinds DEF Init
<1>4. QED
    BY <1>1, <1>2, <1>3 DEF Init, TypeOK, NetState, Nothing

(***************************************************************************)
(* The variables of the pool and the clients have their types after any    *)
(* step that leaves them alone, and so on: one lemma per thread.           *)
(***************************************************************************)
LEMMA LoopType ==
    ASSUME TypeOK, TaskReducers, FireStart \/ LoopStep
    PROVE  TypeOK'
<1> USE DEF TypeOK, netVars, loopVars, poolVars, workerVars, clientVars
<1>1. CASE FireStart
    BY <1>1, StructureAssumption DEF FireStart, NetState, Nothing
<1>2. ASSUME NEW p \in Producer, Discard(p) PROVE TypeOK'
    <2>1. reducer_queue' \in [Producer -> Seq(Reducer)]
        BY <1>2, DequeueFacts DEF Discard
    <2>2. QED
        BY <1>2, <2>1 DEF Discard
<1>3. ASSUME NEW p \in Producer, WaitDequeue(p) PROVE TypeOK'
    <2>1. RunReducer(p)
        BY <1>3 DEF WaitDequeue
    <2>2. UNCHANGED <<thread_id_, ts, result, runs, wpc, wjob, request, calls>>
        BY <2>1 DEF RunReducer
    <2>3. pc' = "batch"
        BY <1>3 DEF WaitDequeue
    <2> HIDE DEF TypeOK
    <2>4. /\ state' \in NetState
          /\ tokens' \in Marking
          /\ scheduled_callbacks' \in [Transition -> Nat]
          /\ log' \in [Transition -> [Event -> Nat]]
          /\ reducer_queue' \in [Producer -> Seq(Reducer)]
          /\ pool_queue' \in Seq(Job)
          /\ closure' \in [Job -> Transition \cup {NoTransition}]
          /\ cpc' \in [Client -> {"idle", "enqueue", "read", "waiting"}]
        BY <2>1, RunReducerType
    <2>5. QED
        BY <2>2, <2>3, <2>4 DEF TypeOK
<1>4. ASSUME NEW p \in Producer, BatchDequeue(p) \/ DrainDequeue(p)
      PROVE  TypeOK'
    <2>1. RunReducer(p)
        BY <1>4 DEF BatchDequeue, DrainDequeue
    <2>2. UNCHANGED <<thread_id_, ts, result, runs, wpc, wjob, request, calls>>
        BY <2>1 DEF RunReducer
    <2>3. pc' = pc
        BY <1>4 DEF BatchDequeue, DrainDequeue
    <2> HIDE DEF TypeOK
    <2>4. /\ state' \in NetState
          /\ tokens' \in Marking
          /\ scheduled_callbacks' \in [Transition -> Nat]
          /\ log' \in [Transition -> [Event -> Nat]]
          /\ reducer_queue' \in [Producer -> Seq(Reducer)]
          /\ pool_queue' \in Seq(Job)
          /\ closure' \in [Job -> Transition \cup {NoTransition}]
          /\ cpc' \in [Client -> {"idle", "enqueue", "read", "waiting"}]
        BY <2>1, RunReducerType
    <2>5. QED
        BY <2>2, <2>3, <2>4 DEF TypeOK
<1>5. CASE EnqueueNoop
    <2>1. reducer_queue' \in [Producer -> Seq(Reducer)]
        BY <1>5, EnqueueFacts, ClientReducerKinds DEF EnqueueNoop, Producer
    <2>2. QED
        BY <1>5, <2>1 DEF EnqueueNoop
<1>6. CASE BatchDone
    <2>1. state' \in NetState
        BY <1>6 DEF BatchDone, NetState
    <2>2. ts' \in Seq(Transition) /\ pc' \in {"fire", "wait"}
        BY <1>6, SortedFacts, CandidatesType DEF BatchDone
    <2>3. QED
        BY <1>6, <2>1, <2>2 DEF BatchDone
<1>7. CASE DropFront
    <2>1. ts' \in Seq(Transition)
        BY <1>7, TailFacts DEF DropFront
    <2>2. QED
        BY <1>7, <2>1 DEF DropFront
<1>8. ASSUME NEW t \in Transition, FireFrontAsync(t) PROVE TypeOK'
    <2>1. tokens' \in Marking
        BY <1>8, DeductType DEF FireFrontAsync
    <2>2. ts' \in Seq(Transition)
        BY <1>8, TailFacts DEF FireFrontAsync
    <2>3. fireAsynchronous(t)
        BY <1>8 DEF FireFrontAsync
    <2>4. /\ scheduled_callbacks' \in [Transition -> Nat]
          /\ log' \in [Transition -> [Event -> Nat]]
          /\ pool_queue' \in Seq(Job)
          /\ closure' \in [Job -> Transition \cup {NoTransition}]
        BY <2>3, ScheduleFacts
    <2>5. UNCHANGED <<state, thread_id_, pc, result, runs, reducer_queue,
                      wpc, wjob, cpc, request, calls>>
        BY <1>8 DEF FireFrontAsync
    <2>6. QED
        BY <2>1, <2>2, <2>4, <2>5
<1>9. ASSUME NEW t \in Transition, NEW res \in Returns[t], FireFrontSync(t, res)
      PROVE  TypeOK'
    <2>1. tokens' \in Marking
        BY <1>9, DeductType, ProduceType DEF FireFrontSync
    <2>2. Range(ts) \subseteq Transition /\ Range(Tail(ts)) \subseteq Transition
        <3>1. Range(ts) \subseteq Transition
            BY LenProperties DEF Range
        <3>2. QED
            BY <1>9, <3>1, TailFacts DEF FireFrontSync
    <2>3. ts' \in Seq(Transition)
        BY <1>9, <2>2, DownstreamType, SortedFacts DEF FireFrontSync
    <2>4. log' \in [Transition -> [Event -> Nat]]
        <3>1. Logged(log, t, "Started") \in [Transition -> [Event -> Nat]]
            BY LoggedType DEF Event
        <3>2. Logged(Logged(log, t, "Started"), t, "End")
                \in [Transition -> [Event -> Nat]]
            BY <3>1, LoggedType DEF Event
        <3>3. QED
            BY <1>9, <3>2 DEF FireFrontSync
    <2>5. QED
        BY <1>9, <2>1, <2>3, <2>4 DEF FireFrontSync
<1>10. CASE FireDone
    BY <1>10 DEF FireDone, NetState
<1>11. CASE LeaveLoop
    BY <1>11 DEF LeaveLoop, NetState
<1>12. CASE FireReturn
    BY <1>12 DEF FireReturn
<1>13. QED
    <2> HIDE DEF TypeOK, netVars, loopVars, poolVars, workerVars, clientVars
    <2>1. QED
        BY <1>1, <1>2, <1>3, <1>4, <1>5, <1>6, <1>7, <1>8, <1>9, <1>10, <1>11,
           <1>12 DEF LoopStep

LEMMA WorkerType ==
    ASSUME TypeOK, WorkerTasks, NEW w \in Worker, WorkerStep(w)
    PROVE  TypeOK'
<1> USE DEF TypeOK, netVars, loopVars, poolVars, workerVars, clientVars
<1> w \in Producer
    BY DEF Producer
<1>1. CASE TakeTask(w)
    <2>1. Head(pool_queue) \in Job /\ Tail(pool_queue) \in Seq(Job)
        BY <1>1, TailFacts DEF TakeTask
    <2>2. QED
        BY <1>1, <2>1 DEF TakeTask
<1>2. CASE ReportStart(w)
    <2>1. wjob[w] \in Job
        BY <1>2 DEF ReportStart, WorkerTasks, Busy
    <2>2. reducer_queue' \in [Producer -> Seq(Reducer)]
        BY <1>2, <2>1, EnqueueFacts, TaskReducerKinds DEF ReportStart
    <2>3. QED
        BY <1>2, <2>2 DEF ReportStart
<1>3. CASE ReportResult(w)
    <2>1. wjob[w] \in Job /\ closure[wjob[w]] \in Transition
        BY <1>3 DEF ReportResult, WorkerTasks, Busy
    <2>2. PICK res \in Returns[closure[wjob[w]]] :
            Enqueue(w, ResultOf(wjob[w], res))
        BY <1>3 DEF ReportResult
    <2>3. res \in Token
        BY <2>1, <2>2, StructureAssumption
    <2>4. reducer_queue' \in [Producer -> Seq(Reducer)]
        BY <2>1, <2>2, <2>3, EnqueueFacts, TaskReducerKinds
    <2>5. QED
        BY <1>3, <2>4 DEF ReportResult
<1>4. QED
    BY <1>1, <1>2, <1>3 DEF WorkerStep

LEMMA ClientType ==
    ASSUME TypeOK, NEW c \in Client, ClientCall(c) \/ ClientStep(c)
    PROVE  TypeOK'
<1> USE DEF TypeOK, netVars, loopVars, poolVars, workerVars, clientVars
<1> c \in Producer
    BY DEF Producer
<1>1. ASSUME NEW k \in {"cancel", "pause", "resume"}, Controls(c, k)
      PROVE  TypeOK'
    <2>1. reducer_queue' \in [Producer -> Seq(Reducer)]
        BY <1>1, EnqueueFacts, ClientReducerKinds DEF Controls
    <2>2. QED
        BY <1>1, <2>1 DEF Controls
<1>2. ASSUME NEW r \in ClientReducer, LoadThreadId(c, r)
      PROVE  TypeOK'
    <2>1. request' \in [Client -> ClientReducer]
        BY <1>2, ClientReducerKinds DEF LoadThreadId
    <2>2. cpc' \in [Client -> {"idle", "enqueue", "read", "waiting"}]
        BY <1>2 DEF LoadThreadId
    <2>3. QED
        BY <1>2, <2>1, <2>2 DEF LoadThreadId
<1>3. CASE EnqueueRequest(c)
    <2>1. reducer_queue' \in [Producer -> Seq(Reducer)]
        BY <1>3, EnqueueFacts, ClientReducerKinds DEF EnqueueRequest
    <2>2. request' \in [Client -> ClientReducer]
        BY <1>3, ClientReducerKinds DEF EnqueueRequest
    <2>3. QED
        BY <1>3, <2>1, <2>2 DEF EnqueueRequest
<1>4. CASE ReadUnlocked(c)
    BY <1>4 DEF ReadUnlocked
<1>5. QED
    <2> HIDE DEF TypeOK, netVars, loopVars, poolVars, workerVars, clientVars
    <2>1. QED
        BY <1>1, <1>2, <1>3, <1>4, ClientReducerKinds DEF ClientCall, ClientStep

-----------------------------------------------------------------------------
(***************************************************************************)
(* Every task stays in one place.  What a step does to the reducer queue   *)
(* is an enqueue or a shift of the queues by d[p] elements: by none, or by *)
(* the one that is dequeued.                                               *)
(***************************************************************************)
Shifted(d) ==
    \A p \in Producer : \A i \in 1 .. Len(reducer_queue'[p]) :
        /\ i + d[p] \in 1 .. Len(reducer_queue[p])
        /\ reducer_queue'[p][i] = reducer_queue[p][i + d[p]]

LEMMA UnchangedShift ==
    ASSUME TypeOK, UNCHANGED reducer_queue
    PROVE  \E d \in [Producer -> Nat] : Shifted(d)
<1> DEFINE d == [p \in Producer |-> 0]
<1>1. \A p \in Producer : Len(reducer_queue[p]) \in Nat
    BY LenProperties DEF TypeOK
<1>2. d \in [Producer -> Nat] /\ Shifted(d)
    BY <1>1 DEF Shifted
<1>3. QED
    BY <1>2

LEMMA DequeueShift ==
    ASSUME TypeOK, NEW p \in Producer, Dequeue(p)
    PROVE  \E d \in [Producer -> Nat] : d[p] = 1 /\ Shifted(d)
<1> DEFINE d == [q \in Producer |-> IF q = p THEN 1 ELSE 0]
<1>1. \A q \in Producer : Len(reducer_queue[q]) \in Nat
    BY LenProperties DEF TypeOK
<1>2. /\ Len(reducer_queue[p]) \in Nat \ {0}
      /\ Len(reducer_queue'[p]) = Len(reducer_queue[p]) - 1
      /\ \A i \in 1 .. Len(reducer_queue[p]) - 1 :
            reducer_queue'[p][i] = reducer_queue[p][i + 1]
      /\ \A q \in Producer \ {p} : reducer_queue'[q] = reducer_queue[q]
    BY DequeueFacts DEF TypeOK
<1>3. ASSUME NEW q \in Producer, NEW i \in 1 .. Len(reducer_queue'[q])
      PROVE  /\ i + d[q] \in 1 .. Len(reducer_queue[q])
             /\ reducer_queue'[q][i] = reducer_queue[q][i + d[q]]
    <2>1. CASE q = p
        BY <1>2, <2>1
    <2>2. CASE q # p
        BY <1>1, <1>2, <2>2
    <2>3. QED
        BY <2>1, <2>2
<1>4. d \in [Producer -> Nat] /\ d[p] = 1
    OBVIOUS
<1>5. QED
    BY <1>3, <1>4 DEF Shifted

(***************************************************************************)
(* Steps that leave tasks alone and only remove other reducers.            *)
(***************************************************************************)
LEMMA ShiftTracked ==
    ASSUME TypeOK, TasksAreTracked, NEW d \in [Producer -> Nat], Shifted(d),
           UNCHANGED <<pool_queue, closure, wpc, wjob>>
    PROVE  TasksAreTracked'
<1> USE DEF TasksAreTracked, Index, IsStarted, IsResult, JobAt, Waits, Busy
<1>1. PoolTasks'
    BY DEF PoolTasks
<1>2. WorkerTasks'
    BY DEF WorkerTasks
<1>3. TaskReducers'
    <2> SUFFICES ASSUME NEW p \in Producer, NEW i \in Index(p)',
                        (IsStarted(p, i) \/ IsResult(p, i))'
                 PROVE  /\ closure[JobAt(p, i)'] \in Transition
                        /\ ~Waits(JobAt(p, i)')
                        /\ \A w \in Worker : Busy(w) /\ wjob[w] = JobAt(p, i)' =>
                             IsStarted(p, i)' /\ p = w
        BY DEF TaskReducers
    <2> DEFINE k == i + d[p]
    <2>1. k \in Index(p) /\ reducer_queue'[p][i] = reducer_queue[p][k]
        BY DEF Shifted
    <2>2. QED
        BY <2>1 DEF TaskReducers
<1>4. ResultsInOrder'
    <2> SUFFICES ASSUME NEW p \in Producer, NEW q \in Producer,
                        NEW i \in Index(p)', NEW k \in Index(q)',
                        IsResult(q, k)', JobAt(p, i)' = JobAt(q, k)'
                 PROVE  /\ IsResult(p, i)' => p = q /\ i = k
                        /\ IsStarted(p, i)' => p = q /\ i < k
        BY DEF ResultsInOrder
    <2> DEFINE m == i + d[p]
               n == k + d[q]
    <2>1. m \in Index(p) /\ reducer_queue'[p][i] = reducer_queue[p][m]
        BY DEF Shifted
    <2>2. n \in Index(q) /\ reducer_queue'[q][k] = reducer_queue[q][n]
        BY DEF Shifted
    <2>3. /\ IsResult(p, i)' => p = q /\ m = n
          /\ IsStarted(p, i)' => p = q /\ m < n
        BY <2>1, <2>2 DEF ResultsInOrder
    <2>4. i \in Int /\ k \in Int /\ d[p] \in Nat
        OBVIOUS
    <2>5. QED
        BY <2>3, <2>4
<1>5. QED
    BY <1>1, <1>2, <1>3, <1>4

(***************************************************************************)
(* A new task goes to the pool under a name that nothing refers to.        *)
(***************************************************************************)
LEMMA ScheduleTracked ==
    ASSUME TypeOK, TasksAreTracked, NEW d \in [Producer -> Nat], Shifted(d),
           NEW t \in Transition, fireAsynchronous(t), UNCHANGED <<wpc, wjob>>
    PROVE  TasksAreTracked'
<1>1. PICK j \in Job : /\ closure[j] = NoTransition
                       /\ closure' = [closure EXCEPT ![j] = t]
                       /\ pool_queue' = Append(pool_queue, j)
    BY ScheduleFacts
<1>2. closure[j] \notin Transition
    BY <1>1, PetriAssumption
<1>3. /\ Len(pool_queue) \in Nat
      /\ Len(pool_queue') = Len(pool_queue) + 1
      /\ \A i \in 1 .. Len(pool_queue) : pool_queue'[i] = pool_queue[i]
      /\ pool_queue'[Len(pool_queue) + 1] = j
      /\ \A i \in 1 .. Len(pool_queue) : pool_queue[i] \in Job
    BY <1>1, AppendProperties, LenProperties DEF TypeOK
<1>4. \A i \in 1 .. Len(pool_queue) : pool_queue[i] # j
    BY <1>2 DEF TasksAreTracked, PoolTasks
<1>5. \A k \in Job : k # j => closure'[k] = closure[k]
    BY <1>1 DEF TypeOK
<1>6. closure'[j] = t
    BY <1>1 DEF TypeOK
<1>7. \A k \in Job \ {j} : Waits(k)' => Waits(k)
    BY <1>3 DEF Waits
<1> USE DEF Index, IsStarted, IsResult, JobAt, Busy
<1>8. PoolTasks'
    <2> SUFFICES ASSUME NEW i \in 1 .. Len(pool_queue')
                 PROVE  /\ closure'[pool_queue'[i]] \in Transition
                        /\ \A k \in 1 .. Len(pool_queue') :
                             pool_queue'[i] = pool_queue'[k] => i = k
        BY DEF PoolTasks
    <2>1. CASE i = Len(pool_queue) + 1
        BY <1>3, <1>4, <1>6, <2>1
    <2>2. CASE i \in 1 .. Len(pool_queue)
        <3>1. /\ pool_queue'[i] = pool_queue[i]
              /\ pool_queue[i] \in Job \ {j}
            BY <1>3, <1>4, <2>2
        <3>2. closure'[pool_queue'[i]] \in Transition
            BY <1>5, <2>2, <3>1 DEF TasksAreTracked, PoolTasks
        <3>3. ASSUME NEW k \in 1 .. Len(pool_queue'), pool_queue'[i] = pool_queue'[k]
              PROVE  i = k
            <4>1. k # Len(pool_queue) + 1
                BY <1>3, <3>1, <3>3
            <4>2. k \in 1 .. Len(pool_queue) /\ pool_queue'[k] = pool_queue[k]
                BY <1>3, <4>1
            <4>3. QED
                BY <2>2, <3>1, <3>3, <4>2 DEF TasksAreTracked, PoolTasks
        <3>4. QED
            BY <3>2, <3>3
    <2>3. QED
        BY <1>3, <2>1, <2>2
<1>9. WorkerTasks'
    <2> SUFFICES ASSUME NEW w \in Worker, Busy(w)
                 PROVE  /\ wjob[w] \in Job
                        /\ closure'[wjob[w]] \in Transition
                        /\ ~Waits(wjob[w])'
                        /\ \A v \in Worker : Busy(v) /\ wjob[v] = wjob[w] => v = w
        BY DEF WorkerTasks, Waits
    <2>1. wjob[w] \in Job \ {j}
        BY <1>2 DEF TasksAreTracked, WorkerTasks
    <2>2. QED
        BY <1>5, <1>7, <2>1 DEF TasksAreTracked, WorkerTasks
<1>10. TaskReducers'
    <2> SUFFICES ASSUME NEW p \in Producer, NEW i \in Index(p)',
                        (IsStarted(p, i) \/ IsResult(p, i))'
                 PROVE  /\ closure'[JobAt(p, i)'] \in Transition
                        /\ ~Waits(JobAt(p, i))'
                        /\ \A w \in Worker : Busy(w) /\ wjob[w] = JobAt(p, i)' =>
                             p = w /\ IsStarted(p, i)'
        BY DEF TaskReducers, Waits
    <2> DEFINE k == i + d[p]
    <2>1. k \in Index(p) /\ reducer_queue'[p][i] = reducer_queue[p][k]
        BY DEF Shifted
    <2>2. reducer_queue[p][k] \in Reducer
        BY <2>1, ElementOfSeq DEF TypeOK
    <2>3. JobAt(p, k) \in Job \ {j}
        BY <1>2, <2>1, <2>2, ReducerFields DEF TasksAreTracked, TaskReducers
    <2>4. \A m \in 1 .. Len(pool_queue') : pool_queue'[m] # JobAt(p, k)
        <3>1. ~Waits(JobAt(p, k))
            BY <2>1 DEF TasksAreTracked, TaskReducers
        <3>2. ASSUME NEW m \in 1 .. Len(pool_queue')
              PROVE  pool_queue'[m] # JobAt(p, k)
            <4>1. CASE m = Len(pool_queue) + 1
                <5>1. pool_queue'[m] = j
                    BY <1>3, <4>1
                <5>2. QED
                    BY <2>3, <5>1
            <4>2. CASE m \in 1 .. Len(pool_queue)
                <5>1. pool_queue'[m] = pool_queue[m]
                    BY <1>3, <4>2
                <5>2. QED
                    BY <3>1, <4>2, <5>1 DEF Waits
            <4>3. QED
                BY <1>3, <4>1, <4>2
        <3>3. QED
            BY <3>2
    <2>5. closure'[JobAt(p, k)] \in Transition
        BY <1>5, <2>1, <2>3 DEF TasksAreTracked, TaskReducers
    <2>6. \A w \in Worker : Busy(w) /\ wjob[w] = JobAt(p, k) => p = w /\ IsStarted(p, k)
        BY <2>1 DEF TasksAreTracked, TaskReducers
    <2>7. QED
        BY <2>1, <2>4, <2>5, <2>6 DEF Waits
<1>11. ResultsInOrder'
    <2> SUFFICES ASSUME NEW p \in Producer, NEW q \in Producer,
                        NEW i \in Index(p)', NEW k \in Index(q)',
                        IsResult(q, k)', JobAt(p, i)' = JobAt(q, k)'
                 PROVE  /\ IsResult(p, i)' => p = q /\ i = k
                        /\ IsStarted(p, i)' => p = q /\ i < k
        BY DEF ResultsInOrder
    <2> DEFINE m == i + d[p]
               n == k + d[q]
    <2>1. m \in Index(p) /\ reducer_queue'[p][i] = reducer_queue[p][m]
        BY DEF Shifted
    <2>2. n \in Index(q) /\ reducer_queue'[q][k] = reducer_queue[q][n]
        BY DEF Shifted
    <2>3. /\ IsResult(p, i)' => p = q /\ m = n
          /\ IsStarted(p, i)' => p = q /\ m < n
        BY <2>1, <2>2 DEF TasksAreTracked, ResultsInOrder
    <2>4. i \in Int /\ k \in Int /\ d[p] \in Nat
        OBVIOUS
    <2>5. QED
        BY <2>3, <2>4
<1>12. QED
    BY <1>8, <1>9, <1>10, <1>11 DEF TasksAreTracked

(***************************************************************************)
(* A result leaves the queue and frees the name of its task: no other      *)
(* place refers to it.                                                     *)
(***************************************************************************)
LEMMA ResultTracked ==
    ASSUME TypeOK, TasksAreTracked, NEW p \in Producer, Dequeue(p),
           IsResult(p, 1),
           closure' = [closure EXCEPT ![JobAt(p, 1)] = NoTransition],
           UNCHANGED <<pool_queue, wpc, wjob>>
    PROVE  TasksAreTracked'
<1> DEFINE j == JobAt(p, 1)
<1>1. PICK d \in [Producer -> Nat] : d[p] = 1 /\ Shifted(d)
    BY DequeueShift
<1>2. 1 \in Index(p)
    BY DequeueFacts DEF TypeOK, Index
<1>3. j \in Job /\ ~Waits(j)
    BY <1>2, ElementOfSeq, ReducerFields
       DEF TypeOK, TasksAreTracked, TaskReducers, Index, IsResult, JobAt
<1>4. \A k \in Job \ {j} : closure'[k] = closure[k]
    BY DEF TypeOK
<1>5. ASSUME NEW q \in Producer, NEW i \in Index(q)',
             (IsStarted(q, i) \/ IsResult(q, i))'
      PROVE  /\ i + d[q] \in Index(q)
             /\ reducer_queue'[q][i] = reducer_queue[q][i + d[q]]
             /\ reducer_queue[q][i + d[q]].job # j
             /\ reducer_queue[q][i + d[q]].job \in Job
    <2> DEFINE k == i + d[q]
    <2>1. k \in Index(q) /\ reducer_queue'[q][i] = reducer_queue[q][k]
        BY <1>1 DEF Shifted, Index
    <2>2. IsStarted(q, k) \/ IsResult(q, k)
        BY <1>5, <2>1 DEF IsStarted, IsResult
    <2>3. reducer_queue[q][k] \in Reducer
        BY <2>1, ElementOfSeq DEF TypeOK, Index
    <2>4. JobAt(q, k) \in Job
        BY <2>2, <2>3, ReducerFields DEF IsStarted, IsResult, JobAt
    <2>5. JobAt(q, k) # j
        <3> SUFFICES ASSUME JobAt(q, k) = j PROVE FALSE
            OBVIOUS
        <3>1. q = p /\ k <= 1
            BY <1>2, <2>1, <2>2 DEF TasksAreTracked, ResultsInOrder, Index
        <3>2. i \in Nat \ {0} /\ k = i + 1
            BY <1>1, <1>5, <3>1, LenProperties DEF Index
        <3>3. QED
            BY <3>1, <3>2
    <2>6. QED
        BY <2>1, <2>4, <2>5 DEF JobAt
<1> HIDE DEF j
<1>6. PoolTasks'
    <2>1. ASSUME NEW i \in 1 .. Len(pool_queue)
          PROVE  pool_queue[i] \in Job \ {j}
        BY <1>3, ElementOfSeq DEF TypeOK, Waits
    <2>2. QED
        BY <1>4, <2>1 DEF TasksAreTracked, PoolTasks
<1>7. WorkerTasks'
    <2>1. ASSUME NEW w \in Worker, Busy(w)
          PROVE  wjob[w] \in Job \ {j}
        BY <1>2, <2>1 DEF j, TasksAreTracked, WorkerTasks, TaskReducers,
                          IsResult, IsStarted, JobAt
    <2>2. QED
        BY <1>4, <2>1 DEF TasksAreTracked, WorkerTasks, Busy, Waits
<1>8. TaskReducers'
    <2> SUFFICES ASSUME NEW q \in Producer, NEW i \in Index(q)',
                        (IsStarted(q, i) \/ IsResult(q, i))'
                 PROVE  /\ closure'[JobAt(q, i)'] \in Transition
                        /\ ~Waits(JobAt(q, i)')
                        /\ \A w \in Worker : Busy(w) /\ wjob[w] = JobAt(q, i)' =>
                             q = w /\ IsStarted(q, i)'
        BY DEF TaskReducers, Waits, Busy, JobAt
    <2> QED
        BY <1>4, <1>5 DEF TasksAreTracked, TaskReducers, IsStarted, IsResult, JobAt
<1>9. ResultsInOrder'
    <2> SUFFICES ASSUME NEW q \in Producer, NEW r \in Producer,
                        NEW i \in Index(q)', NEW k \in Index(r)',
                        IsResult(r, k)', JobAt(q, i)' = JobAt(r, k)'
                 PROVE  /\ IsResult(q, i)' => q = r /\ i = k
                        /\ IsStarted(q, i)' => q = r /\ i < k
        BY DEF ResultsInOrder
    <2> USE DEF Index, IsStarted, IsResult, JobAt
    <2> DEFINE m == i + d[q]
               n == k + d[r]
    <2>1. m \in Index(q) /\ reducer_queue'[q][i] = reducer_queue[q][m]
        BY <1>1 DEF Shifted
    <2>2. n \in Index(r) /\ reducer_queue'[r][k] = reducer_queue[r][n]
        BY <1>1 DEF Shifted
    <2>3. /\ IsResult(q, i)' => q = r /\ m = n
          /\ IsStarted(q, i)' => q = r /\ m < n
        BY <2>1, <2>2 DEF TasksAreTracked, ResultsInOrder
    <2>4. i \in Int /\ k \in Int /\ d[q] \in Nat
        OBVIOUS
    <2>5. QED
        BY <2>3, <2>4
<1>10. QED
    BY <1>6, <1>7, <1>8, <1>9 DEF TasksAreTracked

(***************************************************************************)
(* A client, or the loop itself, enqueues a reducer of no task.            *)
(***************************************************************************)
LEMMA EnqueueTracked ==
    ASSUME TypeOK, TasksAreTracked, NEW p \in Producer, NEW r \in ClientReducer,
           Enqueue(p, r), UNCHANGED <<pool_queue, closure, wpc, wjob>>
    PROVE  TasksAreTracked'
<1>1. /\ Len(reducer_queue[p]) \in Nat
      /\ Len(reducer_queue'[p]) = Len(reducer_queue[p]) + 1
      /\ \A i \in 1 .. Len(reducer_queue[p]) :
            reducer_queue'[p][i] = reducer_queue[p][i]
      /\ reducer_queue'[p][Len(reducer_queue[p]) + 1] = r
      /\ \A q \in Producer \ {p} : reducer_queue'[q] = reducer_queue[q]
    BY EnqueueFacts, ClientReducerKinds DEF TypeOK
<1> USE DEF Index, IsStarted, IsResult, JobAt, Busy, Waits
<1>2. ASSUME NEW q \in Producer, NEW i \in Index(q)',
             (IsStarted(q, i) \/ IsResult(q, i))'
      PROVE  i \in Index(q) /\ reducer_queue'[q][i] = reducer_queue[q][i]
    BY <1>1, <1>2, ClientReducerKinds
<1>3. PoolTasks' /\ WorkerTasks'
    BY DEF TasksAreTracked, PoolTasks, WorkerTasks
<1>4. TaskReducers'
    BY <1>2 DEF TasksAreTracked, TaskReducers
<1>5. ResultsInOrder'
    <2> SUFFICES ASSUME NEW q \in Producer, NEW s \in Producer,
                        NEW i \in Index(q)', NEW k \in Index(s)',
                        (IsStarted(q, i) \/ IsResult(q, i))',
                        IsResult(s, k)', JobAt(q, i)' = JobAt(s, k)'
                 PROVE  /\ IsResult(q, i)' => q = s /\ i = k
                        /\ IsStarted(q, i)' => q = s /\ i < k
        BY DEF ResultsInOrder
    <2>1. i \in Index(q) /\ reducer_queue'[q][i] = reducer_queue[q][i]
        BY <1>2
    <2>2. k \in Index(s) /\ reducer_queue'[s][k] = reducer_queue[s][k]
        BY <1>2
    <2>3. QED
        BY <2>1, <2>2 DEF TasksAreTracked, ResultsInOrder
<1>6. QED
    BY <1>3, <1>4, <1>5 DEF TasksAreTracked

LEMMA TakeTracked ==
    ASSUME TypeOK, TasksAreTracked, NEW w \in Worker, TakeTask(w)
    PROVE  TasksAreTracked'
<1> DEFINE j == Head(pool_queue)
<1>1. /\ j \in Job
      /\ Len(pool_queue) \in Nat \ {0}
      /\ Len(pool_queue') = Len(pool_queue) - 1
      /\ \A i \in 1 .. Len(pool_queue) - 1 : pool_queue'[i] = pool_queue[i + 1]
      /\ j = pool_queue[1]
    BY TailFacts DEF TypeOK, TakeTask
<1>2. /\ UNCHANGED <<reducer_queue, closure>>
      /\ wpc' = [wpc EXCEPT ![w] = "taken"]
      /\ wjob' = [wjob EXCEPT ![w] = j]
      /\ wpc[w] = "idle"
    BY DEF TakeTask
<1>3. /\ wpc'[w] = "taken" /\ wjob'[w] = j
      /\ \A v \in Worker \ {w} : wpc'[v] = wpc[v] /\ wjob'[v] = wjob[v]
    BY <1>2 DEF TypeOK
<1>4. Waits(j) /\ closure[j] \in Transition
    BY <1>1 DEF TasksAreTracked, PoolTasks, Waits
<1>5. \A k : Waits(k)' => Waits(k) /\ k # j
    <2> SUFFICES ASSUME NEW i \in 1 .. Len(pool_queue')
                 PROVE  Waits(pool_queue'[i]) /\ pool_queue'[i] # j
        BY DEF Waits
    <2>1. i + 1 \in 1 .. Len(pool_queue) /\ pool_queue'[i] = pool_queue[i + 1]
        BY <1>1
    <2>2. QED
        BY <1>1, <2>1 DEF Waits, TasksAreTracked, PoolTasks
<1> HIDE DEF j
<1> USE DEF Index, IsStarted, IsResult, JobAt, Busy
<1>6. PoolTasks'
    <2> SUFFICES ASSUME NEW i \in 1 .. Len(pool_queue')
                 PROVE  /\ closure[pool_queue'[i]] \in Transition
                        /\ \A k \in 1 .. Len(pool_queue') :
                             pool_queue'[i] = pool_queue'[k] => i = k
        BY <1>2 DEF PoolTasks
    <2>1. i + 1 \in 1 .. Len(pool_queue) /\ pool_queue'[i] = pool_queue[i + 1]
        BY <1>1
    <2>2. \A k \in 1 .. Len(pool_queue') :
            k + 1 \in 1 .. Len(pool_queue) /\ pool_queue'[k] = pool_queue[k + 1]
        BY <1>1
    <2>3. \A k \in 1 .. Len(pool_queue') :
            pool_queue'[i] = pool_queue'[k] => i + 1 = k + 1
        BY <2>1, <2>2 DEF TasksAreTracked, PoolTasks
    <2>4. \A k \in 1 .. Len(pool_queue') : i + 1 = k + 1 => i = k
        OBVIOUS
    <2>5. QED
        BY <2>1, <2>3, <2>4 DEF TasksAreTracked, PoolTasks
<1>7. \A v \in Worker \ {w} : Busy(v) => wjob[v] # j
    BY <1>4 DEF TasksAreTracked, WorkerTasks
<1>8. WorkerTasks'
    <2> SUFFICES ASSUME NEW v \in Worker, Busy(v)'
                 PROVE  /\ wjob'[v] \in Job
                        /\ closure[wjob'[v]] \in Transition
                        /\ ~Waits(wjob[v])'
                        /\ \A u \in Worker : Busy(u)' /\ wjob'[u] = wjob'[v] => u = v
        BY <1>2 DEF WorkerTasks
    <2>1. CASE v = w
        BY <1>1, <1>3, <1>4, <1>5, <1>7, <2>1
    <2>2. CASE v # w
        BY <1>3, <1>5, <1>7, <2>2 DEF TasksAreTracked, WorkerTasks
    <2>3. QED
        BY <2>1, <2>2
<1>9. TaskReducers'
    <2> SUFFICES ASSUME NEW p \in Producer, NEW i \in Index(p),
                        IsStarted(p, i) \/ IsResult(p, i)
                 PROVE  /\ closure[JobAt(p, i)] \in Transition
                        /\ ~Waits(JobAt(p, i))'
                        /\ \A v \in Worker : Busy(v)' /\ wjob'[v] = JobAt(p, i) =>
                             p = v /\ IsStarted(p, i)
        BY <1>2 DEF TaskReducers
    <2>1. JobAt(p, i) # j
        BY <1>4 DEF TasksAreTracked, TaskReducers
    <2>2. QED
        BY <1>2, <1>3, <1>5, <2>1 DEF TasksAreTracked, TaskReducers
<1>10. ResultsInOrder'
    BY <1>2 DEF TasksAreTracked, ResultsInOrder
<1>11. QED
    BY <1>6, <1>8, <1>9, <1>10 DEF TasksAreTracked

LEMMA ReportStartTracked ==
    ASSUME TypeOK, TasksAreTracked, NEW w \in Worker, ReportStart(w)
    PROVE  TasksAreTracked'
<1> DEFINE j == wjob[w]
           r == StartOf(j)
           n == Len(reducer_queue[w]) + 1
<1> w \in Producer
    BY DEF Producer
<1>1. j \in Job /\ Busy(w)
    BY DEF ReportStart, TasksAreTracked, WorkerTasks, Busy
<1>2. r \in Reducer /\ r.kind = "started" /\ r.job = j
    BY <1>1, TaskReducerKinds
<1>3. Enqueue(w, r)
    BY DEF ReportStart
<1> HIDE DEF r
<1>4. /\ Len(reducer_queue[w]) \in Nat
      /\ Len(reducer_queue'[w]) = n
      /\ \A i \in 1 .. Len(reducer_queue[w]) :
            reducer_queue'[w][i] = reducer_queue[w][i]
      /\ reducer_queue'[w][n] = r
      /\ \A q \in Producer \ {w} : reducer_queue'[q] = reducer_queue[q]
    BY <1>2, <1>3, EnqueueFacts DEF TypeOK
<1>5. UNCHANGED <<pool_queue, closure, wjob>>
    BY DEF ReportStart, poolVars
<1>6. \A v \in Worker : Busy(v)' <=> Busy(v)
    BY DEF ReportStart, Busy, TypeOK
<1> HIDE DEF n
<1> USE DEF Index, IsStarted, IsResult, JobAt, Waits
<1>7. \A q \in Producer : \A i \in Index(q)' :
        \/ q = w /\ i = n
        \/ i \in Index(q) /\ reducer_queue'[q][i] = reducer_queue[q][i]
    BY <1>4 DEF n
<1>8. \A i \in Index(w) : i < n
    BY <1>4 DEF n
<1>9. PoolTasks' /\ WorkerTasks'
    BY <1>5, <1>6 DEF TasksAreTracked, PoolTasks, WorkerTasks
<1>10. TaskReducers'
    <2> SUFFICES ASSUME NEW p \in Producer, NEW i \in Index(p)',
                        (IsStarted(p, i) \/ IsResult(p, i))'
                 PROVE  /\ closure[JobAt(p, i)'] \in Transition
                        /\ ~Waits(JobAt(p, i)')
                        /\ \A v \in Worker : Busy(v) /\ wjob[v] = JobAt(p, i)' =>
                             p = v /\ IsStarted(p, i)'
        BY <1>5, <1>6 DEF TaskReducers
    <2>1. CASE p = w /\ i = n
        BY <1>1, <1>2, <1>4, <2>1 DEF TasksAreTracked, WorkerTasks
    <2>2. CASE i \in Index(p) /\ reducer_queue'[p][i] = reducer_queue[p][i]
        BY <2>2 DEF TasksAreTracked, TaskReducers
    <2>3. QED
        BY <1>7, <2>1, <2>2
<1>11. ResultsInOrder'
    <2> SUFFICES ASSUME NEW p \in Producer, NEW q \in Producer,
                        NEW i \in Index(p)', NEW k \in Index(q)',
                        IsResult(q, k)', JobAt(p, i)' = JobAt(q, k)'
                 PROVE  /\ IsResult(p, i)' => p = q /\ i = k
                        /\ IsStarted(p, i)' => p = q /\ i < k
        BY DEF ResultsInOrder
    <2>1. k \in Index(q) /\ reducer_queue'[q][k] = reducer_queue[q][k]
        BY <1>2, <1>4, <1>7
    <2>2. JobAt(q, k) # j
        BY <1>1, <2>1 DEF TasksAreTracked, TaskReducers
    <2>3. i \in Index(p) /\ reducer_queue'[p][i] = reducer_queue[p][i]
        BY <1>2, <1>4, <1>7, <2>1, <2>2
    <2>4. QED
        BY <2>1, <2>3 DEF TasksAreTracked, ResultsInOrder
<1>12. QED
    BY <1>9, <1>10, <1>11 DEF TasksAreTracked

LEMMA ReportResultTracked ==
    ASSUME TypeOK, TasksAreTracked, NEW w \in Worker, ReportResult(w)
    PROVE  TasksAreTracked'
<1> DEFINE j == wjob[w]
           n == Len(reducer_queue[w]) + 1
<1> w \in Producer
    BY DEF Producer
<1>1. j \in Job /\ Busy(w) /\ closure[j] \in Transition /\ ~Waits(j)
    BY DEF ReportResult, TasksAreTracked, WorkerTasks, Busy
<1>2. PICK res \in Token : Enqueue(w, ResultOf(j, res))
    BY <1>1, StructureAssumption DEF ReportResult
<1> DEFINE r == ResultOf(j, res)
<1>3. r \in Reducer /\ r.kind = "result" /\ r.job = j /\ Enqueue(w, r)
    BY <1>1, <1>2, TaskReducerKinds
<1> HIDE DEF r
<1>4. /\ Len(reducer_queue[w]) \in Nat
      /\ Len(reducer_queue'[w]) = n
      /\ \A i \in 1 .. Len(reducer_queue[w]) :
            reducer_queue'[w][i] = reducer_queue[w][i]
      /\ reducer_queue'[w][n] = r
      /\ \A q \in Producer \ {w} : reducer_queue'[q] = reducer_queue[q]
    BY <1>3, EnqueueFacts DEF TypeOK
<1>5. UNCHANGED <<pool_queue, closure>>
    BY DEF ReportResult, poolVars
<1>6. /\ ~Busy(w)'
      /\ \A v \in Worker \ {w} : (Busy(v)' <=> Busy(v)) /\ wjob'[v] = wjob[v]
    BY DEF ReportResult, Busy, TypeOK
<1> HIDE DEF n
<1> USE DEF Index, IsStarted, IsResult, JobAt, Waits
<1>7. \A q \in Producer : \A i \in Index(q)' :
        \/ q = w /\ i = n
        \/ i \in Index(q) /\ reducer_queue'[q][i] = reducer_queue[q][i]
    BY <1>4 DEF n
<1>8. \A i \in Index(w) : i < n
    BY <1>4 DEF n
<1>9. PoolTasks'
    BY <1>5 DEF TasksAreTracked, PoolTasks
<1>10. WorkerTasks'
    BY <1>5, <1>6 DEF TasksAreTracked, WorkerTasks
<1>11. TaskReducers'
    <2> SUFFICES ASSUME NEW p \in Producer, NEW i \in Index(p)',
                        (IsStarted(p, i) \/ IsResult(p, i))'
                 PROVE  /\ closure[JobAt(p, i)'] \in Transition
                        /\ ~Waits(JobAt(p, i)')
                        /\ \A v \in Worker \ {w} :
                             Busy(v) /\ wjob[v] = JobAt(p, i)' =>
                             p = v /\ IsStarted(p, i)'
        BY <1>5, <1>6 DEF TaskReducers
    <2>1. CASE p = w /\ i = n
        BY <1>1, <1>3, <1>4, <2>1 DEF TasksAreTracked, WorkerTasks
    <2>2. CASE i \in Index(p) /\ reducer_queue'[p][i] = reducer_queue[p][i]
        BY <2>2 DEF TasksAreTracked, TaskReducers
    <2>3. QED
        BY <1>7, <2>1, <2>2
<1>12. \A q \in Producer : \A k \in Index(q) :
        /\ ~(IsResult(q, k) /\ JobAt(q, k) = j)
        /\ IsStarted(q, k) /\ JobAt(q, k) = j => q = w
    BY <1>1 DEF TasksAreTracked, TaskReducers
<1>13. ResultsInOrder'
    <2> SUFFICES ASSUME NEW p \in Producer, NEW q \in Producer,
                        NEW i \in Index(p)', NEW k \in Index(q)',
                        IsResult(q, k)', JobAt(p, i)' = JobAt(q, k)'
                 PROVE  /\ IsResult(p, i)' => p = q /\ i = k
                        /\ IsStarted(p, i)' => p = q /\ i < k
        BY DEF ResultsInOrder
    <2>1. CASE q = w /\ k = n
        <3>1. JobAt(p, i)' = j
            BY <1>3, <1>4, <2>1
        <3>2. CASE p = w /\ i = n
            BY <1>3, <1>4, <2>1, <3>2
        <3>3. CASE i \in Index(p) /\ reducer_queue'[p][i] = reducer_queue[p][i]
            BY <1>8, <1>12, <2>1, <3>1, <3>3
        <3>4. QED
            BY <1>7, <3>2, <3>3
    <2>2. CASE k \in Index(q) /\ reducer_queue'[q][k] = reducer_queue[q][k]
        <3>1. JobAt(q, k) # j
            BY <1>12, <2>2
        <3>2. i \in Index(p) /\ reducer_queue'[p][i] = reducer_queue[p][i]
            BY <1>3, <1>4, <1>7, <2>2, <3>1
        <3>3. QED
            BY <2>2, <3>2 DEF TasksAreTracked, ResultsInOrder
    <2>3. QED
        BY <1>7, <2>1, <2>2
<1>14. QED
    BY <1>9, <1>10, <1>11, <1>13 DEF TasksAreTracked

-----------------------------------------------------------------------------
(***************************************************************************)
(* The inductive invariant of both theorems: the types rest on where the   *)
(* tasks are (the transition of a result is looked up by its task), and    *)
(* where the tasks are rests on the types.                                 *)
(***************************************************************************)
Tracked == TypeOK /\ TasksAreTracked

LEMMA RunReducerTracked ==
    ASSUME TypeOK, TasksAreTracked, NEW p \in Producer, RunReducer(p)
    PROVE  TasksAreTracked'
<1> DEFINE r == Front(p)
<1>1. Dequeue(p) /\ Apply(r) /\ UNCHANGED <<wpc, wjob>>
    BY DEF RunReducer, workerVars
<1>2. r \in Reducer /\ r = reducer_queue[p][1]
    BY <1>1, DequeueFacts DEF TypeOK
<1>3. PICK d \in [Producer -> Nat] : Shifted(d)
    BY <1>1, DequeueShift
<1> HIDE DEF r
<1>4. CASE UNCHANGED poolVars
    BY <1>1, <1>3, <1>4, ShiftTracked DEF poolVars
<1>5. CASE ApplyTrigger(r)
    <2>1. r.t \in Transition
        BY <1>2, <1>5, ReducerFields DEF ApplyTrigger
    <2>2. QED
        BY <1>1, <1>3, <1>5, <2>1, ScheduleTracked DEF ApplyTrigger
<1>6. CASE ApplyResult(r)
    <2>1. IsResult(p, 1) /\ JobAt(p, 1) = r.job
        BY <1>2, <1>6 DEF ApplyResult, IsResult, JobAt
    <2>2. QED
        BY <1>1, <1>6, <2>1, ResultTracked DEF ApplyResult
<1>7. QED
    BY <1>1, <1>4, <1>5, <1>6
       DEF Apply, ApplyNoop, ApplyCancel, ApplyPause, ApplyResume, ApplyGet,
           ApplyStarted

LEMMA LoopTracked ==
    ASSUME TypeOK, TasksAreTracked, FireStart \/ LoopStep
    PROVE  TasksAreTracked'
<1>1. CASE UNCHANGED <<reducer_queue, poolVars, workerVars>>
    BY <1>1, UnchangedShift, ShiftTracked DEF poolVars, workerVars
<1>2. ASSUME NEW p \in Producer, Discard(p)
      PROVE  TasksAreTracked'
    BY <1>2, DequeueShift, ShiftTracked DEF Discard, poolVars, workerVars
<1>3. ASSUME NEW p \in Producer,
             WaitDequeue(p) \/ BatchDequeue(p) \/ DrainDequeue(p)
      PROVE  TasksAreTracked'
    BY <1>3, RunReducerTracked DEF WaitDequeue, BatchDequeue, DrainDequeue
<1>4. CASE EnqueueNoop
    <2>1. Runner \in Producer /\ Noop \in ClientReducer
        BY ClientReducerKinds DEF Producer
    <2>2. QED
        BY <1>4, <2>1, EnqueueTracked DEF EnqueueNoop, poolVars, workerVars
<1>5. ASSUME NEW t \in Transition, FireFrontAsync(t)
      PROVE  TasksAreTracked'
    <2>1. /\ fireAsynchronous(t)
          /\ UNCHANGED <<reducer_queue, wpc, wjob>>
        BY <1>5 DEF FireFrontAsync, workerVars
    <2>2. QED
        BY <2>1, UnchangedShift, ScheduleTracked
<1>6. QED
    BY <1>1, <1>2, <1>3, <1>4, <1>5
       DEF LoopStep, FireStart, BatchDone, DropFront, FireFrontSync, FireDone,
           LeaveLoop, FireReturn

LEMMA ClientTracked ==
    ASSUME TypeOK, TasksAreTracked, NEW c \in Client, ClientCall(c) \/ ClientStep(c)
    PROVE  TasksAreTracked'
<1> c \in Producer
    BY DEF Producer
<1>1. ASSUME NEW k \in {"cancel", "pause", "resume"}, Controls(c, k)
      PROVE  TasksAreTracked'
    BY <1>1, ClientReducerKinds, EnqueueTracked DEF Controls, poolVars, workerVars
<1>2. CASE EnqueueRequest(c)
    <2>1. request[c] \in ClientReducer
        BY DEF TypeOK
    <2>2. QED
        BY <1>2, <2>1, EnqueueTracked DEF EnqueueRequest, poolVars, workerVars
<1>3. CASE UNCHANGED <<reducer_queue, poolVars, workerVars>>
    BY <1>3, UnchangedShift, ShiftTracked DEF poolVars, workerVars
<1>4. QED
    BY <1>1, <1>2, <1>3 DEF ClientCall, ClientStep, LoadThreadId, ReadUnlocked

LEMMA InitTracked == Init => TasksAreTracked
<1> SUFFICES ASSUME Init PROVE TasksAreTracked
    OBVIOUS
<1>1. \A p \in Producer : Index(p) = {}
    BY DEF Init, Index
<1>2. 1 .. Len(pool_queue) = {}
    BY DEF Init
<1>3. \A w \in Worker : ~Busy(w)
    BY DEF Init, Busy
<1>4. QED
    BY <1>1, <1>2, <1>3
       DEF TasksAreTracked, PoolTasks, WorkerTasks, TaskReducers, ResultsInOrder

LEMMA StepTracked == Tracked /\ [Next]_vars => Tracked'
<1> SUFFICES ASSUME TypeOK, TasksAreTracked, [Next]_vars
             PROVE  TypeOK' /\ TasksAreTracked'
    BY DEF Tracked
<1> USE DEF TasksAreTracked
<1>1. CASE FireStart \/ LoopStep
    <2> HIDE DEF TasksAreTracked
    <2>1. TasksAreTracked'
        BY <1>1, LoopTracked
    <2>2. TypeOK'
        BY <1>1, LoopType DEF TasksAreTracked
    <2>3. QED
        BY <2>1, <2>2
<1>2. ASSUME NEW w \in Worker, WorkerStep(w)
      PROVE  TypeOK' /\ TasksAreTracked'
    <2> HIDE DEF TasksAreTracked
    <2>1. TasksAreTracked'
        BY <1>2, TakeTracked, ReportStartTracked, ReportResultTracked DEF WorkerStep
    <2>2. TypeOK'
        BY <1>2, WorkerType DEF TasksAreTracked
    <2>3. QED
        BY <2>1, <2>2
<1>3. ASSUME NEW c \in Client, ClientCall(c) \/ ClientStep(c)
      PROVE  TypeOK' /\ TasksAreTracked'
    <2> HIDE DEF TasksAreTracked
    <2>1. QED
        BY <1>3, ClientTracked, ClientType
<1>4. CASE UNCHANGED vars
    <2> HIDE DEF TasksAreTracked
    <2>1. TypeOK'
        BY <1>4 DEF vars, TypeOK, netVars, loopVars, poolVars, workerVars, clientVars
    <2>2. UNCHANGED <<reducer_queue, pool_queue, closure, wpc, wjob>>
        BY <1>4 DEF vars, poolVars, workerVars
    <2>3. TasksAreTracked'
        BY <2>2, UnchangedShift, ShiftTracked
    <2>4. QED
        BY <2>1, <2>3
<1>5. QED
    <2> HIDE DEF TasksAreTracked
    <2>1. QED
        BY <1>1, <1>2, <1>3, <1>4 DEF Next

(***************************************************************************)
(* Every variable of the executor has its type in every reachable state.   *)
(***************************************************************************)
THEOREM TypeCorrect == Spec => []TypeOK
<1>1. Init => Tracked
    BY InitType, InitTracked DEF Tracked
<1>2. Tracked => TypeOK
    BY DEF Tracked
<1>3. QED
    BY <1>1, <1>2, StepTracked, PTL DEF Spec

(***************************************************************************)
(* Every task of `fireAsynchronous' is in exactly one place, the report of *)
(* its start comes before its result and from the same worker, and no      *)
(* result is reported twice.                                               *)
(***************************************************************************)
THEOREM TasksTracked == Spec => []TasksAreTracked
<1>1. Init => Tracked
    BY InitType, InitTracked DEF Tracked
<1>2. Tracked => TasksAreTracked
    BY DEF Tracked
<1>3. QED
    BY <1>1, <1>2, StepTracked, PTL DEF Spec

-----------------------------------------------------------------------------
(***************************************************************************)
(* The bookkeeping of the executor, from the types and from where the      *)
(* tasks are: the scheduled callbacks, what is left between two runs, and  *)
(* the event log.                                                          *)
(***************************************************************************)

(***************************************************************************)
(* The bookkeeping of scheduled callbacks.                                 *)
(***************************************************************************)
(***************************************************************************)
(* No callback is scheduled between two runs.                              *)
(***************************************************************************)
Quiet == pc \in {"idle", "discard"} => scheduled_callbacks = Nothing

Finite == \A t \in Transition : IsFiniteSet(InFlight(t))

Books == ScheduledMatchesInFlight /\ Finite /\ Quiet

(***************************************************************************)
(* The ways in which a step touches scheduled_callbacks or a closure.      *)
(***************************************************************************)
LEMMA ScheduleEffect ==
    ASSUME [Next]_vars, TypeOK
    PROVE  \/ UNCHANGED <<scheduled_callbacks, closure>>
           \/ FireStart
           \/ \E t \in Transition : fireAsynchronous(t)
           \/ \E p \in Producer : Dequeue(p) /\ ApplyResult(Front(p))
<1> DEFINE Goal == \/ UNCHANGED <<scheduled_callbacks, closure>>
                   \/ FireStart
                   \/ \E t \in Transition : fireAsynchronous(t)
                   \/ \E p \in Producer : Dequeue(p) /\ ApplyResult(Front(p))
<1>1. CASE UNCHANGED vars
    BY <1>1 DEF vars, netVars, poolVars
<1>2. ASSUME NEW p \in Producer,
             Discard(p) \/ WaitDequeue(p) \/ BatchDequeue(p) \/ DrainDequeue(p)
      PROVE  Goal
    <2>1. CASE Discard(p)
        BY <2>1 DEF Discard, netVars, poolVars
    <2>2. CASE RunReducer(p)
        <3> DEFINE r == Front(p)
        <3>1. Dequeue(p) /\ Apply(r)
            BY <2>2 DEF RunReducer
        <3>2. r \in Reducer
            BY <3>1, DequeueFacts DEF TypeOK
        <3> HIDE DEF r
        <3>3. CASE ApplyTrigger(r)
            BY <3>2, <3>3, ReducerFields DEF ApplyTrigger
        <3>4. CASE ApplyResult(r)
            BY <3>1, <3>4 DEF r
        <3>5. CASE UNCHANGED <<scheduled_callbacks, closure>>
            BY <3>5
        <3>6. QED
            BY <3>1, <3>3, <3>4, <3>5
               DEF Apply, ApplyNoop, ApplyCancel, ApplyPause, ApplyResume,
                   ApplyGet, ApplyStarted, netVars, poolVars
    <2>3. QED
        BY <1>2, <2>1, <2>2 DEF WaitDequeue, BatchDequeue, DrainDequeue
<1>3. ASSUME NEW t \in Transition, FireFrontAsync(t)
      PROVE  Goal
    BY <1>3 DEF FireFrontAsync
<1>4. CASE \/ EnqueueNoop \/ BatchDone \/ DropFront \/ FireDone \/ LeaveLoop
           \/ FireReturn
           \/ \E t \in Transition : \E res \in Returns[t] : FireFrontSync(t, res)
    BY <1>4 DEF EnqueueNoop, BatchDone, DropFront, FireDone, LeaveLoop, FireReturn,
                FireFrontSync, netVars, poolVars
<1>5. ASSUME NEW w \in Worker, WorkerStep(w)
      PROVE  Goal
    BY <1>5 DEF WorkerStep, TakeTask, ReportStart, ReportResult, netVars, poolVars
<1>6. ASSUME NEW c \in Client, ClientCall(c) \/ ClientStep(c)
      PROVE  Goal
    BY <1>6 DEF ClientCall, ClientStep, Controls, LoadThreadId, EnqueueRequest,
                ReadUnlocked, netVars, poolVars
<1>7. QED
    BY <1>1, <1>2, <1>3, <1>4, <1>5, <1>6 DEF Next, LoopStep

LEMMA QuietStep ==
    ASSUME [Next]_vars, Quiet
    PROVE  Quiet'
<1>1. CASE UNCHANGED <<pc, scheduled_callbacks>>
    BY <1>1 DEF Quiet, Nothing
<1>2. CASE FireStart
    BY <1>2 DEF FireStart, Quiet, Nothing
<1>3. ASSUME NEW p \in Producer,
             WaitDequeue(p) \/ BatchDequeue(p) \/ DrainDequeue(p)
      PROVE  Quiet'
    BY <1>3 DEF WaitDequeue, BatchDequeue, DrainDequeue, Quiet
<1>4. ASSUME NEW p \in Producer, Discard(p)
      PROVE  Quiet'
    BY <1>1, <1>4 DEF Discard, loopVars, netVars
<1>5. CASE EnqueueNoop \/ BatchDone \/ DropFront \/ FireDone \/ LeaveLoop
    BY <1>5 DEF EnqueueNoop, BatchDone, DropFront, FireDone, LeaveLoop, Quiet
<1>6. ASSUME NEW t \in Transition,
             FireFrontAsync(t) \/ \E res \in Returns[t] : FireFrontSync(t, res)
      PROVE  Quiet'
    BY <1>6 DEF FireFrontAsync, FireFrontSync, Quiet
<1>7. CASE FireReturn
    BY <1>7 DEF FireReturn, netVars, Quiet, Nothing
<1>8. ASSUME NEW w \in Worker, WorkerStep(w)
      PROVE  Quiet'
    BY <1>1, <1>8 DEF WorkerStep, TakeTask, ReportStart, ReportResult, loopVars, netVars
<1>9. ASSUME NEW c \in Client, ClientCall(c) \/ ClientStep(c)
      PROVE  Quiet'
    BY <1>1, <1>9 DEF ClientCall, ClientStep, Controls, LoadThreadId, EnqueueRequest,
                      ReadUnlocked, loopVars, netVars
<1>10. CASE UNCHANGED vars
    BY <1>1, <1>10 DEF vars, loopVars, netVars
<1>11. QED
    BY <1>2, <1>3, <1>4, <1>5, <1>6, <1>7, <1>8, <1>9, <1>10 DEF Next, LoopStep

LEMMA BooksStep ==
    ASSUME [Next]_vars, TypeOK, TasksAreTracked, Books
    PROVE  Books'
<1> USE DEF Books
<1>1. Quiet'
    BY QuietStep
<1>2. CASE UNCHANGED <<scheduled_callbacks, closure>>
    BY <1>1, <1>2 DEF ScheduledMatchesInFlight, Finite, InFlight
<1>3. CASE FireStart
    <2>1. scheduled_callbacks = Nothing
        BY <1>3 DEF FireStart, Quiet
    <2>2. UNCHANGED <<scheduled_callbacks, closure>>
        BY <1>3, <2>1 DEF FireStart, poolVars
    <2>3. QED
        BY <1>2, <2>2
<1>4. ASSUME NEW t \in Transition, fireAsynchronous(t)
      PROVE  Books'
    <2>1. PICK j \in Job : /\ closure[j] = NoTransition
                           /\ closure' = [closure EXCEPT ![j] = t]
        BY <1>4, ScheduleFacts
    <2>2. scheduled_callbacks' =
            [scheduled_callbacks EXCEPT ![t] = scheduled_callbacks[t] + 1]
        BY <1>4 DEF fireAsynchronous
    <2>3. j \notin InFlight(t)
        BY <2>1, PetriAssumption DEF InFlight
    <2>4. InFlight(t)' = InFlight(t) \cup {j}
        BY <2>1 DEF InFlight, TypeOK
    <2>5. \A u \in Transition \ {t} : InFlight(u)' = InFlight(u)
        BY <2>1, PetriAssumption DEF InFlight, TypeOK
    <2>6. IsFiniteSet(InFlight(t)) /\ scheduled_callbacks[t] = Cardinality(InFlight(t))
        BY DEF Finite, ScheduledMatchesInFlight
    <2>7. /\ IsFiniteSet(InFlight(t) \cup {j})
          /\ Cardinality(InFlight(t) \cup {j}) = Cardinality(InFlight(t)) + 1
        BY <2>3, <2>6, FS_AddElement
    <2>8. Finite'
        BY <2>4, <2>5, <2>7 DEF Finite
    <2>9. ASSUME NEW u \in Transition
          PROVE  scheduled_callbacks'[u] = Cardinality(InFlight(u))'
        <3>1. CASE u = t
            BY <2>2, <2>4, <2>6, <2>7, <3>1 DEF TypeOK
        <3>2. CASE u # t
            BY <2>2, <2>5, <3>2 DEF TypeOK, ScheduledMatchesInFlight
        <3>3. QED
            BY <3>1, <3>2
    <2>10. QED
        BY <1>1, <2>8, <2>9 DEF ScheduledMatchesInFlight
<1>5. ASSUME NEW p \in Producer, Dequeue(p), ApplyResult(Front(p))
      PROVE  Books'
    <2> DEFINE j == Front(p).job
               t == closure[j]
    <2>1. /\ Front(p) = reducer_queue[p][1] /\ 1 \in Index(p)
          /\ Front(p) \in Reducer
        BY <1>5, DequeueFacts DEF TypeOK, Index
    <2>2. IsResult(p, 1) /\ JobAt(p, 1) = j
        BY <1>5, <2>1 DEF ApplyResult, IsResult, JobAt
    <2>3. j \in Job /\ t \in Transition
        BY <1>5, <2>1, <2>2, ReducerFields DEF ApplyResult, TasksAreTracked, TaskReducers
    <2>4. j \in InFlight(t)
        BY <2>3 DEF InFlight
    <2>5. closure' = [closure EXCEPT ![j] = NoTransition]
        BY <1>5 DEF ApplyResult
    <2>6. IsFiniteSet(InFlight(t)) /\ scheduled_callbacks[t] = Cardinality(InFlight(t))
        BY <2>3 DEF Finite, ScheduledMatchesInFlight
    <2>7. /\ IsFiniteSet(InFlight(t) \ {j})
          /\ Cardinality(InFlight(t) \ {j}) = Cardinality(InFlight(t)) - 1
        BY <2>4, <2>6, FS_RemoveElement
    <2>8. Cardinality(InFlight(t) \ {j}) \in Nat /\ scheduled_callbacks[t] \in Nat
        BY <2>3, <2>7, FS_CardinalityType DEF TypeOK
    <2>9. scheduled_callbacks[t] > 0
        BY <2>6, <2>7, <2>8
    <2>10. scheduled_callbacks' =
            [scheduled_callbacks EXCEPT ![t] = scheduled_callbacks[t] - 1]
        BY <1>5, <2>9 DEF ApplyResult
    <2>11. \A u \in Transition :
            InFlight(u)' = IF u = t THEN InFlight(t) \ {j} ELSE InFlight(u)
        BY <2>3, <2>5, PetriAssumption DEF InFlight, TypeOK
    <2> HIDE DEF t, j
    <2>12. Finite'
        BY <2>7, <2>11 DEF Finite
    <2>13. ASSUME NEW u \in Transition
           PROVE  scheduled_callbacks'[u] = Cardinality(InFlight(u))'
        <3>1. CASE u = t
            BY <2>3, <2>6, <2>7, <2>10, <2>11, <3>1 DEF TypeOK
        <3>2. CASE u # t
            BY <2>3, <2>10, <2>11, <3>2 DEF TypeOK, ScheduledMatchesInFlight
        <3>3. QED
            BY <3>1, <3>2
    <2>14. QED
        BY <1>1, <2>12, <2>13 DEF ScheduledMatchesInFlight
<1>6. QED
    BY <1>2, <1>3, <1>4, <1>5, ScheduleEffect

LEMMA BooksInit == Init => Books
<1> SUFFICES ASSUME Init PROVE Books
    OBVIOUS
<1>1. \A t \in Transition : InFlight(t) = {}
    BY PetriAssumption DEF Init, InFlight
<1>2. \A t \in Transition : IsFiniteSet(InFlight(t)) /\ Cardinality(InFlight(t)) = 0
    BY <1>1, FS_EmptySet
<1>3. QED
    BY <1>2 DEF Init, Books, ScheduledMatchesInFlight, Finite, Quiet, Nothing

LEMMA BooksAlways == Spec => [](Tracked /\ Books)
<1>1. Init => Tracked /\ Books
    BY InitType, InitTracked, BooksInit DEF Tracked
<1>2. Tracked /\ Books /\ [Next]_vars => (Tracked /\ Books)'
    BY StepTracked, BooksStep DEF Tracked
<1>3. QED
    BY <1>1, <1>2, PTL DEF Spec

(***************************************************************************)
(* The entries of `scheduled_callbacks' are exactly the closures that have *)
(* been pushed and whose result reducer has not been applied.              *)
(***************************************************************************)
THEOREM ScheduledIsInFlight == Spec => []ScheduledMatchesInFlight
<1>1. Tracked /\ Books => ScheduledMatchesInFlight
    BY DEF Books
<1>2. QED
    BY <1>1, BooksAlways, PTL

(***************************************************************************)
(* With nothing scheduled no closure exists, and everything that is        *)
(* tracked stands for a closure.                                           *)
(***************************************************************************)
LEMMA QuietLeavesNothing ==
    ASSUME TypeOK, TasksAreTracked, Books
    PROVE  NothingLeftBehind
<1> SUFFICES ASSUME pc \in {"idle", "discard"}
             PROVE  /\ \A j \in Job : closure[j] = NoTransition
                    /\ pool_queue = <<>>
                    /\ \A w \in Worker : wpc[w] = "idle"
                    /\ \A p \in Producer : \A i \in DOMAIN reducer_queue[p] :
                        reducer_queue[p][i].kind \notin {"started", "result"}
    BY DEF NothingLeftBehind
<1>1. \A t \in Transition : IsFiniteSet(InFlight(t)) /\ Cardinality(InFlight(t)) = 0
    BY DEF Books, Quiet, ScheduledMatchesInFlight, Finite, Nothing
<1>2. \A t \in Transition : InFlight(t) = {}
    BY <1>1, FS_EmptySet
<1>3. \A j \in Job : closure[j] \notin Transition
    BY <1>2 DEF InFlight
<1>4. \A j \in Job : closure[j] = NoTransition
    BY <1>3 DEF TypeOK
<1>5. pool_queue = <<>>
    <2>1. \A i \in 1 .. Len(pool_queue) : pool_queue[i] \in Job
        BY ElementOfSeq DEF TypeOK
    <2>2. \A i \in 1 .. Len(pool_queue) : FALSE
        BY <1>3, <2>1 DEF TasksAreTracked, PoolTasks
    <2>3. pool_queue \in Seq(Job) /\ Len(pool_queue) \in Nat
        BY LenProperties DEF TypeOK
    <2>4. Len(pool_queue) = 0
        BY <2>2, <2>3
    <2>5. QED
        BY <2>3, <2>4, EmptySeq
<1>6. ASSUME NEW w \in Worker
      PROVE  wpc[w] = "idle"
    BY <1>3 DEF TasksAreTracked, WorkerTasks, Busy
<1>7. ASSUME NEW p \in Producer, NEW i \in DOMAIN reducer_queue[p]
      PROVE  reducer_queue[p][i].kind \notin {"started", "result"}
    <2>1. reducer_queue[p] \in Seq(Reducer)
        BY DEF TypeOK
    <2>2. i \in Index(p) /\ reducer_queue[p][i] \in Reducer
        BY <2>1, LenProperties, ElementOfSeq DEF Index
    <2>3. IsStarted(p, i) \/ IsResult(p, i) => JobAt(p, i) \in Job
        BY <2>2, ReducerFields DEF IsStarted, IsResult, JobAt
    <2>4. ~(IsStarted(p, i) \/ IsResult(p, i))
        BY <1>3, <2>2, <2>3 DEF TasksAreTracked, TaskReducers
    <2>5. QED
        BY <2>4 DEF IsStarted, IsResult
<1>8. QED
    BY <1>4, <1>5, <1>6, <1>7

(***************************************************************************)
(* Between two runs of `fire' no task, busy worker, start or result is     *)
(* left, so that what a new run throws away or clears belongs to nobody.   *)
(***************************************************************************)
THEOREM NothingIsLeftBehind == Spec => []NothingLeftBehind
<1>1. Tracked /\ Books => NothingLeftBehind
    BY QuietLeavesNothing DEF Tracked
<1>2. QED
    BY <1>1, BooksAlways, PTL

-----------------------------------------------------------------------------
(***************************************************************************)
(* The event log.  The start of a task is still to be logged while the     *)
(* task waits in the pool, while the worker that took it has not reported  *)
(* yet, and while its report is in the queue.                              *)
(***************************************************************************)
Taken(j) == \E w \in Worker : wpc[w] = "taken" /\ wjob[w] = j

Reported(j) == \E p \in Producer : \E i \in Index(p) : IsStarted(p, i) /\ JobAt(p, i) = j

Due == {j \in Job : Waits(j) \/ Taken(j) \/ Reported(j)}

Begun(t) == InFlight(t) \ Due

(***************************************************************************)
(* A start is reported once, by the worker that took the task.             *)
(***************************************************************************)
StartsOnce ==
    /\ \A p, q \in Producer : \A i \in Index(p), k \in Index(q) :
        IsStarted(p, i) /\ IsStarted(q, k) /\ JobAt(p, i) = JobAt(q, k)
            => p = q /\ i = k
    /\ \A w \in Worker : wpc[w] = "taken" =>
        \A p \in Producer : \A i \in Index(p) :
            IsStarted(p, i) => JobAt(p, i) # wjob[w]

(***************************************************************************)
(* What has started and not ended is what has begun; what was scheduled    *)
(* and has not ended is what is active.                                    *)
(***************************************************************************)
LogBalances ==
    \A t \in Transition :
        /\ log[t]["Started"] = log[t]["End"] + Cardinality(Begun(t))
        /\ t \notin Synchronous =>
            log[t]["Scheduled"] = log[t]["End"] + scheduled_callbacks[t]

LogBooks == StartsOnce /\ LogBalances

LEMMA LoggedFacts ==
    ASSUME NEW l \in [Transition -> [Event -> Nat]],
           NEW t \in Transition, NEW e \in Event
    PROVE  \A u \in Transition : \A f \in Event :
            Logged(l, t, e)[u][f] = l[u][f] + (IF u = t /\ f = e THEN 1 ELSE 0)
<1> TAKE u \in Transition
<1> TAKE f \in Event
<1>1. l[u] \in [Event -> Nat]
    OBVIOUS
<1>2. Logged(l, t, e)[u] = IF u = t THEN [l[u] EXCEPT ![e] = l[u][e] + 1] ELSE l[u]
    BY DEF Logged
<1>3. l[u][f] \in Nat
    BY <1>1
<1>4. QED
    BY <1>1, <1>2, <1>3

(***************************************************************************)
(* Each kind of step keeps StartsOnce, and leaves due what was due.        *)
(***************************************************************************)
LEMMA SameQueuesStarts ==
    ASSUME StartsOnce, UNCHANGED <<reducer_queue, pool_queue, wpc, wjob>>
    PROVE  StartsOnce' /\ UNCHANGED Due
BY DEF StartsOnce, Due, Waits, Taken, Reported, Index, IsStarted, JobAt

LEMMA DequeueStarts ==
    ASSUME TypeOK, StartsOnce, NEW p \in Producer, Dequeue(p),
           UNCHANGED <<wpc, wjob>>
    PROVE  /\ StartsOnce'
           /\ \A q \in Producer : \A i \in Index(q)' : \E k \in Index(q) :
                /\ reducer_queue'[q][i] = reducer_queue[q][k]
                /\ ~(q = p /\ k = 1)
           /\ \A q \in Producer : \A k \in Index(q) :
                (q = p /\ k = 1) \/ \E i \in Index(q)' :
                    reducer_queue'[q][i] = reducer_queue[q][k]
<1>1. \A q \in Producer : Len(reducer_queue[q]) \in Nat
    BY LenProperties DEF TypeOK
<1>2. /\ Len(reducer_queue'[p]) = Len(reducer_queue[p]) - 1
      /\ \A i \in 1 .. Len(reducer_queue[p]) - 1 :
            reducer_queue'[p][i] = reducer_queue[p][i + 1]
      /\ \A q \in Producer \ {p} : reducer_queue'[q] = reducer_queue[q]
    BY DequeueFacts DEF TypeOK
<1>3. PICK d \in [Producer -> Nat] : d[p] = 1 /\ Shifted(d)
    BY DequeueShift
<1>4. StartsOnce'
    <2> USE DEF Index, IsStarted, JobAt
    <2>1. ASSUME NEW q \in Producer, NEW s \in Producer,
                 NEW i \in Index(q)', NEW k \in Index(s)',
                 IsStarted(q, i)', IsStarted(s, k)', JobAt(q, i)' = JobAt(s, k)'
          PROVE  q = s /\ i = k
        <3> DEFINE m == i + d[q]
                   n == k + d[s]
        <3>1. m \in Index(q) /\ reducer_queue'[q][i] = reducer_queue[q][m]
            BY <1>3 DEF Shifted
        <3>2. n \in Index(s) /\ reducer_queue'[s][k] = reducer_queue[s][n]
            BY <1>3 DEF Shifted
        <3>3. q = s /\ m = n
            BY <2>1, <3>1, <3>2, SMTT(60), ZenonT(60) DEF StartsOnce
        <3>4. i \in Int /\ k \in Int /\ d[q] \in Nat
            OBVIOUS
        <3>5. QED
            BY <3>3, <3>4
    <2>2. ASSUME NEW w \in Worker, wpc[w] = "taken", NEW q \in Producer,
                 NEW i \in Index(q)', IsStarted(q, i)'
          PROVE  JobAt(q, i)' # wjob[w]
        <3>1. /\ i + d[q] \in Index(q)
              /\ reducer_queue'[q][i] = reducer_queue[q][i + d[q]]
            BY <1>3 DEF Shifted
        <3>2. IsStarted(q, i + d[q]) /\ JobAt(q, i + d[q]) = JobAt(q, i)'
            BY <2>2, <3>1
        <3>3. JobAt(q, i + d[q]) # wjob[w]
            BY <2>2, <3>1, <3>2 DEF StartsOnce
        <3>4. QED
            BY <3>2, <3>3
    <2>3. QED
        BY <2>1, <2>2 DEF StartsOnce
<1>5. ASSUME NEW q \in Producer, NEW i \in Index(q)'
      PROVE  \E k \in Index(q) : /\ reducer_queue'[q][i] = reducer_queue[q][k]
                                 /\ ~(q = p /\ k = 1)
    <2>1. i + d[q] \in Index(q) /\ reducer_queue'[q][i] = reducer_queue[q][i + d[q]]
        BY <1>3 DEF Shifted, Index
    <2>2. i \in Int /\ i >= 1
        BY DEF Index
    <2>3. ~(q = p /\ i + d[q] = 1)
        BY <1>3, <2>2
    <2>4. QED
        BY <2>1, <2>3
<1>6. ASSUME NEW q \in Producer, NEW k \in Index(q), ~(q = p /\ k = 1)
      PROVE  \E i \in Index(q)' : reducer_queue'[q][i] = reducer_queue[q][k]
    <2>1. CASE q # p
        BY <1>2, <2>1 DEF Index
    <2>2. CASE q = p
        <3>1. k - 1 \in 1 .. Len(reducer_queue[p]) - 1 /\ (k - 1) + 1 = k
            BY <1>1, <1>6, <2>2 DEF Index
        <3>2. k - 1 \in Index(q)' /\ reducer_queue'[q][k - 1] = reducer_queue[q][k]
            BY <1>2, <2>2, <3>1 DEF Index
        <3>3. QED
            BY <3>2
    <2>3. QED
        BY <2>1, <2>2
<1>7. QED
    BY <1>4, <1>5, <1>6

LEMMA DequeueSameDue ==
    ASSUME TypeOK, StartsOnce, NEW p \in Producer, Dequeue(p),
           Front(p).kind # "started",
           UNCHANGED <<pool_queue, wpc, wjob>>
    PROVE  UNCHANGED Due
<1>1. Front(p) = reducer_queue[p][1]
    BY DequeueFacts DEF TypeOK
<1>2. \A q \in Producer : \A i \in Index(q)' : \E k \in Index(q) :
        reducer_queue'[q][i] = reducer_queue[q][k]
    BY DequeueStarts
<1>3. \A q \in Producer : \A k \in Index(q) : IsStarted(q, k) =>
        \E i \in Index(q)' : reducer_queue'[q][i] = reducer_queue[q][k]
    BY <1>1, DequeueStarts DEF IsStarted
<1>4. ASSUME NEW j
      PROVE  Reported(j)' <=> Reported(j)
    BY <1>2, <1>3 DEF Reported, IsStarted, JobAt
<1>5. \A j : Waits(j)' <=> Waits(j)
    BY DEF Waits
<1>6. \A j : Taken(j)' <=> Taken(j)
    BY DEF Taken
<1>7. QED
    BY <1>4, <1>5, <1>6 DEF Due

LEMMA EnqueueStarts ==
    ASSUME TypeOK, StartsOnce, NEW p \in Producer, NEW r \in Reducer,
           r.kind # "started", Enqueue(p, r),
           UNCHANGED pool_queue,
           \A w \in Worker : wpc'[w] = "taken" <=> wpc[w] = "taken",
           \A w \in Worker : wpc[w] = "taken" => wjob'[w] = wjob[w]
    PROVE  StartsOnce' /\ UNCHANGED Due
<1>1. \A q \in Producer : Len(reducer_queue[q]) \in Nat
    BY LenProperties DEF TypeOK
<1>2. /\ Len(reducer_queue'[p]) = Len(reducer_queue[p]) + 1
      /\ \A i \in 1 .. Len(reducer_queue[p]) :
            reducer_queue'[p][i] = reducer_queue[p][i]
      /\ reducer_queue'[p][Len(reducer_queue[p]) + 1] = r
      /\ \A q \in Producer \ {p} : reducer_queue'[q] = reducer_queue[q]
    BY EnqueueFacts DEF TypeOK
<1>3. \A q \in Producer : \A i \in Index(q)' : IsStarted(q, i)' =>
        i \in Index(q) /\ reducer_queue'[q][i] = reducer_queue[q][i]
    <2> TAKE q \in Producer
    <2> TAKE i \in Index(q)'
    <2>1. CASE q = p /\ i = Len(reducer_queue[p]) + 1
        BY <1>2, <2>1 DEF IsStarted
    <2>2. CASE q = p /\ i # Len(reducer_queue[p]) + 1
        BY <1>1, <1>2, <2>2 DEF Index
    <2>3. CASE q # p
        BY <1>2, <2>3 DEF Index
    <2>4. QED
        BY <2>1, <2>2, <2>3
<1>4. \A q \in Producer : \A i \in Index(q) :
        i \in Index(q)' /\ reducer_queue'[q][i] = reducer_queue[q][i]
    BY <1>1, <1>2 DEF Index
<1>5. StartsOnce'
    BY <1>3 DEF StartsOnce, IsStarted, JobAt
<1>6. ASSUME NEW j
      PROVE  Reported(j)' <=> Reported(j)
    BY <1>3, <1>4 DEF Reported, IsStarted, JobAt
<1>7. \A j : Waits(j)' <=> Waits(j)
    BY DEF Waits
<1>8. \A j : Taken(j)' <=> Taken(j)
    BY DEF Taken
<1>9. QED
    BY <1>5, <1>6, <1>7, <1>8 DEF Due

LEMMA TakeStarts ==
    ASSUME TypeOK, TasksAreTracked, StartsOnce, NEW w \in Worker, TakeTask(w)
    PROVE  StartsOnce' /\ UNCHANGED Due
<1>1. /\ Len(pool_queue) \in Nat \ {0}
      /\ Len(pool_queue') = Len(pool_queue) - 1
      /\ \A i \in 1 .. Len(pool_queue) - 1 : pool_queue'[i] = pool_queue[i + 1]
      /\ Head(pool_queue) = pool_queue[1]
    BY TailFacts DEF TypeOK, TakeTask
<1> DEFINE h == pool_queue[1]
<1>2. /\ wpc' = [wpc EXCEPT ![w] = "taken"] /\ wjob' = [wjob EXCEPT ![w] = h]
      /\ wpc[w] = "idle"
      /\ UNCHANGED reducer_queue
    BY <1>1 DEF TakeTask
<1>3. \A v \in Worker : wpc'[v] = "taken" <=> v = w \/ wpc[v] = "taken"
    BY <1>2 DEF TypeOK
<1>4. wjob'[w] = h /\ \A v \in Worker \ {w} : wjob'[v] = wjob[v]
    BY <1>2 DEF TypeOK
<1>5. Waits(h)
    BY <1>1 DEF Waits
<1>6. \A p \in Producer : \A i \in Index(p) : IsStarted(p, i) => JobAt(p, i) # h
    BY <1>5 DEF TasksAreTracked, TaskReducers
<1>7. StartsOnce'
    BY <1>2, <1>3, <1>4, <1>6 DEF StartsOnce, Index, IsStarted, JobAt
<1>8. ASSUME NEW j
      PROVE  Waits(j) <=> Waits(j)' \/ j = h
    <2>1. ASSUME NEW i \in 1 .. Len(pool_queue), pool_queue[i] = j, j # h
          PROVE  Waits(j)'
        <3>1. i - 1 \in 1 .. Len(pool_queue) - 1 /\ (i - 1) + 1 = i
            BY <1>1, <2>1
        <3>2. i - 1 \in 1 .. Len(pool_queue') /\ pool_queue'[i - 1] = j
            BY <1>1, <2>1, <3>1
        <3>3. QED
            BY <3>2 DEF Waits
    <2>2. ASSUME NEW i \in 1 .. Len(pool_queue'), pool_queue'[i] = j
          PROVE  Waits(j)
        <3>1. i + 1 \in 1 .. Len(pool_queue) /\ pool_queue[i + 1] = j
            BY <1>1, <2>2
        <3>2. QED
            BY <3>1 DEF Waits
    <2>3. QED
        BY <1>5, <2>1, <2>2 DEF Waits
<1>9. ASSUME NEW j
      PROVE  Taken(j)' <=> j = h \/ Taken(j)
    BY <1>2, <1>3, <1>4 DEF Taken
<1>10. ASSUME NEW j
       PROVE  Reported(j)' <=> Reported(j)
    BY <1>2 DEF Reported, Index, IsStarted, JobAt
<1> HIDE DEF h
<1>11. QED
    BY <1>7, <1>8, <1>9, <1>10 DEF Due

LEMMA ReportStartStarts ==
    ASSUME TypeOK, TasksAreTracked, StartsOnce, NEW w \in Worker, ReportStart(w)
    PROVE  StartsOnce' /\ UNCHANGED Due
<1>0. w \in Producer
    BY DEF Producer
<1>1. PICK b \in Job : b = wjob[w] /\ wpc[w] = "taken"
    BY DEF ReportStart, TasksAreTracked, WorkerTasks, Busy
<1>2. /\ StartOf(b) \in Reducer
      /\ StartOf(b).kind = "started" /\ StartOf(b).job = b
    BY <1>1, TaskReducerKinds
<1>3. \A q \in Producer : Len(reducer_queue[q]) \in Nat
    BY LenProperties DEF TypeOK
<1> PICK n \in Nat : n = Len(reducer_queue[w]) + 1
    BY <1>0, <1>3
<1>4. /\ Len(reducer_queue'[w]) = n
      /\ \A i \in 1 .. Len(reducer_queue[w]) :
            reducer_queue'[w][i] = reducer_queue[w][i]
      /\ reducer_queue'[w][n] = StartOf(b)
      /\ \A q \in Producer \ {w} : reducer_queue'[q] = reducer_queue[q]
    BY <1>0, <1>1, <1>2, EnqueueFacts DEF TypeOK, ReportStart
<1>5. \A q \in Producer : \A i \in Index(q)' :
        \/ q = w /\ i = n
        \/ i \in Index(q) /\ reducer_queue'[q][i] = reducer_queue[q][i]
    BY <1>0, <1>3, <1>4 DEF Index
<1>6. \A q \in Producer : \A i \in Index(q) :
        i \in Index(q)' /\ reducer_queue'[q][i] = reducer_queue[q][i]
    BY <1>0, <1>3, <1>4 DEF Index
<1>7. n \in Index(w)' /\ reducer_queue'[w][n].kind = "started"
                      /\ reducer_queue'[w][n].job = b
    BY <1>0, <1>2, <1>3, <1>4 DEF Index
<1>8. /\ wpc' = [wpc EXCEPT ![w] = "running"]
      /\ UNCHANGED <<wjob, pool_queue>>
    BY DEF ReportStart, poolVars
<1>9. \A v \in Worker : wpc'[v] = "taken" <=> v # w /\ wpc[v] = "taken"
    BY <1>8 DEF TypeOK
<1>10. \A q \in Producer : \A i \in Index(q) : IsStarted(q, i) => JobAt(q, i) # b
    BY <1>1 DEF StartsOnce
<1>11. \A v \in Worker : v # w /\ wpc[v] = "taken" => wjob[v] # b
    BY <1>1 DEF TasksAreTracked, WorkerTasks, Busy
<1>12. StartsOnce'
    <2>1. ASSUME NEW q \in Producer, NEW s \in Producer,
                 NEW i \in Index(q)', NEW k \in Index(s)',
                 IsStarted(q, i)', IsStarted(s, k)', JobAt(q, i)' = JobAt(s, k)'
          PROVE  q = s /\ i = k
        <3>1. CASE /\ i \in Index(q) /\ reducer_queue'[q][i] = reducer_queue[q][i]
                   /\ k \in Index(s) /\ reducer_queue'[s][k] = reducer_queue[s][k]
            BY <2>1, <3>1 DEF StartsOnce, IsStarted, JobAt
        <3>2. CASE /\ q = w /\ i = n
                   /\ k \in Index(s) /\ reducer_queue'[s][k] = reducer_queue[s][k]
            BY <1>7, <1>10, <2>1, <3>2 DEF IsStarted, JobAt
        <3>3. CASE /\ s = w /\ k = n
                   /\ i \in Index(q) /\ reducer_queue'[q][i] = reducer_queue[q][i]
            BY <1>7, <1>10, <2>1, <3>3 DEF IsStarted, JobAt
        <3>4. QED
            BY <1>5, <3>1, <3>2, <3>3
    <2>2. ASSUME NEW v \in Worker, wpc'[v] = "taken", NEW q \in Producer,
                 NEW i \in Index(q)', IsStarted(q, i)'
          PROVE  JobAt(q, i)' # wjob'[v]
        <3>1. v # w /\ wpc[v] = "taken" /\ wjob'[v] = wjob[v]
            BY <1>8, <1>9, <2>2
        <3>2. CASE q = w /\ i = n
            BY <1>7, <1>11, <3>1, <3>2 DEF JobAt
        <3>3. CASE i \in Index(q) /\ reducer_queue'[q][i] = reducer_queue[q][i]
            BY <2>2, <3>1, <3>3 DEF StartsOnce, IsStarted, JobAt
        <3>4. QED
            BY <1>5, <3>2, <3>3
    <2>3. QED
        BY <2>1, <2>2 DEF StartsOnce
<1>13. \A j : Waits(j)' <=> Waits(j)
    BY <1>8 DEF Waits
<1>14. ASSUME NEW j
       PROVE  Taken(j) <=> j = b \/ Taken(j)'
    BY <1>1, <1>8, <1>9 DEF Taken
<1>15. ASSUME NEW j
       PROVE  Reported(j)' <=> j = b \/ Reported(j)
    <2>1. ASSUME NEW q \in Producer, NEW i \in Index(q)',
                 IsStarted(q, i)', JobAt(q, i)' = j
          PROVE  j = b \/ Reported(j)
        <3>1. CASE q = w /\ i = n
            BY <1>7, <2>1, <3>1 DEF JobAt
        <3>2. CASE i \in Index(q) /\ reducer_queue'[q][i] = reducer_queue[q][i]
            BY <2>1, <3>2 DEF Reported, IsStarted, JobAt
        <3>3. QED
            BY <1>5, <3>1, <3>2
    <2>2. ASSUME NEW q \in Producer, NEW i \in Index(q), IsStarted(q, i), JobAt(q, i) = j
          PROVE  i \in Index(q)' /\ IsStarted(q, i)' /\ JobAt(q, i)' = j
        BY <1>6, <2>2 DEF IsStarted, JobAt
    <2>3. n \in Index(w)' /\ IsStarted(w, n)' /\ JobAt(w, n)' = b
        BY <1>7 DEF IsStarted, JobAt
    <2>4. QED
        BY <1>0, <2>1, <2>2, <2>3 DEF Reported
<1>16. QED
    BY <1>12, <1>13, <1>14, <1>15 DEF Due

(***************************************************************************)
(* The log after a step that leaves due what was due and counts as many    *)
(* starts as ends.                                                         *)
(***************************************************************************)
LEMMA KeepsBalance ==
    ASSUME LogBalances, UNCHANGED <<Due, closure, scheduled_callbacks>>,
           \A t \in Transition : \A e \in {"Started", "End", "Scheduled"} :
            log'[t][e] = log[t][e]
    PROVE  LogBalances'
<1>1. ASSUME NEW t \in Transition
      PROVE  /\ log'[t]["Started"] = log'[t]["End"] + Cardinality(Begun(t))'
             /\ t \notin Synchronous =>
                log'[t]["Scheduled"] = log'[t]["End"] + scheduled_callbacks'[t]
    <2>1. Begun(t)' = Begun(t)
        BY DEF Begun, InFlight
    <2>2. QED
        BY <2>1 DEF LogBalances
<1>2. QED
    BY <1>1 DEF LogBalances

(***************************************************************************)
(* A new task is due to start, under a name that was free.                 *)
(***************************************************************************)
LEMMA ScheduleBalance ==
    ASSUME TypeOK, Books, LogBalances, NEW t \in Transition, fireAsynchronous(t),
           UNCHANGED <<wpc, wjob>>, \A j : Reported(j)' <=> Reported(j)
    PROVE  LogBalances'
<1>1. PICK j \in Job : /\ closure[j] = NoTransition
                       /\ closure' = [closure EXCEPT ![j] = t]
                       /\ pool_queue' = Append(pool_queue, j)
    BY ScheduleFacts
<1>2. \A u \in Transition :
        /\ j \notin InFlight(u)
        /\ InFlight(u)' = IF u = t THEN InFlight(u) \cup {j} ELSE InFlight(u)
    BY <1>1, PetriAssumption DEF InFlight, TypeOK
<1>3. Due' = Due \cup {j}
    <2>1. /\ Len(pool_queue) \in Nat
          /\ Len(pool_queue') = Len(pool_queue) + 1
          /\ \A i \in 1 .. Len(pool_queue) : pool_queue'[i] = pool_queue[i]
          /\ pool_queue'[Len(pool_queue) + 1] = j
        BY <1>1, AppendProperties, LenProperties DEF TypeOK
    <2>2. ASSUME NEW k
          PROVE  Waits(k)' <=> Waits(k) \/ k = j
        BY <2>1 DEF Waits
    <2>3. \A k : Taken(k)' <=> Taken(k)
        BY DEF Taken
    <2>4. QED
        BY <1>1, <2>2, <2>3 DEF Due
<1>4. \A u \in Transition \ {t} : UNCHANGED Begun(u)
    BY <1>2, <1>3 DEF Begun
<1>5. UNCHANGED Begun(t)
    BY <1>2, <1>3 DEF Begun
<1>6. log' = Logged(log, t, "Scheduled") /\ log \in [Transition -> [Event -> Nat]]
    BY DEF fireAsynchronous, TypeOK
<1>7. ASSUME NEW u \in Transition
      PROVE  /\ log'[u]["Started"] = log[u]["Started"]
             /\ log'[u]["End"] = log[u]["End"]
             /\ log'[u]["Scheduled"] = log[u]["Scheduled"] + (IF u = t THEN 1 ELSE 0)
             /\ scheduled_callbacks'[u] = scheduled_callbacks[u] + (IF u = t THEN 1 ELSE 0)
             /\ log[u]["Started"] \in Nat /\ log[u]["End"] \in Nat
             /\ log[u]["Scheduled"] \in Nat /\ scheduled_callbacks[u] \in Nat
    <2>1. /\ log'[u]["Started"] = log[u]["Started"] + 0
          /\ log'[u]["End"] = log[u]["End"] + 0
          /\ log'[u]["Scheduled"] = log[u]["Scheduled"] + (IF u = t THEN 1 ELSE 0)
        BY <1>6, LoggedFacts DEF Event
    <2>2. log[u] \in [Event -> Nat] /\ scheduled_callbacks[u] \in Nat
        BY DEF TypeOK
    <2>3. scheduled_callbacks' =
            [scheduled_callbacks EXCEPT ![t] = scheduled_callbacks[t] + 1]
        BY DEF fireAsynchronous
    <2>4. scheduled_callbacks'[u] = scheduled_callbacks[u] + (IF u = t THEN 1 ELSE 0)
        BY <2>2, <2>3 DEF TypeOK
    <2>5. QED
        BY <2>1, <2>2, <2>4 DEF Event
<1>8. ASSUME NEW u \in Transition
      PROVE  /\ log'[u]["Started"] = log'[u]["End"] + Cardinality(Begun(u))'
             /\ u \notin Synchronous =>
                log'[u]["Scheduled"] = log'[u]["End"] + scheduled_callbacks'[u]
    <2>1. UNCHANGED Begun(u)
        BY <1>4, <1>5
    <2>2. /\ log[u]["Started"] = log[u]["End"] + Cardinality(Begun(u))
          /\ u \notin Synchronous =>
                log[u]["Scheduled"] = log[u]["End"] + scheduled_callbacks[u]
        BY DEF LogBalances
    <2>3. QED
        BY <1>7, <2>1, <2>2
<1>9. QED
    BY <1>8 DEF LogBalances

(***************************************************************************)
(* The start that is applied was due and is so no more.                    *)
(***************************************************************************)
LEMMA StartedBalance ==
    ASSUME TypeOK, TasksAreTracked, Books, StartsOnce, LogBalances,
           NEW p \in Producer, Dequeue(p), ApplyStarted(Front(p)),
           UNCHANGED <<wpc, wjob>>
    PROVE  LogBalances'
<1>1. /\ Front(p) = reducer_queue[p][1] /\ 1 \in Index(p)
      /\ Front(p) \in Reducer
    BY DequeueFacts DEF TypeOK, Index
<1>2. PICK j \in Job : Front(p).job = j
    BY <1>1, ReducerFields DEF ApplyStarted
<1>3. IsStarted(p, 1) /\ JobAt(p, 1) = j
    BY <1>1, <1>2 DEF ApplyStarted, IsStarted, JobAt
<1>4. PICK t \in Transition : closure[j] = t
    BY <1>1, <1>3 DEF TasksAreTracked, TaskReducers
<1>5. UNCHANGED <<scheduled_callbacks, closure, pool_queue>>
    BY DEF ApplyStarted, poolVars
<1>6. ~Waits(j) /\ ~Taken(j)
    BY <1>1, <1>3 DEF TasksAreTracked, TaskReducers, StartsOnce, Taken
<1>7. ASSUME NEW k
      PROVE  Reported(k) <=> Reported(k)' \/ k = j
    <2>1. ASSUME NEW q \in Producer, NEW i \in Index(q)',
                 IsStarted(q, i)', JobAt(q, i)' = k
          PROVE  Reported(k)
        BY <2>1, DequeueStarts DEF Reported, IsStarted, JobAt
    <2>2. ASSUME NEW q \in Producer, NEW i \in Index(q),
                 IsStarted(q, i), JobAt(q, i) = k, k # j
          PROVE  Reported(k)'
        <3>1. ~(q = p /\ i = 1)
            BY <1>3, <2>2
        <3>2. PICK m \in Index(q)' : reducer_queue'[q][m] = reducer_queue[q][i]
            BY <3>1, DequeueStarts
        <3>3. IsStarted(q, m)' /\ JobAt(q, m)' = k
            BY <2>2, <3>2 DEF IsStarted, JobAt
        <3>4. QED
            BY <3>3 DEF Reported
    <2>3. Reported(j)
        BY <1>1, <1>3 DEF Reported
    <2>4. QED
        BY <2>1, <2>2, <2>3 DEF Reported
<1>8. ~Reported(j)'
    <2> SUFFICES ASSUME NEW q \in Producer, NEW i \in Index(q)',
                        IsStarted(q, i)', JobAt(q, i)' = j
                 PROVE  FALSE
        BY DEF Reported
    <2>1. PICK k \in Index(q) : /\ reducer_queue'[q][i] = reducer_queue[q][k]
                                /\ ~(q = p /\ k = 1)
        BY DequeueStarts
    <2>2. IsStarted(q, k) /\ JobAt(q, k) = j
        BY <2>1 DEF IsStarted, JobAt
    <2>3. QED
        BY <1>1, <1>3, <2>1, <2>2 DEF StartsOnce
<1>9. j \in Due /\ Due' = Due \ {j}
    <2>1. \A k : (Taken(k)' <=> Taken(k)) /\ (Waits(k)' <=> Waits(k))
        BY <1>5 DEF Taken, Waits
    <2>2. Reported(j)
        BY <1>7
    <2>3. QED
        BY <1>6, <1>7, <1>8, <2>1, <2>2 DEF Due
<1>10. \A u \in Transition :
        Begun(u)' = IF u = t THEN Begun(u) \cup {j} ELSE Begun(u)
    BY <1>4, <1>5, <1>9 DEF Begun, InFlight
<1>11. j \notin Begun(t) /\ IsFiniteSet(Begun(t))
    BY <1>9, FS_Subset DEF Begun, Books, Finite
<1>12. /\ Cardinality(Begun(t) \cup {j}) = Cardinality(Begun(t)) + 1
       /\ Cardinality(Begun(t)) \in Nat
    BY <1>11, FS_AddElement, FS_CardinalityType
<1>13. log' = Logged(log, t, "Started") /\ log \in [Transition -> [Event -> Nat]]
    BY <1>2, <1>4 DEF ApplyStarted, TypeOK
<1>14. ASSUME NEW u \in Transition
       PROVE  /\ log'[u]["Started"] = log'[u]["End"] + Cardinality(Begun(u))'
              /\ u \notin Synchronous =>
                log'[u]["Scheduled"] = log'[u]["End"] + scheduled_callbacks'[u]
    <2>1. /\ log'[u]["Started"] = log[u]["Started"] + (IF u = t THEN 1 ELSE 0)
          /\ log'[u]["End"] = log[u]["End"] + 0
          /\ log'[u]["Scheduled"] = log[u]["Scheduled"] + 0
        BY <1>13, LoggedFacts DEF Event
    <2>2. log[u] \in [Event -> Nat]
        BY DEF TypeOK
    <2>3. log[u]["End"] \in Nat /\ log[u]["Scheduled"] \in Nat /\ log[u]["Started"] \in Nat
        BY <2>2 DEF Event
    <2>4. /\ log[u]["Started"] = log[u]["End"] + Cardinality(Begun(u))
          /\ u \notin Synchronous =>
                log[u]["Scheduled"] = log[u]["End"] + scheduled_callbacks[u]
        BY DEF LogBalances
    <2>5. CASE u = t
        <3>1. Begun(u)' = Begun(u) \cup {j}
            BY <1>10, <2>5
        <3>2. /\ Cardinality(Begun(u))' = Cardinality(Begun(u)) + 1
              /\ Cardinality(Begun(u)) \in Nat
            BY <1>12, <2>5, <3>1
        <3>3. QED
            BY <1>5, <2>1, <2>3, <2>4, <2>5, <3>2
    <2>6. CASE u # t
        BY <1>5, <1>10, <2>1, <2>3, <2>4, <2>6
    <2>7. QED
        BY <2>5, <2>6
<1>15. QED
    BY <1>14 DEF LogBalances

(***************************************************************************)
(* The result that is applied belongs to a task that has begun and is      *)
(* still scheduled.                                                        *)
(***************************************************************************)
LEMMA FrontResult ==
    ASSUME TypeOK, TasksAreTracked, Books,
           NEW p \in Producer, Dequeue(p), ApplyResult(Front(p))
    PROVE  /\ Front(p).job \in Job
           /\ closure[Front(p).job] \in Transition
           /\ scheduled_callbacks[closure[Front(p).job]] > 0
           /\ 1 \in Index(p) /\ IsResult(p, 1) /\ JobAt(p, 1) = Front(p).job
<1> DEFINE j == Front(p).job
           t == closure[j]
<1>1. 1 \in Index(p) /\ Front(p) = reducer_queue[p][1] /\ Front(p) \in Reducer
    BY DequeueFacts DEF TypeOK, Index
<1>2. IsResult(p, 1) /\ JobAt(p, 1) = j
    BY <1>1 DEF ApplyResult, IsResult, JobAt
<1>3. j \in Job /\ t \in Transition
    BY <1>1, <1>2, ReducerFields DEF ApplyResult, TasksAreTracked, TaskReducers
<1>4. j \in InFlight(t)
    BY <1>3 DEF InFlight
<1>5. IsFiniteSet(InFlight(t)) /\ scheduled_callbacks[t] = Cardinality(InFlight(t))
    BY <1>3 DEF Books, Finite, ScheduledMatchesInFlight
<1>6. scheduled_callbacks[t] \in Nat /\ Cardinality(InFlight(t)) # 0
    BY <1>3, <1>4, <1>5, FS_EmptySet DEF TypeOK
<1>7. QED
    BY <1>1, <1>2, <1>3, <1>5, <1>6

LEMMA ResultBalance ==
    ASSUME TypeOK, TasksAreTracked, Books, StartsOnce, LogBalances,
           NEW p \in Producer, Dequeue(p), ApplyResult(Front(p)),
           UNCHANGED <<wpc, wjob>>
    PROVE  LogBalances'
<1>1. PICK j \in Job : Front(p).job = j /\ IsResult(p, 1) /\ JobAt(p, 1) = j
    BY FrontResult
<1>2. PICK t \in Transition : closure[j] = t /\ scheduled_callbacks[t] > 0
    BY <1>1, FrontResult
<1>3. 1 \in Index(p) /\ Front(p).kind # "started"
    BY FrontResult DEF ApplyResult
<1>4. UNCHANGED Due
    BY <1>3, DequeueSameDue DEF ApplyResult
<1>5. j \notin Due
    <2>1. ~Waits(j)
        BY <1>1, <1>3 DEF TasksAreTracked, TaskReducers
    <2>2. ~Taken(j)
        BY <1>1, <1>3 DEF TasksAreTracked, TaskReducers, Taken, Busy, IsStarted, IsResult
    <2>3. ~Reported(j)
        <3> SUFFICES ASSUME NEW q \in Producer, NEW i \in Index(q),
                            IsStarted(q, i), JobAt(q, i) = j
                     PROVE  FALSE
            BY DEF Reported
        <3>1. q = p /\ i < 1
            BY <1>1, <1>3 DEF TasksAreTracked, ResultsInOrder
        <3>2. QED
            BY <3>1 DEF Index
    <2>4. QED
        BY <2>1, <2>2, <2>3 DEF Due
<1>6. /\ closure' = [closure EXCEPT ![j] = NoTransition]
      /\ scheduled_callbacks' =
            [scheduled_callbacks EXCEPT ![t] = scheduled_callbacks[t] - 1]
      /\ log' = Logged(log, t, "End")
    BY <1>1, <1>2 DEF ApplyResult
<1>7. \A u \in Transition :
        InFlight(u)' = IF u = t THEN InFlight(u) \ {j} ELSE InFlight(u)
    BY <1>2, <1>6, PetriAssumption DEF InFlight, TypeOK
<1>8. j \in Begun(t)
    BY <1>2, <1>5 DEF Begun, InFlight
<1>9. IsFiniteSet(Begun(t))
    BY FS_Subset DEF Begun, Books, Finite
<1>10. /\ Cardinality(Begun(t) \ {j}) = Cardinality(Begun(t)) - 1
       /\ Cardinality(Begun(t)) \in Nat
    BY <1>8, <1>9, FS_RemoveElement, FS_CardinalityType
<1>11. log \in [Transition -> [Event -> Nat]]
    BY DEF TypeOK
<1>12. ASSUME NEW u \in Transition
       PROVE  /\ log'[u]["Started"] = log'[u]["End"] + Cardinality(Begun(u))'
              /\ u \notin Synchronous =>
                log'[u]["Scheduled"] = log'[u]["End"] + scheduled_callbacks'[u]
    <2>1. /\ log'[u]["Started"] = log[u]["Started"] + 0
          /\ log'[u]["End"] = log[u]["End"] + (IF u = t THEN 1 ELSE 0)
          /\ log'[u]["Scheduled"] = log[u]["Scheduled"] + 0
        BY <1>6, <1>11, LoggedFacts DEF Event
    <2>2. log[u] \in [Event -> Nat] /\ scheduled_callbacks[u] \in Nat
        BY DEF TypeOK
    <2>3. log[u]["End"] \in Nat /\ log[u]["Scheduled"] \in Nat /\ log[u]["Started"] \in Nat
        BY <2>2 DEF Event
    <2>4. /\ log[u]["Started"] = log[u]["End"] + Cardinality(Begun(u))
          /\ u \notin Synchronous =>
                log[u]["Scheduled"] = log[u]["End"] + scheduled_callbacks[u]
        BY DEF LogBalances
    <2>5. scheduled_callbacks'[u] = scheduled_callbacks[u] - (IF u = t THEN 1 ELSE 0)
        BY <1>6, <2>2 DEF TypeOK
    <2>6. CASE u = t
        <3>1. Begun(u)' = Begun(u) \ {j}
            BY <1>4, <1>7, <2>6 DEF Begun
        <3>2. /\ Cardinality(Begun(u))' = Cardinality(Begun(u)) - 1
              /\ Cardinality(Begun(u)) \in Nat
            BY <1>10, <2>6, <3>1
        <3>3. QED
            BY <2>1, <2>2, <2>3, <2>4, <2>5, <2>6, <3>2
    <2>7. CASE u # t
        <3>1. UNCHANGED Begun(u)
            BY <1>4, <1>7, <2>7 DEF Begun
        <3>2. QED
            BY <2>1, <2>2, <2>3, <2>4, <2>5, <2>7, <3>1
    <2>8. QED
        BY <2>6, <2>7
<1>13. QED
    BY <1>12 DEF LogBalances

LEMMA RunReducerLog ==
    ASSUME TypeOK, TasksAreTracked, Books, LogBooks, NEW p \in Producer, RunReducer(p)
    PROVE  LogBooks'
<1> DEFINE r == Front(p)
<1>1. Dequeue(p) /\ Apply(r) /\ UNCHANGED <<wpc, wjob>>
    BY DEF RunReducer, workerVars
<1>2. StartsOnce /\ LogBalances
    BY DEF LogBooks
<1>3. StartsOnce'
    BY <1>1, <1>2, DequeueStarts
<1>4. r \in Reducer
    BY <1>1, DequeueFacts DEF TypeOK
<1>5. CASE ApplyStarted(r)
    BY <1>1, <1>2, <1>3, <1>5, StartedBalance DEF LogBooks
<1>6. CASE ApplyResult(r)
    BY <1>1, <1>2, <1>3, <1>6, ResultBalance DEF LogBooks
<1>7. CASE ApplyTrigger(r)
    <2>1. r.t \in Transition /\ fireAsynchronous(r.t)
        BY <1>4, <1>7, ReducerFields DEF ApplyTrigger
    <2>2. r.kind # "started" /\ r = reducer_queue[p][1]
        BY <1>1, <1>7, DequeueFacts DEF ApplyTrigger, TypeOK
    <2>3. ASSUME NEW j
          PROVE  Reported(j)' <=> Reported(j)
        BY <1>1, <1>2, <2>2, DequeueStarts DEF Reported, IsStarted, JobAt
    <2> HIDE DEF r
    <2>4. QED
        BY <1>1, <1>2, <2>1, <2>3, <1>3, ScheduleBalance DEF LogBooks
<1>8. CASE ApplyNoop(r) \/ ApplyCancel(r) \/ ApplyPause(r) \/ ApplyResume(r) \/ ApplyGet(r)
    <2>1. r.kind # "started" /\ UNCHANGED <<pool_queue, closure, scheduled_callbacks>>
        BY <1>8 DEF ApplyNoop, ApplyCancel, ApplyPause, ApplyResume, ApplyGet,
                    netVars, poolVars
    <2>2. UNCHANGED Due
        BY <1>1, <1>2, <2>1, DequeueSameDue
    <2> HIDE DEF r
    <2>3. \A t \in Transition : \A e \in {"Started", "End", "Scheduled"} :
            log'[t][e] = log[t][e]
        <3>1. CASE ApplyCancel(r)
            <4> TAKE t \in Transition
            <4>1. log'[t] = [log[t] EXCEPT !["Cancel"] = @ + scheduled_callbacks[t]]
                BY <3>1 DEF ApplyCancel
            <4>2. log[t] \in [Event -> Nat]
                BY DEF TypeOK
            <4>3. QED
                BY <4>1, <4>2 DEF Event
        <3>2. CASE UNCHANGED log
            BY <3>2
        <3>3. QED
            BY <1>8, <3>1, <3>2 DEF ApplyNoop, ApplyPause, ApplyResume, ApplyGet, netVars
    <2>4. QED
        BY <1>2, <2>1, <2>2, <2>3, <1>3, KeepsBalance DEF LogBooks
<1> HIDE DEF r
<1>9. QED
    BY <1>1, <1>5, <1>6, <1>7, <1>8 DEF Apply

(***************************************************************************)
(* A synchronous firing logs a start and an end.                           *)
(***************************************************************************)
LEMMA FireSyncLog ==
    ASSUME TypeOK, Books, LogBooks, NEW t \in Transition, NEW res, FireFrontSync(t, res)
    PROVE  LogBooks'
<1>1. StartsOnce' /\ UNCHANGED <<Due, closure, scheduled_callbacks>>
    BY SameQueuesStarts DEF LogBooks, FireFrontSync, poolVars, workerVars
<1>2. t \in Synchronous /\ log' = Logged(Logged(log, t, "Started"), t, "End")
    BY DEF FireFrontSync
<1>3. /\ log \in [Transition -> [Event -> Nat]]
      /\ Logged(log, t, "Started") \in [Transition -> [Event -> Nat]]
    BY LoggedType DEF TypeOK, Event
<1>4. ASSUME NEW u \in Transition
      PROVE  /\ log'[u]["Started"] = log'[u]["End"] + Cardinality(Begun(u))'
             /\ u \notin Synchronous =>
                log'[u]["Scheduled"] = log'[u]["End"] + scheduled_callbacks'[u]
    <2>1. \A e \in Event :
            log'[u][e] = Logged(log, t, "Started")[u][e]
                            + (IF u = t /\ e = "End" THEN 1 ELSE 0)
        BY <1>2, <1>3, LoggedFacts DEF Event
    <2>2. \A e \in Event :
            Logged(log, t, "Started")[u][e] =
                log[u][e] + (IF u = t /\ e = "Started" THEN 1 ELSE 0)
        BY <1>3, LoggedFacts DEF Event
    <2>3. log[u] \in [Event -> Nat]
        BY <1>3
    <2>4. UNCHANGED Begun(u)
        BY <1>1 DEF Begun, InFlight
    <2>5. /\ log[u]["Started"] = log[u]["End"] + Cardinality(Begun(u))
          /\ u \notin Synchronous =>
                log[u]["Scheduled"] = log[u]["End"] + scheduled_callbacks[u]
        BY DEF LogBooks, LogBalances
    <2>6. /\ log'[u]["Started"] = log[u]["Started"] + (IF u = t THEN 1 ELSE 0)
          /\ log'[u]["End"] = log[u]["End"] + (IF u = t THEN 1 ELSE 0)
          /\ log'[u]["Scheduled"] = log[u]["Scheduled"]
          /\ log[u]["Started"] \in Nat /\ log[u]["End"] \in Nat
          /\ log[u]["Scheduled"] \in Nat
        BY <2>1, <2>2, <2>3 DEF Event
    <2>7. Cardinality(Begun(u)) \in Nat
        BY FS_Subset, FS_CardinalityType DEF Begun, Books, Finite
    <2>8. QED
        BY <1>1, <1>2, <2>4, <2>5, <2>6, <2>7
<1>5. QED
    BY <1>1, <1>4 DEF LogBooks, LogBalances

LEMMA SameLog ==
    ASSUME LogBooks, StartsOnce', UNCHANGED <<Due, closure, scheduled_callbacks, log>>
    PROVE  LogBooks'
BY KeepsBalance DEF LogBooks

LEMMA LogBooksStep ==
    ASSUME [Next]_vars, TypeOK, TasksAreTracked, Books, LogBooks
    PROVE  LogBooks'
<1> StartsOnce /\ LogBalances
    BY DEF LogBooks
<1>1. CASE UNCHANGED <<reducer_queue, pool_queue, wpc, wjob, closure,
                       scheduled_callbacks, log>>
    BY <1>1, SameQueuesStarts, SameLog
<1>2. CASE FireStart
    <2>1. scheduled_callbacks = Nothing
        BY <1>2 DEF FireStart, Books, Quiet
    <2>2. QED
        BY <1>1, <1>2, <2>1 DEF FireStart, poolVars, workerVars
<1>3. ASSUME NEW p \in Producer, Discard(p)
      PROVE  LogBooks'
    <2>1. /\ Dequeue(p) /\ pc = "discard"
          /\ UNCHANGED <<pool_queue, wpc, wjob, closure, scheduled_callbacks, log>>
        BY <1>3 DEF Discard, netVars, poolVars, workerVars
    <2>2. 1 \in DOMAIN reducer_queue[p] /\ Front(p) = reducer_queue[p][1]
        <3>1. reducer_queue[p] \in Seq(Reducer)
            BY DEF TypeOK
        <3>2. DOMAIN reducer_queue[p] = 1 .. Len(reducer_queue[p])
            BY <3>1, LenProperties
        <3>3. QED
            <4>1. /\ Front(p) = reducer_queue[p][1]
                  /\ Len(reducer_queue[p]) \in Nat \ {0}
                BY <2>1, DequeueFacts DEF TypeOK
            <4>2. QED
                BY <3>2, <4>1
    <2>3. Front(p).kind # "started"
        BY <2>1, <2>2, QuietLeavesNothing DEF NothingLeftBehind
    <2>4. StartsOnce' /\ UNCHANGED Due
        BY <2>1, <2>3, DequeueStarts, DequeueSameDue
    <2>5. QED
        BY <2>1, <2>4, SameLog
<1>4. ASSUME NEW p \in Producer,
             WaitDequeue(p) \/ BatchDequeue(p) \/ DrainDequeue(p)
      PROVE  LogBooks'
    BY <1>4, RunReducerLog DEF WaitDequeue, BatchDequeue, DrainDequeue
<1>5. ASSUME NEW p \in Producer, NEW r \in ClientReducer, Enqueue(p, r),
             UNCHANGED <<pool_queue, wpc, wjob, closure, scheduled_callbacks, log>>
      PROVE  LogBooks'
    <2>1. r \in Reducer /\ r.kind # "started"
        BY ClientReducerKinds
    <2>2. StartsOnce' /\ UNCHANGED Due
        BY <1>5, <2>1, EnqueueStarts
    <2>3. QED
        BY <1>5, <2>2, SameLog
<1>6. CASE EnqueueNoop
    BY <1>5, <1>6, ClientReducerKinds
       DEF EnqueueNoop, Producer, netVars, poolVars, workerVars
<1>7. CASE BatchDone \/ DropFront \/ FireDone \/ LeaveLoop \/ FireReturn
    BY <1>1, <1>7 DEF BatchDone, DropFront, FireDone, LeaveLoop, FireReturn,
                      netVars, poolVars, workerVars
<1>8. ASSUME NEW t \in Transition, FireFrontAsync(t)
      PROVE  LogBooks'
    <2>1. fireAsynchronous(t) /\ UNCHANGED <<reducer_queue, wpc, wjob>>
        BY <1>8 DEF FireFrontAsync, workerVars
    <2>2. ASSUME NEW j
          PROVE  Reported(j)' <=> Reported(j)
        BY <2>1 DEF Reported, Index, IsStarted, JobAt
    <2>3. LogBalances'
        BY <2>1, <2>2, ScheduleBalance
    <2>4. StartsOnce'
        BY <2>1 DEF StartsOnce, Index, IsStarted, JobAt
    <2>5. QED
        BY <2>3, <2>4 DEF LogBooks
<1>9. ASSUME NEW t \in Transition, NEW res \in Returns[t], FireFrontSync(t, res)
      PROVE  LogBooks'
    BY <1>9, FireSyncLog
<1>10. ASSUME NEW w \in Worker, TakeTask(w)
       PROVE  LogBooks'
    <2>1. UNCHANGED <<closure, scheduled_callbacks, log>>
        BY <1>10 DEF TakeTask, netVars
    <2>2. QED
        BY <1>10, <2>1, TakeStarts, SameLog
<1>11. ASSUME NEW w \in Worker, ReportStart(w)
       PROVE  LogBooks'
    <2>1. UNCHANGED <<closure, scheduled_callbacks, log>>
        BY <1>11 DEF ReportStart, netVars, poolVars
    <2>2. QED
        BY <1>11, <2>1, ReportStartStarts, SameLog
<1>12. ASSUME NEW w \in Worker, ReportResult(w)
       PROVE  LogBooks'
    <2>1. w \in Producer
        BY DEF Producer
    <2>2. wjob[w] \in Job /\ closure[wjob[w]] \in Transition
        BY <1>12 DEF ReportResult, TasksAreTracked, WorkerTasks, Busy
    <2>3. PICK res \in Returns[closure[wjob[w]]] : Enqueue(w, ResultOf(wjob[w], res))
        BY <1>12 DEF ReportResult
    <2>4. res \in Token
        BY <2>2, <2>3, StructureAssumption
    <2>5. ResultOf(wjob[w], res) \in Reducer /\ ResultOf(wjob[w], res).kind # "started"
        BY <2>2, <2>4, TaskReducerKinds
    <2>6. /\ \A v \in Worker : wpc'[v] = "taken" <=> wpc[v] = "taken"
          /\ \A v \in Worker : wpc[v] = "taken" => wjob'[v] = wjob[v]
          /\ UNCHANGED <<pool_queue, closure, scheduled_callbacks, log>>
        BY <1>12 DEF ReportResult, TypeOK, poolVars, netVars
    <2>7. StartsOnce' /\ UNCHANGED Due
        BY <2>1, <2>3, <2>5, <2>6, EnqueueStarts
    <2>8. QED
        BY <2>6, <2>7, SameLog
<1>13. ASSUME NEW c \in Client, ClientCall(c) \/ ClientStep(c)
       PROVE  LogBooks'
    <2>1. c \in Producer
        BY DEF Producer
    <2>2. CASE \E k \in {"cancel", "pause", "resume"} : Controls(c, k)
        BY <1>5, <2>1, <2>2, ClientReducerKinds
           DEF Controls, netVars, poolVars, workerVars
    <2>3. CASE EnqueueRequest(c)
        BY <1>5, <2>1, <2>3 DEF EnqueueRequest, TypeOK, netVars, poolVars, workerVars
    <2>4. ASSUME NEW r, LoadThreadId(c, r)
          PROVE  LogBooks'
        BY <1>1, <2>4 DEF LoadThreadId, netVars, poolVars, workerVars
    <2>5. CASE ReadUnlocked(c)
        BY <1>1, <2>5 DEF ReadUnlocked, netVars, poolVars, workerVars
    <2>6. QED
        BY <1>13, <2>2, <2>3, <2>4, <2>5 DEF ClientCall, ClientStep
<1>14. CASE UNCHANGED vars
    BY <1>1, <1>14 DEF vars, netVars, poolVars, workerVars
<1>15. QED
    BY <1>2, <1>3, <1>4, <1>6, <1>7, <1>8, <1>9, <1>10, <1>11, <1>12, <1>13, <1>14
       DEF Next, LoopStep, WorkerStep

LEMMA LogBooksInit == Init => LogBooks
<1> SUFFICES ASSUME Init PROVE LogBooks
    OBVIOUS
<1>1. \A p \in Producer : Index(p) = {}
    BY EmptySeq DEF Init, Index
<1>2. StartsOnce
    BY <1>1 DEF Init, StartsOnce
<1>3. ASSUME NEW t \in Transition
      PROVE  Begun(t) = {}
    BY PetriAssumption DEF Init, Begun, InFlight
<1>4. \A t \in Transition : Cardinality(Begun(t)) = 0
    BY <1>3, FS_EmptySet
<1>5. QED
    BY <1>2, <1>4 DEF Init, LogBooks, LogBalances, Event, Nothing

(***************************************************************************)
(* The event log tells the life cycle of every callback in order: no end   *)
(* without a start, no start of a scheduled callback that was not logged   *)
(* as scheduled, and the difference is what is active.  Over any number of *)
(* runs, whichever worker reports first.                                   *)
(***************************************************************************)
THEOREM LogTellsLifeCycle == Spec => []LogLifecycle
<1>1. Init => Tracked /\ Books /\ LogBooks
    BY InitType, InitTracked, BooksInit, LogBooksInit DEF Tracked
<1>2. Tracked /\ Books /\ LogBooks /\ [Next]_vars => (Tracked /\ Books /\ LogBooks)'
    BY StepTracked, BooksStep, LogBooksStep DEF Tracked
<1>3. Tracked /\ Books /\ LogBooks => LogLifecycle
    <2> SUFFICES ASSUME Tracked, Books, LogBooks, NEW t \in Transition
                 PROVE  /\ log[t]["End"] <= log[t]["Started"]
                        /\ t \notin Synchronous =>
                            /\ log[t]["Started"] <= log[t]["Scheduled"]
                            /\ log[t]["Scheduled"] = log[t]["End"] + scheduled_callbacks[t]
        BY DEF LogLifecycle
    <2>1. /\ log[t]["Started"] = log[t]["End"] + Cardinality(Begun(t))
          /\ t \notin Synchronous =>
                log[t]["Scheduled"] = log[t]["End"] + scheduled_callbacks[t]
        BY DEF LogBooks, LogBalances
    <2>2. log[t]["End"] \in Nat /\ scheduled_callbacks[t] \in Nat
        BY DEF Tracked, TypeOK, Event
    <2>3. scheduled_callbacks[t] = Cardinality(InFlight(t)) /\ IsFiniteSet(InFlight(t))
        BY DEF Books, ScheduledMatchesInFlight, Finite
    <2>4. Begun(t) \subseteq InFlight(t)
        BY DEF Begun
    <2>5. /\ Cardinality(Begun(t)) <= Cardinality(InFlight(t))
          /\ Cardinality(Begun(t)) \in Nat
        BY <2>3, <2>4, FS_Subset, FS_CardinalityType
    <2>6. QED
        BY <2>1, <2>2, <2>3, <2>5
<1>4. QED
    BY <1>1, <1>2, <1>3, PTL DEF Spec

-----------------------------------------------------------------------------
(***************************************************************************)
(* The firings. First the decisions of the loop: the candidate list covers *)
(* what is enabled and is sorted, hence priorities are respected, the loop *)
(* sleeps for a reason and Deadlocked means dead. Then the marking: the    *)
(* executor implements the token game of SymmetriNet.                      *)
(***************************************************************************)

Dead == \A t \in Transition : ~Enabled(t, tokens)

-----------------------------------------------------------------------------
(***************************************************************************)
(* Lemmas about enabledness.                                               *)
(***************************************************************************)
LEMMA HasInput ==
    ASSUME NEW t \in Transition, NEW m, Enabled(t, m)
    PROVE  \E a \in AugmentedToken : input_n[t][a] > 0
<1>1. input_n[t] \in [AugmentedToken -> Nat] /\ input_n[t] # EmptyMarking
    BY StructureAssumption DEF Enabled, canFire, Marking
<1>2. PICK a \in AugmentedToken : input_n[t][a] # 0
    BY <1>1 DEF EmptyMarking
<1>3. QED
    BY <1>1, <1>2

LEMMA InLookup ==
    ASSUME NEW t \in Transition, NEW a \in AugmentedToken, input_n[t][a] > 0
    PROVE  t \in p_to_ts_n(a[1])
<1>1. a[2] \in Token /\ a = <<a[1], a[2]>>
    BY DEF AugmentedToken
<1>2. QED
    BY <1>1 DEF p_to_ts_n

LEMMA EnabledIsCandidate ==
    ASSUME NEW t \in Transition, NEW m \in Marking, Enabled(t, m)
    PROVE  t \in possibleTransitions(m)
<1>1. PICK a \in AugmentedToken : input_n[t][a] > 0
    BY HasInput
<1>2. m[a] \in Nat /\ input_n[t][a] \in Nat /\ m[a] >= input_n[t][a]
    BY StructureAssumption DEF Enabled, canFire, Marking
<1>3. m[a] > 0
    BY <1>1, <1>2
<1>4. QED
    BY <1>1, <1>3, InLookup DEF possibleTransitions

LEMMA DeductEnablesNothing ==
    ASSUME NEW m \in Marking, NEW t \in Transition, NEW u \in Transition,
           Enabled(u, deductMarking(m, input_n[t]))
    PROVE  Enabled(u, m)
BY StructureAssumption DEF Enabled, canFire, deductMarking, Marking

LEMMA ProduceEnablesDownstream ==
    ASSUME NEW m \in Marking, NEW t \in Transition, NEW u \in Transition, NEW res,
           Enabled(u, produce(m, t, res)), ~Enabled(u, m)
    PROVE  u \in downstream(t)
<1>1. input_n[u] \in [AugmentedToken -> Nat] /\ m \in [AugmentedToken -> Nat]
    BY StructureAssumption DEF Marking
<1>2. PICK a \in AugmentedToken : ~(m[a] >= input_n[u][a])
    BY DEF Enabled, canFire
<1>3. produce(m, t, res)[a] >= input_n[u][a]
    BY DEF Enabled, canFire
<1>4. input_n[u][a] > 0
    BY <1>1, <1>2
<1>5. a[1] \in Place
    BY DEF AugmentedToken
<1>6. output_n[t][a[1]] \in Nat
    BY <1>5, StructureAssumption
<1>7. produce(m, t, res)[a] = m[a] + (IF a[2] = res THEN output_n[t][a[1]] ELSE 0)
    BY DEF produce
<1>8. output_n[t][a[1]] > 0
    BY <1>1, <1>2, <1>3, <1>6, <1>7
<1>9. QED
    BY <1>4, <1>5, <1>8, InLookup DEF downstream

-----------------------------------------------------------------------------
(***************************************************************************)
(* The invariant.                                                          *)
(***************************************************************************)
FiresWhenStarted == pc = "fire" => state = "Started"

Sorted ==
    pc = "fire" =>
        \A i, k \in 1 .. Len(ts) : i < k => priority[ts[i]] >= priority[ts[k]]

DeadlockStays ==
    state = "Deadlocked" =>
        pc \in {"wait", "drain", "idle"} /\ scheduled_callbacks = Nothing /\ Dead

Scheduling ==
    /\ FiresWhenStarted
    /\ Sorted
    /\ DeadlockStays
    /\ CandidatesCoverEnabled
    /\ SleepsForAReason

LEMMA SchedulingInit == Init => Scheduling
BY DEF Init, Scheduling, FiresWhenStarted, Sorted, DeadlockStays,
       CandidatesCoverEnabled, SleepsForAReason

(***************************************************************************)
(* No reducer declares a deadlock.                                         *)
(***************************************************************************)
LEMMA ReducersDeclareNothing ==
    ASSUME NEW p \in Producer, RunReducer(p)
    PROVE  state' \in {state, "Canceled", "Paused", "Started"}
BY DEF RunReducer, Apply, ApplyNoop, ApplyCancel, ApplyPause, ApplyResume,
       ApplyTrigger, ApplyGet, ApplyStarted, ApplyResult, netVars

(***************************************************************************)
(* The three steps of fireTransitions keep the candidate list complete and *)
(* sorted.                                                                 *)
(***************************************************************************)
LEMMA DropScheduling ==
    ASSUME TypeOK, Scheduling, DropFront
    PROVE  Scheduling'
<1>1. pc = "fire" /\ pc' = "fire" /\ state' = state /\ tokens' = tokens
    BY DEF DropFront, netVars
<1>2. /\ ts \in Seq(Transition) /\ ts # <<>> /\ ts' = Tail(ts)
      /\ ~Enabled(Head(ts), tokens)
    BY DEF DropFront, TypeOK
<1>3. /\ Len(Tail(ts)) = Len(ts) - 1
      /\ \A i \in 1 .. Len(ts) - 1 : Tail(ts)[i] = ts[i + 1]
      /\ Range(ts) \ {Head(ts)} \subseteq Range(Tail(ts))
      /\ Len(ts) \in Nat \ {0}
    BY <1>2, TailFacts
<1>4. Sorted'
    BY <1>1, <1>2, <1>3 DEF Scheduling, Sorted
<1>5. CandidatesCoverEnabled'
    BY <1>1, <1>2, <1>3 DEF Scheduling, CandidatesCoverEnabled
<1>6. QED
    BY <1>1, <1>4, <1>5
       DEF Scheduling, FiresWhenStarted, DeadlockStays, SleepsForAReason

LEMMA FireAsyncScheduling ==
    ASSUME TypeOK, Scheduling, NEW t \in Transition, FireFrontAsync(t)
    PROVE  Scheduling'
<1>1. pc = "fire" /\ pc' = "fire" /\ state' = state /\ tokens \in Marking
    BY DEF FireFrontAsync, TypeOK
<1>2. /\ ts \in Seq(Transition) /\ ts # <<>> /\ t = Head(ts)
      /\ tokens' = deductMarking(tokens, input_n[t])
      /\ ts' = IF Enabled(t, tokens') THEN ts ELSE Tail(ts)
    BY DEF FireFrontAsync, TypeOK
<1>3. /\ Len(Tail(ts)) = Len(ts) - 1
      /\ \A i \in 1 .. Len(ts) - 1 : Tail(ts)[i] = ts[i + 1]
      /\ Range(ts) \ {Head(ts)} \subseteq Range(Tail(ts))
      /\ Len(ts) \in Nat \ {0}
    BY <1>2, TailFacts
<1>4. Sorted'
    <2>1. CASE ts' = ts
        BY <1>1, <2>1 DEF Scheduling, Sorted
    <2>2. CASE ts' = Tail(ts)
        BY <1>1, <1>3, <2>2 DEF Scheduling, Sorted
    <2>3. QED
        BY <1>2, <2>1, <2>2
<1>5. CandidatesCoverEnabled'
    <2>1. ASSUME NEW u \in Transition, Enabled(u, tokens')
          PROVE  u \in Range(ts')
        <3>1. u \in Range(ts)
            BY <1>1, <1>2, <2>1, DeductEnablesNothing
               DEF Scheduling, CandidatesCoverEnabled
        <3>2. QED
            BY <1>2, <1>3, <2>1, <3>1
    <2>2. QED
        BY <2>1 DEF CandidatesCoverEnabled
<1>6. QED
    BY <1>1, <1>4, <1>5
       DEF Scheduling, FiresWhenStarted, DeadlockStays, SleepsForAReason

LEMMA FireSyncScheduling ==
    ASSUME TypeOK, Scheduling, NEW t \in Transition, NEW res \in Returns[t],
           FireFrontSync(t, res)
    PROVE  Scheduling'
<1> DEFINE deducted == deductMarking(tokens, input_n[t])
           rest == IF Enabled(t, tokens') THEN Range(ts) ELSE Range(Tail(ts))
<1>1. pc = "fire" /\ pc' = "fire" /\ state' = state /\ tokens \in Marking
    BY DEF FireFrontSync, TypeOK
<1>2. /\ ts \in Seq(Transition) /\ ts # <<>> /\ t = Head(ts)
      /\ tokens' = produce(deducted, t, res)
      /\ ts' \in SortedByPriority(rest \cup downstream(t))
      /\ Enabled(t, tokens)
    BY DEF FireFrontSync, TypeOK
<1>3. /\ Range(ts) \ {Head(ts)} \subseteq Range(Tail(ts))
      /\ Tail(ts) \in Seq(Transition)
    BY <1>2, TailFacts
<1>4. deducted \in Marking
    BY <1>1, <1>2, DeductType
<1>5. rest \cup downstream(t) \in SUBSET Transition
    BY <1>2, <1>3, DownstreamType, RangeOfSeq DEF Range
<1>6. /\ Range(ts') = rest \cup downstream(t)
      /\ \A i, k \in 1 .. Len(ts') : i < k => priority[ts'[i]] >= priority[ts'[k]]
    BY <1>2, <1>5, SortedFacts
<1>7. Sorted'
    BY <1>6 DEF Sorted
<1>8. CandidatesCoverEnabled'
    <2>1. ASSUME NEW u \in Transition, Enabled(u, tokens')
          PROVE  u \in Range(ts')
        <3>1. CASE Enabled(u, deducted)
            <4>1. u \in Range(ts)
                BY <1>1, <3>1, DeductEnablesNothing
                   DEF Scheduling, CandidatesCoverEnabled
            <4>2. u \in rest
                BY <1>2, <1>3, <2>1, <4>1
            <4>3. QED
                BY <1>6, <4>2
        <3>2. CASE ~Enabled(u, deducted)
            <4>1. u \in downstream(t)
                BY <1>2, <1>4, <2>1, <3>2, ProduceEnablesDownstream
            <4>2. QED
                BY <1>6, <4>1
        <3>3. QED
            BY <3>1, <3>2
    <2>2. QED
        BY <2>1 DEF CandidatesCoverEnabled
<1>9. QED
    BY <1>1, <1>7, <1>8
       DEF Scheduling, FiresWhenStarted, DeadlockStays, SleepsForAReason

(***************************************************************************)
(* The other steps of the loop.                                            *)
(***************************************************************************)
LEMMA BatchScheduling ==
    ASSUME TypeOK, Scheduling, BatchDone
    PROVE  Scheduling'
<1>1. /\ pc = "batch" /\ tokens' = tokens /\ tokens \in Marking
      /\ scheduled_callbacks' = scheduled_callbacks
      /\ state' = IF Reached THEN "Success" ELSE state
    BY DEF BatchDone, TypeOK
<1>2. state' # "Deadlocked"
    BY <1>1 DEF Scheduling, DeadlockStays
<1>3. CASE state' = "Started"
    <2>1. pc' = "fire" /\ ts' \in SortedByPriority(possibleTransitions(tokens))
        BY <1>3 DEF BatchDone
    <2>2. /\ Range(ts') = possibleTransitions(tokens)
          /\ \A i, k \in 1 .. Len(ts') : i < k => priority[ts'[i]] >= priority[ts'[k]]
        BY <2>1, CandidatesType, SortedFacts
    <2>3. Sorted'
        BY <2>2 DEF Sorted
    <2>4. CandidatesCoverEnabled'
        BY <1>1, <2>2, EnabledIsCandidate DEF CandidatesCoverEnabled
    <2>5. QED
        BY <1>2, <1>3, <2>1, <2>3, <2>4
           DEF Scheduling, FiresWhenStarted, DeadlockStays, SleepsForAReason
<1>4. CASE state' # "Started"
    <2>1. pc' = "wait"
        BY <1>4 DEF BatchDone
    <2>2. QED
        BY <1>2, <1>4, <2>1
           DEF Scheduling, FiresWhenStarted, Sorted, DeadlockStays,
               CandidatesCoverEnabled, SleepsForAReason
<1>5. QED
    BY <1>3, <1>4

LEMMA FireDoneScheduling ==
    ASSUME TypeOK, Scheduling, FireDone
    PROVE  Scheduling'
<1>1. /\ pc = "fire" /\ pc' = "wait" /\ ts = <<>> /\ tokens' = tokens
      /\ scheduled_callbacks' = scheduled_callbacks
      /\ state' = IF Reached THEN "Success"
                  ELSE IF scheduled_callbacks = Nothing THEN "Deadlocked"
                  ELSE state
    BY DEF FireDone
<1>2. state = "Started"
    BY <1>1 DEF Scheduling, FiresWhenStarted
<1>3. \A t \in Transition : ~Enabled(t, tokens)
    BY <1>1 DEF Scheduling, CandidatesCoverEnabled, Range
<1>4. Dead'
    BY <1>1, <1>3 DEF Dead
<1>5. /\ state' = "Started" => scheduled_callbacks # Nothing
      /\ state' = "Deadlocked" => scheduled_callbacks = Nothing
    BY <1>1, <1>2
<1>6. QED
    BY <1>1, <1>3, <1>4, <1>5
       DEF Scheduling, FiresWhenStarted, Sorted, DeadlockStays,
           CandidatesCoverEnabled, SleepsForAReason, Nothing

(***************************************************************************)
(* An enqueue leaves what the runner has enqueued where it is.             *)
(***************************************************************************)
LEMMA EnqueueKeeps ==
    ASSUME TypeOK, NEW q \in Producer, NEW r, Enqueue(q, r)
    PROVE  /\ reducer_queue[Runner] # <<>> => reducer_queue'[Runner] # <<>>
           /\ reducer_queue'[q] # <<>>
<1>1. reducer_queue[q] \in Seq(Reducer \cup {r})
    <2>1. reducer_queue[q] \in Seq(Reducer)
        BY DEF TypeOK
    <2>2. QED
        BY <2>1, SeqMonotonic
<1>2. Append(reducer_queue[q], r) # <<>>
    BY <1>1, AppendProperties
<1>3. reducer_queue' = [reducer_queue EXCEPT ![q] = Append(reducer_queue[q], r)]
    BY DEF Enqueue
<1>4. reducer_queue'[q] = Append(reducer_queue[q], r)
    BY <1>3 DEF TypeOK
<1>5. Runner \in Producer
    BY DEF Producer
<1>6. CASE q = Runner
    BY <1>2, <1>4, <1>6
<1>7. CASE q # Runner
    BY <1>2, <1>3, <1>4, <1>5, <1>7 DEF TypeOK
<1>8. QED
    BY <1>6, <1>7

LEMMA StepScheduling ==
    ASSUME TypeOK, Scheduling, [Next]_vars
    PROVE  Scheduling'
<1> DEFINE Waiting == reducer_queue[Runner] # <<>> => reducer_queue'[Runner] # <<>>
<1>1. CASE /\ UNCHANGED <<pc, state, tokens, scheduled_callbacks, ts>>
           /\ pc = "wait" => Waiting
    BY <1>1 DEF Scheduling, FiresWhenStarted, Sorted, DeadlockStays, Dead,
                CandidatesCoverEnabled, SleepsForAReason, Nothing
<1>2. ASSUME NEW p \in Producer, WaitDequeue(p) \/ BatchDequeue(p)
      PROVE  Scheduling'
    <2>1. pc' = "batch" /\ state' # "Deadlocked"
        BY <1>2, ReducersDeclareNothing
           DEF WaitDequeue, BatchDequeue, Scheduling, DeadlockStays
    <2>2. QED
        BY <2>1 DEF Scheduling, FiresWhenStarted, Sorted, DeadlockStays,
                    CandidatesCoverEnabled, SleepsForAReason
<1>3. ASSUME NEW p \in Producer, DrainDequeue(p)
      PROVE  Scheduling'
    <2>1. pc' = "drain" /\ state' # "Deadlocked"
        BY <1>3, ReducersDeclareNothing
           DEF DrainDequeue, Scheduling, DeadlockStays
    <2>2. QED
        BY <2>1 DEF Scheduling, FiresWhenStarted, Sorted, DeadlockStays,
                    CandidatesCoverEnabled, SleepsForAReason
<1>4. ASSUME NEW p \in Producer, Discard(p)
      PROVE  Scheduling'
    BY <1>1, <1>4 DEF Discard, netVars, loopVars
<1>5. CASE EnqueueNoop
    <2>1. pc' = "wait" /\ state' = state /\ tokens' = tokens
        BY <1>5 DEF EnqueueNoop, netVars
    <2>2. state # "Deadlocked"
        BY <1>5 DEF EnqueueNoop, Scheduling, DeadlockStays
    <2>3. reducer_queue'[Runner] # <<>>
        BY <1>5, EnqueueKeeps DEF EnqueueNoop, Producer
    <2>4. QED
        BY <2>1, <2>2, <2>3
           DEF Scheduling, FiresWhenStarted, Sorted, DeadlockStays,
               CandidatesCoverEnabled, SleepsForAReason
<1>6. CASE FireStart
    BY <1>6 DEF FireStart, Scheduling, FiresWhenStarted, Sorted, DeadlockStays,
                CandidatesCoverEnabled, SleepsForAReason
<1>7. CASE LeaveLoop
    BY <1>7 DEF LeaveLoop, Scheduling, FiresWhenStarted, Sorted, DeadlockStays, Dead,
                CandidatesCoverEnabled, SleepsForAReason, Nothing
<1>8. CASE FireReturn
    BY <1>8 DEF FireReturn, netVars, Scheduling, FiresWhenStarted, Sorted,
                DeadlockStays, Dead, CandidatesCoverEnabled, SleepsForAReason, Nothing
<1>9. CASE LoopStep
    BY <1>2, <1>3, <1>4, <1>5, <1>7, <1>8, <1>9, BatchScheduling, DropScheduling,
       FireAsyncScheduling, FireSyncScheduling, FireDoneScheduling DEF LoopStep
<1>10. ASSUME NEW w \in Worker, WorkerStep(w)
       PROVE  Scheduling'
    <2>1. UNCHANGED <<pc, state, tokens, scheduled_callbacks, ts>>
        BY <1>10 DEF WorkerStep, TakeTask, ReportStart, ReportResult, netVars, loopVars
    <2>2. Waiting
        BY <1>10, EnqueueKeeps
           DEF WorkerStep, TakeTask, ReportStart, ReportResult, Producer
    <2>3. QED
        BY <1>1, <2>1, <2>2
<1>11. ASSUME NEW c \in Client, ClientCall(c) \/ ClientStep(c)
       PROVE  Scheduling'
    <2>1. UNCHANGED <<pc, state, tokens, scheduled_callbacks, ts>>
        BY <1>11 DEF ClientCall, ClientStep, Controls, LoadThreadId, EnqueueRequest,
                     ReadUnlocked, netVars, loopVars
    <2>2. Waiting
        BY <1>11, EnqueueKeeps
           DEF ClientCall, ClientStep, Controls, LoadThreadId, EnqueueRequest,
               ReadUnlocked, Producer
    <2>3. QED
        BY <1>1, <2>1, <2>2
<1>12. CASE UNCHANGED vars
    BY <1>1, <1>12 DEF vars, netVars, loopVars
<1>13. QED
    BY <1>6, <1>9, <1>10, <1>11, <1>12 DEF Next

LEMMA SchedulingAlways == Spec => [](TypeOK /\ Scheduling)
<1>1. Init => Tracked /\ Scheduling
    BY InitType, InitTracked, SchedulingInit DEF Tracked
<1>2. Tracked /\ Scheduling /\ [Next]_vars => (Tracked /\ Scheduling)'
    BY StepTracked, StepScheduling DEF Tracked
<1>3. Tracked /\ Scheduling => TypeOK /\ Scheduling
    BY DEF Tracked
<1>4. QED
    BY <1>1, <1>2, <1>3, PTL DEF Spec

-----------------------------------------------------------------------------
(***************************************************************************)
(* While `fireTransitions' runs, every enabled transition is a candidate.  *)
(***************************************************************************)
THEOREM CandidatesAreComplete == Spec => []CandidatesCoverEnabled
<1>1. Scheduling => CandidatesCoverEnabled
    BY DEF Scheduling
<1>2. QED
    BY <1>1, SchedulingAlways, PTL

(***************************************************************************)
(* The loop blocks on the queue in state Started only when nothing can     *)
(* fire and a callback is under way, or its own empty reducer is waiting.  *)
(***************************************************************************)
THEOREM LoopSleepsForAReason == Spec => []SleepsForAReason
<1>1. Scheduling => SleepsForAReason
    BY DEF Scheduling
<1>2. QED
    BY <1>1, SchedulingAlways, PTL

(***************************************************************************)
(* In state Deadlocked no transition is enabled and no callback is under   *)
(* way, also after the loop has been left and after `fire' has returned.   *)
(***************************************************************************)
THEOREM DeadlockIsReal == Spec => []DeadlockedIsDead
<1>1. Scheduling => DeadlockedIsDead
    BY DEF Scheduling, DeadlockStays, Dead, DeadlockedIsDead
<1>2. QED
    BY <1>1, SchedulingAlways, PTL

LEMMA HeadHasPriority ==
    ASSUME TypeOK, Scheduling, pc = "fire", NEW u \in Transition, Enabled(u, tokens)
    PROVE  priority[u] <= priority[Head(ts)]
<1>1. ts \in Seq(Transition) /\ u \in Range(ts)
    BY DEF TypeOK, Scheduling, CandidatesCoverEnabled
<1>2. DOMAIN ts = 1 .. Len(ts) /\ Len(ts) \in Nat
    BY <1>1, LenProperties
<1>3. PICK k \in 1 .. Len(ts) : ts[k] = u
    BY <1>1, <1>2 DEF Range
<1>4. ts # <<>>
    BY <1>2, <1>3, EmptySeq
<1>5. Head(ts) = ts[1] /\ Head(ts) \in Transition
    BY <1>1, <1>4, TailFacts
<1>6. priority[u] \in Int /\ priority[Head(ts)] \in Int
    BY <1>5, StructureAssumption
<1>7. CASE k = 1
    BY <1>3, <1>5, <1>6, <1>7
<1>8. CASE k # 1
    BY <1>2, <1>3, <1>5, <1>6, <1>8 DEF Scheduling, Sorted
<1>9. QED
    BY <1>7, <1>8

(***************************************************************************)
(* No firing of `fireTransitions' passes over an enabled transition of     *)
(* higher priority.                                                        *)
(***************************************************************************)
THEOREM PrioritiesHold == Spec => PriorityRespected
<1>1. TypeOK /\ Scheduling =>
        (pc = "fire" /\ tokens' # tokens =>
            \A u \in Transition :
                Enabled(u, tokens) => priority[u] <= priority[Head(ts)])
    BY HeadHasPriority
<1>2. QED
    BY <1>1, SchedulingAlways, PTL DEF PriorityRespected

-----------------------------------------------------------------------------
(***************************************************************************)
(* A result in the queue is one that the callback of its transition may    *)
(* return.                                                                 *)
(***************************************************************************)
ResultsAreReturned ==
    \A p \in Producer : \A i \in Index(p) : IsResult(p, i) =>
        reducer_queue[p][i].result \in Returns[closure[JobAt(p, i)]]

LEMMA ResultsInit == Init => ResultsAreReturned
<1> SUFFICES ASSUME Init PROVE ResultsAreReturned
    OBVIOUS
<1>1. \A p \in Producer : Index(p) = {}
    BY EmptySeq DEF Init, Index
<1>2. QED
    BY <1>1 DEF ResultsAreReturned

(***************************************************************************)
(* Steps that enqueue nothing and keep the closures whose results are in   *)
(* the queue; steps that enqueue another reducer; the report of a result.  *)
(***************************************************************************)
LEMMA ShiftResults ==
    ASSUME ResultsAreReturned, NEW d \in [Producer -> Nat], Shifted(d),
           \A q \in Producer : \A i \in 1 .. Len(reducer_queue'[q]) :
                IsResult(q, i + d[q]) =>
                    closure'[JobAt(q, i + d[q])] = closure[JobAt(q, i + d[q])]
    PROVE  ResultsAreReturned'
<1> SUFFICES ASSUME NEW q \in Producer, NEW i \in 1 .. Len(reducer_queue'[q]),
                    reducer_queue'[q][i].kind = "result"
             PROVE  reducer_queue'[q][i].result
                        \in Returns[closure'[reducer_queue'[q][i].job]]
    BY DEF ResultsAreReturned, Index, IsResult, JobAt
<1> DEFINE k == i + d[q]
<1>1. k \in Index(q) /\ reducer_queue'[q][i] = reducer_queue[q][k]
    BY DEF Shifted, Index
<1>2. IsResult(q, k)
    BY <1>1 DEF IsResult
<1>3. closure'[JobAt(q, k)] = closure[JobAt(q, k)]
    BY <1>2
<1>4. reducer_queue[q][k].result \in Returns[closure[JobAt(q, k)]]
    BY <1>1, <1>2 DEF ResultsAreReturned
<1>5. QED
    BY <1>1, <1>3, <1>4 DEF JobAt

LEMMA EnqueueResults ==
    ASSUME TypeOK, ResultsAreReturned, NEW p \in Producer, NEW r \in Reducer,
           Enqueue(p, r), UNCHANGED closure,
           r.kind = "result" => r.result \in Returns[closure[r.job]]
    PROVE  ResultsAreReturned'
<1>1. /\ Len(reducer_queue[p]) \in Nat
      /\ Len(reducer_queue'[p]) = Len(reducer_queue[p]) + 1
      /\ \A i \in 1 .. Len(reducer_queue[p]) :
            reducer_queue'[p][i] = reducer_queue[p][i]
      /\ reducer_queue'[p][Len(reducer_queue[p]) + 1] = r
      /\ \A q \in Producer \ {p} : reducer_queue'[q] = reducer_queue[q]
    BY EnqueueFacts DEF TypeOK
<1> SUFFICES ASSUME NEW q \in Producer, NEW i \in 1 .. Len(reducer_queue'[q]),
                    reducer_queue'[q][i].kind = "result"
             PROVE  reducer_queue'[q][i].result
                        \in Returns[closure'[reducer_queue'[q][i].job]]
    BY DEF ResultsAreReturned, Index, IsResult, JobAt
<1>2. CASE q = p /\ i = Len(reducer_queue[p]) + 1
    BY <1>1, <1>2
<1>3. CASE ~(q = p /\ i = Len(reducer_queue[p]) + 1)
    <2>1. i \in 1 .. Len(reducer_queue[q]) /\ reducer_queue'[q][i] = reducer_queue[q][i]
        BY <1>1, <1>3
    <2>2. QED
        BY <2>1 DEF ResultsAreReturned, Index, IsResult, JobAt
<1>4. QED
    BY <1>2, <1>3

LEMMA ScheduleResults ==
    ASSUME TypeOK, TasksAreTracked, ResultsAreReturned,
           NEW d \in [Producer -> Nat], Shifted(d),
           NEW t \in Transition, fireAsynchronous(t)
    PROVE  ResultsAreReturned'
<1>1. PICK j \in Job : /\ closure[j] = NoTransition
                       /\ closure' = [closure EXCEPT ![j] = t]
    BY ScheduleFacts
<1>2. ASSUME NEW q \in Producer, NEW i \in 1 .. Len(reducer_queue'[q]),
             IsResult(q, i + d[q])
      PROVE  closure'[JobAt(q, i + d[q])] = closure[JobAt(q, i + d[q])]
    <2>1. i + d[q] \in Index(q)
        BY DEF Shifted, Index
    <2>2. closure[JobAt(q, i + d[q])] \in Transition
        BY <1>2, <2>1 DEF TasksAreTracked, TaskReducers
    <2>3. JobAt(q, i + d[q]) # j
        BY <1>1, <2>2, PetriAssumption
    <2>4. QED
        BY <1>1, <2>3 DEF TypeOK
<1>3. QED
    BY <1>2, ShiftResults

LEMMA ApplyResults ==
    ASSUME TypeOK, TasksAreTracked, ResultsAreReturned,
           NEW p \in Producer, Dequeue(p), ApplyResult(Front(p))
    PROVE  ResultsAreReturned'
<1> DEFINE j == JobAt(p, 1)
<1>1. PICK d \in [Producer -> Nat] : d[p] = 1 /\ Shifted(d)
    BY DequeueShift
<1>2. 1 \in Index(p) /\ Front(p) = reducer_queue[p][1]
    BY DequeueFacts DEF TypeOK, Index
<1>3. IsResult(p, 1) /\ closure' = [closure EXCEPT ![j] = NoTransition]
    BY <1>2 DEF ApplyResult, IsResult, JobAt
<1>4. ASSUME NEW q \in Producer, NEW i \in 1 .. Len(reducer_queue'[q]),
             IsResult(q, i + d[q])
      PROVE  closure'[JobAt(q, i + d[q])] = closure[JobAt(q, i + d[q])]
    <2>1. i + d[q] \in Index(q)
        BY <1>1 DEF Shifted, Index
    <2>2. CASE JobAt(q, i + d[q]) = j
        <3>1. q = p /\ i + d[q] = 1
            BY <1>2, <1>3, <1>4, <2>1, <2>2 DEF TasksAreTracked, ResultsInOrder
        <3>2. QED
            BY <1>1, <3>1
    <2>3. CASE JobAt(q, i + d[q]) # j
        BY <1>3, <2>3 DEF TypeOK
    <2>4. QED
        BY <2>2, <2>3
<1>5. QED
    BY <1>1, <1>4, ShiftResults

LEMMA RunReducerResults ==
    ASSUME TypeOK, TasksAreTracked, ResultsAreReturned,
           NEW p \in Producer, RunReducer(p)
    PROVE  ResultsAreReturned'
<1> DEFINE r == Front(p)
<1>1. Dequeue(p) /\ Apply(r)
    BY DEF RunReducer
<1>2. r \in Reducer
    BY <1>1, DequeueFacts DEF TypeOK
<1>3. PICK d \in [Producer -> Nat] : Shifted(d)
    BY <1>1, DequeueShift
<1>4. CASE ApplyResult(r)
    BY <1>1, <1>4, ApplyResults
<1> HIDE DEF r
<1>5. CASE UNCHANGED closure
    BY <1>3, <1>5, ShiftResults
<1>6. CASE ApplyTrigger(r)
    <2>1. r.t \in Transition
        BY <1>2, <1>6, ReducerFields DEF ApplyTrigger
    <2>2. QED
        BY <1>3, <1>6, <2>1, ScheduleResults DEF ApplyTrigger
<1>7. QED
    BY <1>1, <1>4, <1>5, <1>6
       DEF Apply, ApplyNoop, ApplyCancel, ApplyPause, ApplyResume, ApplyGet,
           ApplyStarted, poolVars

LEMMA StepResults ==
    ASSUME TypeOK, TasksAreTracked, ResultsAreReturned, [Next]_vars
    PROVE  ResultsAreReturned'
<1>1. CASE UNCHANGED <<reducer_queue, closure>>
    BY <1>1 DEF ResultsAreReturned, Index, IsResult, JobAt
<1>2. ASSUME NEW p \in Producer,
             Discard(p) \/ WaitDequeue(p) \/ BatchDequeue(p) \/ DrainDequeue(p)
      PROVE  ResultsAreReturned'
    <2>1. CASE Discard(p)
        <3>1. PICK d \in [Producer -> Nat] : Shifted(d)
            BY <2>1, DequeueShift DEF Discard
        <3>2. UNCHANGED closure
            BY <2>1 DEF Discard, poolVars
        <3>3. QED
            BY <3>1, <3>2, ShiftResults
    <2>2. CASE RunReducer(p)
        BY <2>2, RunReducerResults
    <2>3. QED
        BY <1>2, <2>1, <2>2 DEF WaitDequeue, BatchDequeue, DrainDequeue
<1>3. CASE EnqueueNoop
    <2>1. /\ Runner \in Producer /\ Noop \in Reducer /\ Noop.kind # "result"
          /\ Enqueue(Runner, Noop) /\ UNCHANGED closure
        BY <1>3, ClientReducerKinds DEF EnqueueNoop, poolVars, Producer
    <2>2. QED
        BY <2>1, EnqueueResults
<1>4. ASSUME NEW t \in Transition, FireFrontAsync(t)
      PROVE  ResultsAreReturned'
    <2>1. PICK d \in [Producer -> Nat] : Shifted(d)
        BY <1>4, UnchangedShift DEF FireFrontAsync
    <2>2. QED
        BY <1>4, <2>1, ScheduleResults DEF FireFrontAsync
<1>5. ASSUME NEW w \in Worker, WorkerStep(w)
      PROVE  ResultsAreReturned'
    <2> w \in Producer
        BY DEF Producer
    <2>1. CASE TakeTask(w)
        BY <1>1, <2>1 DEF TakeTask
    <2>2. ASSUME ReportStart(w) \/ ReportResult(w)
          PROVE  wjob[w] \in Job /\ closure[wjob[w]] \in Transition
        BY <2>2 DEF ReportStart, ReportResult, TasksAreTracked, WorkerTasks, Busy
    <2>3. CASE ReportStart(w)
        <3>1. /\ StartOf(wjob[w]) \in Reducer /\ StartOf(wjob[w]).kind # "result"
              /\ Enqueue(w, StartOf(wjob[w])) /\ UNCHANGED closure
            BY <2>2, <2>3, TaskReducerKinds DEF ReportStart, poolVars
        <3>2. QED
            BY <3>1, EnqueueResults
    <2>4. CASE ReportResult(w)
        <3>1. PICK res \in Returns[closure[wjob[w]]] :
                    Enqueue(w, ResultOf(wjob[w], res))
            BY <2>4 DEF ReportResult
        <3>2. res \in Token
            BY <2>2, <2>4, StructureAssumption
        <3>3. /\ ResultOf(wjob[w], res) \in Reducer
              /\ ResultOf(wjob[w], res).job = wjob[w]
              /\ ResultOf(wjob[w], res).result = res
              /\ UNCHANGED closure
            BY <2>2, <2>4, <3>2, TaskReducerKinds DEF ReportResult, poolVars, ResultOf
        <3>4. QED
            BY <3>1, <3>3, EnqueueResults
    <2>5. QED
        BY <1>5, <2>1, <2>3, <2>4 DEF WorkerStep
<1>6. ASSUME NEW c \in Client, ClientCall(c) \/ ClientStep(c)
      PROVE  ResultsAreReturned'
    <2> c \in Producer
        BY DEF Producer
    <2>1. ASSUME NEW r \in ClientReducer, Enqueue(c, r), UNCHANGED closure
          PROVE  ResultsAreReturned'
        BY <2>1, ClientReducerKinds, EnqueueResults
    <2>2. ASSUME NEW k \in {"cancel", "pause", "resume"}, Controls(c, k)
          PROVE  ResultsAreReturned'
        BY <2>1, <2>2, ClientReducerKinds DEF Controls, poolVars
    <2>3. CASE EnqueueRequest(c)
        BY <2>1, <2>3 DEF EnqueueRequest, poolVars, TypeOK
    <2>4. QED
        BY <1>1, <1>6, <2>2, <2>3
           DEF ClientCall, ClientStep, LoadThreadId, ReadUnlocked, poolVars
<1>7. CASE \/ FireStart \/ BatchDone \/ DropFront \/ FireDone \/ LeaveLoop
           \/ FireReturn \/ UNCHANGED vars
           \/ \E t \in Transition : \E res \in Returns[t] : FireFrontSync(t, res)
    BY <1>1, <1>7 DEF FireStart, BatchDone, DropFront, FireDone, LeaveLoop, FireReturn,
                      FireFrontSync, poolVars, vars
<1>8. QED
    BY <1>2, <1>3, <1>4, <1>5, <1>6, <1>7 DEF Next, LoopStep

-----------------------------------------------------------------------------
(***************************************************************************)
(* The refinement.                                                         *)
(***************************************************************************)
LEMMA SameNet ==
    /\ \A t, m : TokenGame!Enabled(t, m) = Enabled(t, m)
    /\ \A m, pre : TokenGame!deductMarking(m, pre) = deductMarking(m, pre)
    /\ \A m, t, res : TokenGame!produce(m, t, res) = produce(m, t, res)
    /\ TokenGame!InputTransition = InputTransition
    /\ TokenGame!NothingActive = Nothing
BY DEF TokenGame!Enabled, Enabled, TokenGame!canFire, canFire,
       TokenGame!EmptyMarking, EmptyMarking, TokenGame!AugmentedToken, AugmentedToken,
       TokenGame!deductMarking, deductMarking, TokenGame!produce, produce,
       TokenGame!InputTransition, InputTransition, TokenGame!NothingActive, Nothing

(***************************************************************************)
(* A result in front of a queue belongs to a transition that is still      *)
(* scheduled, so its tokens are produced.                                  *)
(***************************************************************************)
LEMMA ResultIsScheduled ==
    ASSUME TypeOK, TasksAreTracked, Books, ResultsAreReturned,
           NEW p \in Producer, Dequeue(p), ApplyResult(Front(p))
    PROVE  /\ closure[Front(p).job] \in Transition
           /\ scheduled_callbacks[closure[Front(p).job]] > 0
           /\ Front(p).result \in Returns[closure[Front(p).job]]
<1>1. /\ Front(p).job \in Job /\ 1 \in Index(p)
      /\ IsResult(p, 1) /\ JobAt(p, 1) = Front(p).job
      /\ closure[Front(p).job] \in Transition
      /\ scheduled_callbacks[closure[Front(p).job]] > 0
    BY FrontResult
<1>2. Front(p) = reducer_queue[p][1]
    BY DequeueFacts DEF TypeOK
<1>3. QED
    BY <1>1, <1>2 DEF ResultsAreReturned

LEMMA ReducerImplements ==
    ASSUME TypeOK, TasksAreTracked, Books, ResultsAreReturned,
           NEW p \in Producer, RunReducer(p)
    PROVE  TokenGame!Next \/ UNCHANGED TokenGame!vars
<1> DEFINE r == Front(p)
<1>1. Dequeue(p) /\ Apply(r)
    BY DEF RunReducer
<1>2. r \in Reducer
    BY <1>1, DequeueFacts DEF TypeOK
<1>3. CASE ApplyResult(r)
    <2> DEFINE t == closure[r.job]
    <2>1. t \in Transition /\ scheduled_callbacks[t] > 0 /\ r.result \in Returns[t]
        BY <1>1, <1>3, ResultIsScheduled
    <2>2. /\ tokens' = produce(tokens, t, r.result)
          /\ scheduled_callbacks' =
                [scheduled_callbacks EXCEPT ![t] = scheduled_callbacks[t] - 1]
        BY <1>3, <2>1 DEF ApplyResult
    <2> HIDE DEF t, r
    <2>3. TokenGame!Complete(t, r.result)
        BY <2>1, <2>2, SameNet DEF TokenGame!Complete
    <2>4. QED
        BY <2>1, <2>3 DEF TokenGame!Next
<1> HIDE DEF r
<1>4. CASE ApplyTrigger(r)
    <2>1. r.t \in InputTransition
        BY <1>2, <1>4 DEF ApplyTrigger, Reducer, ClientReducer
    <2>2. /\ scheduled_callbacks' =
                [scheduled_callbacks EXCEPT ![r.t] = scheduled_callbacks[r.t] + 1]
          /\ tokens' = tokens
        BY <1>4 DEF ApplyTrigger, fireAsynchronous
    <2>3. TokenGame!Insert(r.t)
        BY <2>1, <2>2, SameNet DEF TokenGame!Insert
    <2>4. QED
        BY <2>1, <2>3 DEF TokenGame!Next, InputTransition
<1>5. CASE UNCHANGED <<tokens, scheduled_callbacks>>
    BY <1>5 DEF TokenGame!vars
<1>6. QED
    BY <1>1, <1>3, <1>4, <1>5
       DEF Apply, ApplyNoop, ApplyCancel, ApplyPause, ApplyResume, ApplyGet,
           ApplyStarted, netVars

LEMMA FireImplements ==
    ASSUME TypeOK, Books,
           \/ FireStart
           \/ \E t \in Transition : \/ FireFrontAsync(t)
                                  \/ \E res \in Returns[t] : FireFrontSync(t, res)
    PROVE  TokenGame!Next
<1>1. CASE FireStart
    <2>1. scheduled_callbacks = Nothing
        BY <1>1 DEF FireStart, Books, Quiet
    <2>2. TokenGame!Restart
        BY <1>1, <2>1, SameNet DEF FireStart, TokenGame!Restart
    <2>3. QED
        BY <2>2 DEF TokenGame!Next
<1>2. ASSUME NEW t \in Transition, FireFrontAsync(t)
      PROVE  TokenGame!Next
    <2>1. /\ t \notin Synchronous /\ Enabled(t, tokens)
          /\ tokens' = deductMarking(tokens, input_n[t])
          /\ scheduled_callbacks' =
                [scheduled_callbacks EXCEPT ![t] = scheduled_callbacks[t] + 1]
        BY <1>2 DEF FireFrontAsync, fireAsynchronous
    <2>2. TokenGame!Begin(t)
        BY <2>1, SameNet DEF TokenGame!Begin
    <2>3. QED
        BY <2>2 DEF TokenGame!Next
<1>3. ASSUME NEW t \in Transition, NEW res \in Returns[t], FireFrontSync(t, res)
      PROVE  TokenGame!Next
    <2>1. /\ t \in Synchronous /\ Enabled(t, tokens)
          /\ tokens' = produce(deductMarking(tokens, input_n[t]), t, res)
          /\ scheduled_callbacks' = scheduled_callbacks
        BY <1>3 DEF FireFrontSync
    <2>2. TokenGame!Immediate(t, res)
        BY <2>1, SameNet DEF TokenGame!Immediate
    <2>3. QED
        BY <2>2 DEF TokenGame!Next
<1>4. QED
    BY <1>1, <1>2, <1>3

LEMMA StepImplements ==
    ASSUME TypeOK, TasksAreTracked, Books, ResultsAreReturned, [Next]_vars
    PROVE  [TokenGame!Next]_(TokenGame!vars)
<1>1. ASSUME NEW p \in Producer,
             WaitDequeue(p) \/ BatchDequeue(p) \/ DrainDequeue(p)
      PROVE  TokenGame!Next \/ UNCHANGED TokenGame!vars
    BY <1>1, ReducerImplements DEF WaitDequeue, BatchDequeue, DrainDequeue
<1>2. CASE UNCHANGED <<tokens, scheduled_callbacks>>
    BY <1>2 DEF TokenGame!vars
<1>3. ASSUME NEW w \in Worker, WorkerStep(w)
      PROVE  UNCHANGED <<tokens, scheduled_callbacks>>
    BY <1>3 DEF WorkerStep, TakeTask, ReportStart, ReportResult, netVars
<1>4. ASSUME NEW c \in Client, ClientCall(c) \/ ClientStep(c)
      PROVE  UNCHANGED <<tokens, scheduled_callbacks>>
    BY <1>4 DEF ClientCall, ClientStep, Controls, LoadThreadId, EnqueueRequest,
                ReadUnlocked, netVars
<1>5. CASE \/ EnqueueNoop \/ BatchDone \/ DropFront \/ FireDone \/ LeaveLoop
           \/ FireReturn \/ UNCHANGED vars \/ \E p \in Producer : Discard(p)
    BY <1>2, <1>5 DEF EnqueueNoop, BatchDone, DropFront, FireDone, LeaveLoop,
                      FireReturn, Discard, netVars, vars
<1>6. QED
    BY <1>1, <1>2, <1>3, <1>4, <1>5, FireImplements DEF Next, LoopStep

LEMMA InitImplements == Init => TokenGame!Init
BY SameNet DEF Init, TokenGame!Init

(***************************************************************************)
(* Every behaviour of the executor, whatever its workers and clients do    *)
(* and in whatever order their reducers are applied, is a behaviour of the *)
(* token game of SymmetriNet.                                              *)
(***************************************************************************)
THEOREM ExecutorImplementsTokenGame == Spec => ImplementsTokenGame
<1> DEFINE Inv == Tracked /\ Books /\ ResultsAreReturned
<1>1. Init => Inv
    BY InitType, InitTracked, BooksInit, ResultsInit DEF Tracked
<1>2. Inv /\ [Next]_vars => Inv'
    BY StepTracked, BooksStep, StepResults DEF Tracked
<1>3. Inv /\ [Next]_vars => [TokenGame!Next]_(TokenGame!vars)
    BY StepImplements DEF Tracked
<1>4. QED
    BY <1>1, <1>2, <1>3, InitImplements, PTL
       DEF Spec, ImplementsTokenGame, TokenGame!Spec

-----------------------------------------------------------------------------
(***************************************************************************)
(* What the token game keeps, the executor keeps: tokens of a conserved    *)
(* set of places are on their places or held by a callback.                *)
(***************************************************************************)

(***************************************************************************)
(* Sets of one size.                                                       *)
(***************************************************************************)
LEMMA OneToOne ==
    ASSUME NEW S, NEW T, IsFiniteSet(S), NEW f \in [S -> T],
           \A x, y \in S : f[x] = f[y] => x = y,
           \A y \in T : \E x \in S : f[x] = y
    PROVE  IsFiniteSet(T) /\ Cardinality(T) = Cardinality(S)
<1>1. f \in Bijection(S, T)
    BY DEF Bijection, Injection, Surjection, IsInjective
<1>2. ExistsBijection(S, T)
    BY <1>1 DEF ExistsBijection
<1>3. QED
    BY <1>2, FS_Bijection

(***************************************************************************)
(* Counting numbered elements.                                             *)
(***************************************************************************)
LEMMA NumberedFinite ==
    ASSUME NEW A, IsFiniteSet(A), NEW f, \A a \in A : f[a] \in Nat
    PROVE  IsFiniteSet(Numbered(f, A))
<1> DEFINE part(a) == {a} \X (1 .. f[a])
           parts == {part(a) : a \in A}
<1>1. IsFiniteSet(parts)
    <2> DEFINE g == [a \in A |-> part(a)]
    <2>1. g \in Surjection(A, parts)
        BY DEF Surjection
    <2>2. QED
        BY <2>1, FS_Surjection
<1>2. ASSUME NEW a \in A
      PROVE  IsFiniteSet(part(a))
    <2>1. 1 \in Int /\ f[a] \in Int
        BY <1>2
    <2>2. IsFiniteSet({a}) /\ IsFiniteSet(1 .. f[a])
        BY <2>1, FS_Singleton, FS_Interval
    <2>3. QED
        BY <2>2, FS_Product
<1>3. \A x \in parts : IsFiniteSet(x)
    BY <1>2
<1>4. IsFiniteSet(UNION parts)
    BY <1>1, <1>3, FS_UNION
<1>5. QED
    BY <1>4 DEF Numbered

LEMMA NumberedElement ==
    ASSUME NEW A, NEW f, NEW x
    PROVE  x \in Numbered(f, A) <=>
              x = <<x[1], x[2]>> /\ x[1] \in A /\ x[2] \in 1 .. f[x[1]]
<1>1. ASSUME x \in Numbered(f, A)
      PROVE  x = <<x[1], x[2]>> /\ x[1] \in A /\ x[2] \in 1 .. f[x[1]]
    <2>1. PICK a \in A : x \in {a} \X (1 .. f[a])
        BY <1>1 DEF Numbered
    <2>2. QED
        BY <2>1
<1>2. ASSUME x = <<x[1], x[2]>>, x[1] \in A, x[2] \in 1 .. f[x[1]]
      PROVE  x \in Numbered(f, A)
    <2> DEFINE a == x[1]
               k == x[2]
    <2>1. x = <<a, k>> /\ a \in A /\ k \in 1 .. f[a]
        BY <1>2
    <2> HIDE DEF a, k
    <2>2. x \in {a} \X (1 .. f[a])
        BY <2>1
    <2>3. QED
        BY <2>1, <2>2 DEF Numbered
<1>3. QED
    BY <1>1, <1>2

(***************************************************************************)
(* Bags add up.                                                            *)
(***************************************************************************)
LEMMA NumberedSum ==
    ASSUME NEW A, IsFiniteSet(A), NEW f, NEW g, NEW h,
           \A a \in A : f[a] \in Nat /\ g[a] \in Nat /\ h[a] = f[a] + g[a]
    PROVE  Cardinality(Numbered(h, A))
              = Cardinality(Numbered(f, A)) + Cardinality(Numbered(g, A))
<1> DEFINE F == Numbered(f, A)
           G == Numbered(g, A)
           H == Numbered(h, A)
           above == H \ F
           shift == [x \in G |-> <<x[1], x[2] + f[x[1]]>>]
<1>1. \A a \in A : h[a] \in Nat
    OBVIOUS
<1>2. IsFiniteSet(F) /\ IsFiniteSet(G) /\ IsFiniteSet(H)
    BY <1>1, NumberedFinite
<1>3. F \subseteq H
    <2> SUFFICES ASSUME NEW x \in F
                 PROVE  x \in H
        OBVIOUS
    <2>1. x = <<x[1], x[2]>> /\ x[1] \in A /\ x[2] \in 1 .. f[x[1]]
        BY NumberedElement
    <2>2. x[2] \in 1 .. h[x[1]]
        BY <2>1
    <2>3. QED
        BY <2>1, <2>2, NumberedElement
<1>4. ASSUME NEW x
      PROVE  x \in above <=>
                x = <<x[1], x[2]>> /\ x[1] \in A /\ x[2] \in f[x[1]] + 1 .. f[x[1]] + g[x[1]]
    <2>1. /\ x \in H <=> x = <<x[1], x[2]>> /\ x[1] \in A /\ x[2] \in 1 .. h[x[1]]
          /\ x \in F <=> x = <<x[1], x[2]>> /\ x[1] \in A /\ x[2] \in 1 .. f[x[1]]
        BY NumberedElement
    <2> HIDE DEF F, G, H
    <2>2. \A a \in A : \A k : k \in 1 .. h[a] /\ k \notin 1 .. f[a] <=> k \in f[a] + 1 .. f[a] + g[a]
        OBVIOUS
    <2>3. QED
        BY <2>1, <2>2
<1>5. IsFiniteSet(above) /\ Cardinality(above) = Cardinality(G)
    <2>1. \A x \in G : x = <<x[1], x[2]>> /\ x[1] \in A /\ x[2] \in 1 .. g[x[1]]
        BY NumberedElement
    <2> DEFINE back(y) == <<y[1], y[2] - f[y[1]]>>
    <2> HIDE DEF above
    <2>2. ASSUME NEW x \in G
          PROVE  shift[x] \in above /\ back(shift[x]) = x
        <3> DEFINE a == x[1]
                   k == x[2]
                   y == <<a, k + f[a]>>
        <3>1. x = <<a, k>> /\ a \in A /\ k \in 1 .. g[a] /\ f[a] \in Nat /\ g[a] \in Nat
            BY <2>1
        <3>2. shift[x] = y
            OBVIOUS
        <3> HIDE DEF a, k, shift
        <3>3. y[1] = a /\ y[2] = k + f[a] /\ y = <<y[1], y[2]>>
            OBVIOUS
        <3>4. y[2] \in f[a] + 1 .. f[a] + g[a] /\ y[2] - f[a] = k
            BY <3>1, <3>3
        <3>5. y \in above
            BY <1>4, <3>1, <3>3, <3>4
        <3>6. QED
            BY <3>1, <3>2, <3>3, <3>4, <3>5
    <2>3. ASSUME NEW y \in above
          PROVE  \E x \in G : shift[x] = y
        <3> DEFINE a == y[1]
                   k == y[2]
                   x == <<a, k - f[a]>>
        <3>1. y = <<a, k>> /\ a \in A /\ k \in f[a] + 1 .. f[a] + g[a] /\ f[a] \in Nat /\ g[a] \in Nat
            BY <1>4
        <3> HIDE DEF a, k
        <3>2. x = <<x[1], x[2]>> /\ x[1] \in A /\ x[2] \in 1 .. g[x[1]]
            BY <3>1
        <3>3. x \in G
            BY <3>2, NumberedElement
        <3>4. k - f[a] + f[a] = k
            BY <3>1
        <3>5. shift[x] = y
            BY <3>1, <3>3, <3>4
        <3>6. QED
            BY <3>3, <3>5
    <2> HIDE DEF G
    <2>4. shift \in [G -> above]
        BY <2>2
    <2> HIDE DEF shift
    <2>5. \A x, y \in G : shift[x] = shift[y] => x = y
        BY <2>2
    <2>6. IsFiniteSet(G)
        BY <1>2 DEF G
    <2>7. QED
        BY <2>3, <2>4, <2>5, <2>6, OneToOne
<1> HIDE DEF F, G, H, shift
<1>6. H = F \cup above /\ F \cap above = {}
    BY <1>3
<1> HIDE DEF above
<1>7. Cardinality(H) = Cardinality(F) + Cardinality(above) - Cardinality({})
    BY <1>2, <1>5, <1>6, FS_Union
<1>8. /\ Cardinality({}) = 0
       /\ Cardinality(F) \in Nat /\ Cardinality(above) \in Nat
    BY <1>2, <1>5, FS_EmptySet, FS_CardinalityType
<1>9. QED
    BY <1>5, <1>7, <1>8 DEF F, G, H

(***************************************************************************)
(* Tokens that are taken from the marking, and tokens that are produced.   *)
(***************************************************************************)
LEMMA ColouredFinite ==
    ASSUME NEW S \in SUBSET Place
    PROVE  IsFiniteSet(S) /\ IsFiniteSet(S \X Token)
<1>1. IsFiniteSet(S)
    BY StructureAssumption, FS_Subset
<1>2. QED
    BY <1>1, StructureAssumption, FS_Product

LEMMA TokensFinite ==
    ASSUME NEW S \in SUBSET Place, NEW m \in Marking
    PROVE  IsFiniteSet(TokensOn(m, S)) /\ Cardinality(TokensOn(m, S)) \in Nat
<1>1. \A a \in S \X Token : m[a] \in Nat
    BY DEF Marking, AugmentedToken
<1>2. IsFiniteSet(S \X Token)
    BY ColouredFinite
<1>3. IsFiniteSet(TokensOn(m, S))
    BY <1>1, <1>2, NumberedFinite DEF TokensOn
<1>4. QED
    BY <1>3, FS_CardinalityType

LEMMA TakenTokens ==
    ASSUME NEW S \in SUBSET Place, NEW t \in Transition, NEW m \in Marking, Enabled(t, m)
    PROVE  /\ deductMarking(m, input_n[t]) \in Marking
           /\ Cardinality(TokensOn(m, S)) =
                Cardinality(TokensOn(deductMarking(m, input_n[t]), S))
                    + Cardinality(TokensOn(input_n[t], S))
<1> DEFINE rest == deductMarking(m, input_n[t])
           pre == input_n[t]
           A == S \X Token
<1>1. \A a \in AugmentedToken : m[a] \in Nat /\ pre[a] \in Nat /\ m[a] >= pre[a] /\ rest[a] = m[a] - pre[a]
    BY StructureAssumption DEF Marking, Enabled, canFire, deductMarking
<1>2. rest = [a \in AugmentedToken |-> rest[a]]
    BY DEF deductMarking
<1> HIDE DEF rest, pre
<1>3. \A a \in AugmentedToken : rest[a] \in Nat /\ m[a] = rest[a] + pre[a]
    BY <1>1
<1>4. A \subseteq AugmentedToken
    BY DEF AugmentedToken
<1> HIDE DEF A
<1>5. \A a \in A : rest[a] \in Nat /\ pre[a] \in Nat /\ m[a] = rest[a] + pre[a]
    BY <1>1, <1>3, <1>4
<1>6. IsFiniteSet(A)
    BY ColouredFinite DEF A
<1>7. Cardinality(Numbered(m, A)) = Cardinality(Numbered(rest, A)) + Cardinality(Numbered(pre, A))
    BY <1>5, <1>6, NumberedSum
<1>8. rest \in Marking
    BY <1>2, <1>3 DEF Marking
<1>9. QED
    BY <1>7, <1>8 DEF TokensOn, A, rest, pre

LEMMA ProducedTokens ==
    ASSUME NEW S \in SUBSET Place, NEW t \in Transition, NEW m \in Marking, NEW res \in Token
    PROVE  /\ produce(m, t, res) \in Marking
           /\ Cardinality(TokensOn(produce(m, t, res), S)) =
                Cardinality(TokensOn(m, S)) + Cardinality(Numbered(output_n[t], S))
<1> DEFINE out == output_n[t]
           more == [a \in AugmentedToken |-> IF a[2] = res THEN out[a[1]] ELSE 0]
           all == produce(m, t, res)
           A == S \X Token
           f == [x \in Numbered(out, S) |-> <<<<x[1], res>>, x[2]>>]
<1>1. out \in [Place -> Nat]
    BY StructureAssumption
<1>2. \A a \in AugmentedToken : all[a] = m[a] + more[a]
    BY DEF produce
<1>3. all = [a \in AugmentedToken |-> all[a]]
    BY DEF produce
<1> HIDE DEF out, all
<1>4. \A a \in AugmentedToken : m[a] \in Nat /\ more[a] \in Nat /\ all[a] \in Nat
    BY <1>1, <1>2 DEF Marking, AugmentedToken
<1>5. all \in Marking
    BY <1>3, <1>4 DEF Marking
<1>6. A \subseteq AugmentedToken
    BY DEF AugmentedToken
<1>7. IsFiniteSet(A) /\ IsFiniteSet(S)
    BY ColouredFinite
<1>8. Cardinality(Numbered(all, A)) = Cardinality(Numbered(m, A)) + Cardinality(Numbered(more, A))
    <2> HIDE DEF more, A
    <2>1. \A a \in A : m[a] \in Nat /\ more[a] \in Nat /\ all[a] = m[a] + more[a]
        BY <1>2, <1>4, <1>6
    <2>2. QED
        BY <1>7, <2>1, NumberedSum
<1>9. Cardinality(Numbered(more, A)) = Cardinality(Numbered(out, S))
    <2>1. ASSUME NEW x \in Numbered(out, S)
          PROVE  f[x] \in Numbered(more, A)
        <3> DEFINE p == x[1]
                   k == x[2]
        <3>1. p \in S /\ k \in 1 .. out[p] /\ f[x] = <<<<p, res>>, k>>
            BY NumberedElement
        <3>2. <<p, res>> \in A /\ more[<<p, res>>] = out[p]
            BY <3>1 DEF AugmentedToken
        <3> HIDE DEF p, k, f, A, more
        <3>3. QED
            BY <3>1, <3>2, NumberedElement
    <2>2. ASSUME NEW y \in Numbered(more, A)
          PROVE  \E x \in Numbered(out, S) : f[x] = y
        <3>1. y = <<y[1], y[2]>> /\ y[1] \in A /\ y[2] \in 1 .. more[y[1]]
            BY NumberedElement
        <3> DEFINE p == y[1][1]
                   k == y[2]
                   x == <<p, k>>
        <3>2. y[1] = <<p, y[1][2]>> /\ p \in S /\ y[1] \in AugmentedToken
            BY <3>1, <1>6
        <3>3. more[y[1]] = IF y[1][2] = res THEN out[p] ELSE 0
            BY <3>2
        <3>4. y[1][2] = res /\ k \in 1 .. out[p]
            BY <3>1, <3>3
        <3>5. x \in Numbered(out, S)
            BY <3>2, <3>4, NumberedElement
        <3>6. f[x] = y
            BY <3>1, <3>2, <3>4, <3>5
        <3>7. QED
            BY <3>5, <3>6
    <2>3. \A x, z \in Numbered(out, S) : f[x] = f[z] => x = z
        <3> SUFFICES ASSUME NEW x \in Numbered(out, S), NEW z \in Numbered(out, S), f[x] = f[z]
                     PROVE  x = z
            OBVIOUS
        <3>1. x = <<x[1], x[2]>> /\ z = <<z[1], z[2]>>
            BY NumberedElement
        <3>2. QED
            BY <3>1
    <2>4. f \in [Numbered(out, S) -> Numbered(more, A)]
        BY <2>1
    <2>5. IsFiniteSet(Numbered(out, S))
        BY <1>1, <1>7, NumberedFinite
    <2> HIDE DEF f, more, A
    <2>6. QED
        BY <2>2, <2>3, <2>4, <2>5, OneToOne
<1>10. QED
    BY <1>5, <1>8, <1>9 DEF TokensOn, all, out, A

(***************************************************************************)
(* What the callbacks hold; `active' is the bag of them.                   *)
(***************************************************************************)
Holding(active, S) ==
    UNION {({t} \X (1 .. active[t])) \X TokensOn(input_n[t], S) : t \in Transition}

LEMMA HoldingElement ==
    ASSUME NEW active, NEW S, NEW x
    PROVE  x \in Holding(active, S) <=>
              /\ x = <<<<x[1][1], x[1][2]>>, x[2]>>
              /\ x[1][1] \in Transition /\ x[1][2] \in 1 .. active[x[1][1]]
              /\ x[2] \in TokensOn(input_n[x[1][1]], S)
<1>1. ASSUME x \in Holding(active, S)
      PROVE  /\ x = <<<<x[1][1], x[1][2]>>, x[2]>>
             /\ x[1][1] \in Transition /\ x[1][2] \in 1 .. active[x[1][1]]
             /\ x[2] \in TokensOn(input_n[x[1][1]], S)
    <2>1. PICK t \in Transition : x \in ({t} \X (1 .. active[t])) \X TokensOn(input_n[t], S)
        BY <1>1 DEF Holding
    <2>2. QED
        BY <2>1
<1>2. ASSUME x = <<<<x[1][1], x[1][2]>>, x[2]>>,
             x[1][1] \in Transition, x[1][2] \in 1 .. active[x[1][1]],
             x[2] \in TokensOn(input_n[x[1][1]], S)
      PROVE  x \in Holding(active, S)
    <2> DEFINE t == x[1][1]
               k == x[1][2]
               u == x[2]
    <2>1. /\ x = <<<<t, k>>, u>> /\ t \in Transition /\ k \in 1 .. active[t]
          /\ u \in TokensOn(input_n[t], S)
        BY <1>2
    <2> HIDE DEF t, k, u
    <2>2. x \in ({t} \X (1 .. active[t])) \X TokensOn(input_n[t], S)
        BY <2>1
    <2>3. QED
        BY <2>1, <2>2 DEF Holding
<1>3. QED
    BY <1>1, <1>2

LEMMA HoldingFinite ==
    ASSUME NEW active \in [Transition -> Nat], NEW S \in SUBSET Place
    PROVE  IsFiniteSet(Holding(active, S)) /\ Cardinality(Holding(active, S)) \in Nat
<1> DEFINE part(t) == ({t} \X (1 .. active[t])) \X TokensOn(input_n[t], S)
           parts == {part(t) : t \in Transition}
<1>1. IsFiniteSet(parts)
    <2> DEFINE g == [t \in Transition |-> part(t)]
    <2>1. g \in Surjection(Transition, parts)
        BY DEF Surjection
    <2>2. QED
        BY <2>1, StructureAssumption, FS_Surjection
<1>2. ASSUME NEW t \in Transition
      PROVE  IsFiniteSet(part(t))
    <2>1. 1 \in Int /\ active[t] \in Int
        OBVIOUS
    <2>2. IsFiniteSet({t}) /\ IsFiniteSet(1 .. active[t])
        BY <2>1, FS_Singleton, FS_Interval
    <2>3. IsFiniteSet({t} \X (1 .. active[t]))
        BY <2>2, FS_Product
    <2>4. IsFiniteSet(TokensOn(input_n[t], S))
        BY StructureAssumption, TokensFinite
    <2>5. QED
        BY <2>3, <2>4, FS_Product
<1>3. \A x \in parts : IsFiniteSet(x)
    BY <1>2
<1>4. IsFiniteSet(Holding(active, S))
    BY <1>1, <1>3, FS_UNION DEF Holding
<1>5. QED
    BY <1>4, FS_CardinalityType

LEMMA OneMoreHolds ==
    ASSUME NEW active \in [Transition -> Nat], NEW S \in SUBSET Place, NEW t \in Transition,
           NEW next, next = [active EXCEPT ![t] = @ + 1]
    PROVE  Cardinality(Holding(next, S))
              = Cardinality(Holding(active, S)) + Cardinality(TokensOn(input_n[t], S))
<1> DEFINE old == Holding(active, S)
           units == TokensOn(input_n[t], S)
           n == active[t] + 1
           new == {<<t, n>>} \X units
           f == [u \in units |-> <<<<t, n>>, u>>]
<1>1. next \in [Transition -> Nat] /\ next[t] = n /\ \A u \in Transition : u # t => next[u] = active[u]
    OBVIOUS
<1>2. IsFiniteSet(units)
    BY StructureAssumption, TokensFinite
<1>3. IsFiniteSet(old) /\ Cardinality(old) \in Nat
    BY HoldingFinite
<1>4. IsFiniteSet(new) /\ Cardinality(new) = Cardinality(units)
    <2>1. f \in [units -> new]
        OBVIOUS
    <2>2. \A x, y \in units : f[x] = f[y] => x = y
        OBVIOUS
    <2>3. \A y \in new : \E x \in units : f[x] = y
        OBVIOUS
    <2> HIDE DEF f, new, units
    <2>4. QED
        BY <1>2, <2>1, <2>2, <2>3, OneToOne
<1>5. Holding(next, S) = old \cup new
    <2>1. ASSUME NEW x
          PROVE  x \in Holding(next, S) <=> x \in old \cup new
        <3> DEFINE u == x[1][1]
                   k == x[1][2]
                   y == x[2]
                   shape == x = <<<<u, k>>, y>> /\ u \in Transition /\ y \in TokensOn(input_n[u], S)
        <3>1. x \in Holding(next, S) <=> shape /\ k \in 1 .. next[u]
            BY HoldingElement
        <3>2. x \in old <=> shape /\ k \in 1 .. active[u]
            BY HoldingElement
        <3>3. x \in new <=> shape /\ u = t /\ k = n
            OBVIOUS
        <3>4. shape => (k \in 1 .. next[u] <=> k \in 1 .. active[u] \/ (u = t /\ k = n))
            BY <1>1
        <3> HIDE DEF shape, u, k, y, old, new, units
        <3>5. QED
            BY <3>1, <3>2, <3>3, <3>4
    <2>2. QED
        BY <2>1
<1>6. old \cap new = {}
    <2>1. ASSUME NEW x \in old, x \in new
          PROVE  FALSE
        <3>1. x[1][1] = t /\ x[1][2] = n
            BY <2>1
        <3>2. x[1][2] \in 1 .. active[x[1][1]]
            BY HoldingElement
        <3>3. QED
            BY <3>1, <3>2
    <2>2. QED
        BY <2>1
<1> HIDE DEF old, new, units
<1>7. Cardinality(old \cup new) = Cardinality(old) + Cardinality(new) - Cardinality({})
    BY <1>3, <1>4, <1>6, FS_Union
<1>8. Cardinality({}) = 0 /\ Cardinality(new) \in Nat
    BY <1>4, FS_EmptySet, FS_CardinalityType
<1>9. Cardinality(old \cup new) = Cardinality(old) + Cardinality(units)
    BY <1>3, <1>4, <1>7, <1>8
<1>10. QED
    BY <1>5, <1>9 DEF old, units

LEMMA NobodyHolds ==
    ASSUME NEW S
    PROVE  Cardinality(Holding(Nothing, S)) = 0
<1>1. ASSUME NEW x \in Holding(Nothing, S)
      PROVE  FALSE
    <2>1. x[1][1] \in Transition /\ x[1][2] \in 1 .. Nothing[x[1][1]]
        BY HoldingElement
    <2>2. QED
        BY <2>1 DEF Nothing
<1>2. Holding(Nothing, S) = {}
    BY <1>1
<1>3. QED
    BY <1>2, FS_EmptySet

-----------------------------------------------------------------------------
(***************************************************************************)
(* In the token game: a firing that is begun moves the tokens from the     *)
(* places to the callback, its completion moves them back.                 *)
(***************************************************************************)
Kept(marking, active, S) ==
    Cardinality(TokensOn(marking, S)) + Cardinality(Holding(active, S))
        = Cardinality(TokensOn(initial_tokens, S))

LEMMA Counts ==
    ASSUME NEW S \in Conserved, NEW m \in Marking, NEW active \in [Transition -> Nat]
    PROVE  /\ S \in SUBSET Place
           /\ Cardinality(TokensOn(m, S)) \in Nat
           /\ Cardinality(Holding(active, S)) \in Nat
           /\ \A t \in Transition :
                /\ Cardinality(TokensOn(input_n[t], S)) \in Nat
                /\ Cardinality(Numbered(output_n[t], S)) = Cardinality(TokensOn(input_n[t], S))
<1>1. S \in SUBSET Place
    BY DEF Conserved
<1>2. \A t \in Transition : input_n[t] \in Marking
    BY StructureAssumption
<1>3. QED
    BY <1>1, <1>2, TokensFinite, HoldingFinite DEF Conserved

LEMMA BeginKeeps ==
    ASSUME NEW S \in Conserved, NEW m \in Marking, NEW active \in [Transition -> Nat],
           NEW t \in Transition, Enabled(t, m), Kept(m, active, S)
    PROVE  Kept(deductMarking(m, input_n[t]), [active EXCEPT ![t] = @ + 1], S)
<1> DEFINE next == [active EXCEPT ![t] = @ + 1]
           rest == deductMarking(m, input_n[t])
<1>1. S \in SUBSET Place /\ next \in [Transition -> Nat]
    BY Counts
<1>2. /\ rest \in Marking
      /\ Cardinality(TokensOn(m, S))
            = Cardinality(TokensOn(rest, S)) + Cardinality(TokensOn(input_n[t], S))
    BY <1>1, TakenTokens
<1>3. Cardinality(Holding(next, S))
        = Cardinality(Holding(active, S)) + Cardinality(TokensOn(input_n[t], S))
    BY <1>1, OneMoreHolds
<1> HIDE DEF next, rest
<1>4. /\ Cardinality(TokensOn(rest, S)) \in Nat
      /\ Cardinality(Holding(active, S)) \in Nat
      /\ Cardinality(TokensOn(input_n[t], S)) \in Nat
    BY <1>2, Counts
<1>5. Kept(rest, next, S)
    BY <1>2, <1>3, <1>4 DEF Kept
<1>6. QED
    BY <1>5 DEF rest, next

LEMMA InsertKeeps ==
    ASSUME NEW S \in Conserved, NEW m \in Marking, NEW active \in [Transition -> Nat],
           NEW t \in InputTransition, Kept(m, active, S)
    PROVE  Kept(m, [active EXCEPT ![t] = @ + 1], S)
<1> DEFINE next == [active EXCEPT ![t] = @ + 1]
<1>1. t \in Transition /\ input_n[t] = EmptyMarking
    BY DEF InputTransition
<1>2. S \in SUBSET Place /\ next \in [Transition -> Nat]
    BY <1>1, Counts
<1>3. Cardinality(Holding(next, S))
        = Cardinality(Holding(active, S)) + Cardinality(TokensOn(input_n[t], S))
    BY <1>1, <1>2, OneMoreHolds
<1>4. ASSUME NEW x \in TokensOn(input_n[t], S)
      PROVE  FALSE
    <2>1. x[1] \in S \X Token /\ x[2] \in 1 .. EmptyMarking[x[1]]
        BY <1>1, NumberedElement DEF TokensOn
    <2>2. QED
        BY <1>2, <2>1 DEF EmptyMarking, AugmentedToken
<1>5. Cardinality(TokensOn(input_n[t], S)) = 0
    <2>1. TokensOn(input_n[t], S) = {}
        BY <1>4
    <2>2. QED
        BY <2>1, FS_EmptySet
<1> HIDE DEF next
<1>6. Cardinality(Holding(active, S)) \in Nat
    BY Counts
<1>7. Kept(m, next, S)
    BY <1>3, <1>5, <1>6 DEF Kept
<1>8. QED
    BY <1>7 DEF next

LEMMA CompleteKeeps ==
    ASSUME NEW S \in Conserved, NEW m \in Marking, NEW active \in [Transition -> Nat],
           NEW t \in Transition, NEW res \in Returns[t], active[t] > 0, Kept(m, active, S)
    PROVE  Kept(produce(m, t, res), [active EXCEPT ![t] = @ - 1], S)
<1> DEFINE next == [active EXCEPT ![t] = @ - 1]
           more == produce(m, t, res)
<1> S \in SUBSET Place
    BY DEF Conserved
<1>1. next \in [Transition -> Nat] /\ active = [next EXCEPT ![t] = @ + 1]
    <2>1. active[t] - 1 \in Nat /\ active[t] - 1 + 1 = active[t]
        OBVIOUS
    <2>2. next \in [Transition -> Nat] /\ next[t] + 1 = active[t]
        BY <2>1
    <2>3. \A u \in Transition : u # t => next[u] = active[u]
        OBVIOUS
    <2> HIDE DEF next
    <2>4. \A u \in Transition : active[u] = [next EXCEPT ![t] = @ + 1][u]
        BY <2>2, <2>3
    <2>5. QED
        BY <2>2, <2>4
<1>2. res \in Token
    BY StructureAssumption
<1>3. /\ more \in Marking
      /\ Cardinality(TokensOn(more, S))
            = Cardinality(TokensOn(m, S)) + Cardinality(Numbered(output_n[t], S))
    BY <1>2, ProducedTokens
<1> HIDE DEF next, more
<1>4. Cardinality(Holding(active, S))
        = Cardinality(Holding(next, S)) + Cardinality(TokensOn(input_n[t], S))
    BY <1>1, OneMoreHolds
<1>5. /\ Cardinality(TokensOn(m, S)) \in Nat
      /\ Cardinality(Holding(next, S)) \in Nat
      /\ Cardinality(TokensOn(input_n[t], S)) \in Nat
      /\ Cardinality(Numbered(output_n[t], S)) = Cardinality(TokensOn(input_n[t], S))
    BY <1>1, Counts
<1>6. Kept(more, next, S)
    BY <1>3, <1>4, <1>5 DEF Kept
<1>7. QED
    BY <1>6 DEF more, next

LEMMA ImmediateKeeps ==
    ASSUME NEW S \in Conserved, NEW m \in Marking, NEW active \in [Transition -> Nat],
           NEW t \in Transition, NEW res \in Returns[t], Enabled(t, m), Kept(m, active, S)
    PROVE  Kept(produce(deductMarking(m, input_n[t]), t, res), active, S)
<1> DEFINE rest == deductMarking(m, input_n[t])
           more == produce(rest, t, res)
<1>1. S \in SUBSET Place /\ res \in Token
    BY Counts, StructureAssumption
<1>2. /\ rest \in Marking
      /\ Cardinality(TokensOn(m, S))
            = Cardinality(TokensOn(rest, S)) + Cardinality(TokensOn(input_n[t], S))
    BY <1>1, TakenTokens
<1> HIDE DEF rest
<1>3. Cardinality(TokensOn(more, S))
        = Cardinality(TokensOn(rest, S)) + Cardinality(Numbered(output_n[t], S))
    BY <1>1, <1>2, ProducedTokens
<1>4. Cardinality(Numbered(output_n[t], S)) = Cardinality(TokensOn(input_n[t], S))
    BY Counts
<1> HIDE DEF more
<1>5. Kept(more, active, S)
    BY <1>2, <1>3, <1>4 DEF Kept
<1>6. QED
    BY <1>5 DEF more, rest

LEMMA GameKeeps ==
    ASSUME TypeOK, TokenGame!Next, NEW S \in Conserved, Kept(tokens, scheduled_callbacks, S)
    PROVE  Kept(tokens', scheduled_callbacks', S)
<1>1. tokens \in Marking /\ scheduled_callbacks \in [Transition -> Nat]
    BY DEF TypeOK
<1>2. CASE TokenGame!Restart
    <2>1. scheduled_callbacks' = Nothing /\ tokens' = initial_tokens
        BY <1>2, SameNet DEF TokenGame!Restart
    <2>2. Cardinality(TokensOn(initial_tokens, S)) \in Nat
        BY StructureAssumption, TokensFinite DEF Conserved
    <2>3. QED
        BY <2>1, <2>2, NobodyHolds DEF Kept
<1>3. ASSUME NEW t \in Transition, TokenGame!Begin(t)
      PROVE  Kept(tokens', scheduled_callbacks', S)
    BY <1>1, <1>3, SameNet, BeginKeeps DEF TokenGame!Begin
<1>4. ASSUME NEW t \in Transition, TokenGame!Insert(t)
      PROVE  Kept(tokens', scheduled_callbacks', S)
    BY <1>1, <1>4, SameNet, InsertKeeps DEF TokenGame!Insert
<1>5. ASSUME NEW t \in Transition, NEW res \in Returns[t], TokenGame!Complete(t, res)
      PROVE  Kept(tokens', scheduled_callbacks', S)
    BY <1>1, <1>5, SameNet, CompleteKeeps DEF TokenGame!Complete
<1>6. ASSUME NEW t \in Transition, NEW res \in Returns[t], TokenGame!Immediate(t, res)
      PROVE  Kept(tokens', scheduled_callbacks', S)
    BY <1>1, <1>6, SameNet, ImmediateKeeps DEF TokenGame!Immediate
<1>7. QED
    BY <1>2, <1>3, <1>4, <1>5, <1>6 DEF TokenGame!Next

(***************************************************************************)
(* A resource is kept through split firings, failures, cancellations and   *)
(* runs.  The token game keeps it, and the executor plays the token game.  *)
(***************************************************************************)
THEOREM ResourcesKept == Spec => []ResourcesAreKept
<1> DEFINE Inv == Tracked /\ Books /\ ResultsAreReturned
           Keeps == \A S \in Conserved : Kept(tokens, scheduled_callbacks, S)
<1>1. Init => Inv
    BY InitType, InitTracked, BooksInit, ResultsInit DEF Tracked
<1>2. Inv /\ [Next]_vars => Inv'
    BY StepTracked, BooksStep, StepResults DEF Tracked
<1>3. Init => Keeps
    <2> SUFFICES ASSUME Init, NEW S \in Conserved
                 PROVE  Kept(tokens, scheduled_callbacks, S)
        OBVIOUS
    <2>1. tokens = initial_tokens /\ scheduled_callbacks = Nothing
        BY DEF Init
    <2>2. Cardinality(TokensOn(initial_tokens, S)) \in Nat
        BY StructureAssumption, TokensFinite DEF Conserved
    <2>3. QED
        BY <2>1, <2>2, NobodyHolds DEF Kept
<1>4. Inv /\ Keeps /\ [Next]_vars => Keeps'
    <2> SUFFICES ASSUME Inv, Keeps, [Next]_vars, NEW S \in Conserved
                 PROVE  Kept(tokens', scheduled_callbacks', S)
        BY DEF Kept, Conserved
    <2>1. TokenGame!Next \/ UNCHANGED <<tokens, scheduled_callbacks>>
        BY StepImplements DEF Tracked, TokenGame!vars
    <2>2. QED
        BY <2>1, GameKeeps DEF Tracked
<1>5. Keeps => ResourcesAreKept
    BY DEF Kept, ResourcesAreKept, Holding, HeldFrom
<1>6. QED
    BY <1>1, <1>2, <1>3, <1>4, <1>5, PTL DEF Spec
=================================================================================
