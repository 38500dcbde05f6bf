----------------------------- MODULE TaskSystemProofs ----------------------------
(***************************************************************************)
(* Proofs about the thread pool, for every number of threads and tasks.    *)
(***************************************************************************)
EXTENDS TaskSystem, FiniteSetTheorems, TLAPS

(***************************************************************************)
(* The threads that have to dequeue once more before they end.             *)
(***************************************************************************)
NotWoken == {t \in Thread : pc[t] \in {"wait", "run"}}

(***************************************************************************)
(* While stopping, each thread that still has to dequeue has a wake-up of  *)
(* its own, in the queue or to come.  A thread that takes a task in its    *)
(* place leaves one over.                                                  *)
(***************************************************************************)
EnoughWakeups ==
    is_running_ => Cardinality(NotWoken) <= wakeups + (n_threads - i)

(***************************************************************************)
(* The flag goes with the destructor; wake-ups are only there while        *)
(* stopping, and all of them have been enqueued once the destructor joins. *)
(***************************************************************************)
StopsInOrder ==
    /\ is_running_ <=> destructor # "alive"
    /\ destructor = "alive" => i = 0
    /\ destructor \in {"join", "returned"} => i = n_threads
    /\ wakeups > 0 => is_running_

(***************************************************************************)
(* What a thread holds, by its place in the loop.                          *)
(***************************************************************************)
Holds ==
    \A t \in Thread :
        /\ pc[t] \in {"wait", "ended"} => transition[t] = Nothing
        /\ pc[t] = "run" => transition[t] # Nothing
        /\ pc[t] = "test" /\ transition[t] = Nothing => is_running_

PoolInv == PoolTypeOK /\ StopsInOrder /\ Holds /\ EachTaskInOnePlace /\ EnoughWakeups

(***************************************************************************)
(* The threads are finitely many, and so is every subset of them.          *)
(***************************************************************************)
LEMMA ThreadsFinite ==
    ASSUME NEW S \in SUBSET Thread
    PROVE  IsFiniteSet(S) /\ Cardinality(S) \in Nat /\ Cardinality(S) <= n_threads
<1>1. IsFiniteSet(Thread) /\ Cardinality(Thread) = n_threads
    BY FS_Interval, PoolAssumption DEF Thread, PoolAssumption
<1>2. QED
    BY <1>1, FS_Subset, FS_CardinalityType

LEMMA PoolInit == Init => PoolInv
<1> SUFFICES ASSUME Init PROVE PoolInv
    OBVIOUS
<1>1. PoolTypeOK
    <2>1. is_running_ \in BOOLEAN
        BY Zenon DEF Init
    <2>2. QED
        BY <2>1, PoolAssumption DEF Init, PoolTypeOK, PoolAssumption
<1>2. StopsInOrder /\ Holds /\ EnoughWakeups
    BY DEF Init, StopsInOrder, Holds, EnoughWakeups
<1>3. EachTaskInOnePlace
    BY DEF Init, EachTaskInOnePlace
<1>4. QED
    BY <1>1, <1>2, <1>3 DEF PoolInv

(***************************************************************************)
(* A step of a thread, seen at the thread.                                 *)
(***************************************************************************)
LEMMA StepFacts ==
    ASSUME PoolInv, NEW t \in Thread, NEW from, NEW to, NEW k, Step(t, from, to, k),
           to \in {"wait", "test", "run", "ended"}, k \in Task \cup {Nothing}
    PROVE  /\ pc[t] = from /\ pc'[t] = to
           /\ transition'[t] = k
           /\ \A u \in Thread \ {t} : pc'[u] = pc[u] /\ transition'[u] = transition[u]
           /\ pc' \in [Thread -> {"wait", "test", "run", "ended"}]
           /\ transition' \in [Thread -> Task \cup {Nothing}]
           /\ UNCHANGED <<is_running_, destructor, i, pushed>>
    BY DEF Step, PoolInv, PoolTypeOK, stopping

(***************************************************************************)
(* The tasks that the threads hold, when one of them lets go of its own.   *)
(***************************************************************************)
Held == {transition[u] : u \in Thread} \ {Nothing}

LEMMA HeldStep ==
    ASSUME PoolInv, NEW t \in Thread, NEW from, NEW to, Step(t, from, to, Nothing),
           to \in {"wait", "test", "run", "ended"}
    PROVE  Held' = Held \ {transition[t]}
<1>1. /\ transition'[t] = Nothing
      /\ \A u \in Thread \ {t} : transition'[u] = transition[u]
    BY StepFacts
<1>2. \A u \in Thread \ {t} : transition[u] # transition[t] \/ transition[u] = Nothing
    BY DEF PoolInv, EachTaskInOnePlace
<1>3. ASSUME NEW k \in Held' PROVE k \in Held \ {transition[t]}
    BY <1>1, <1>2, <1>3 DEF Held
<1>4. ASSUME NEW k \in Held \ {transition[t]} PROVE k \in Held'
    BY <1>1, <1>4 DEF Held
<1>5. QED
    BY <1>3, <1>4

(***************************************************************************)
(* How the threads that have to dequeue once more change.                  *)
(***************************************************************************)
LEMMA NotWokenStep ==
    ASSUME PoolInv, NEW t \in Thread, NEW from, NEW to, NEW k, Step(t, from, to, k),
           to \in {"wait", "test", "run", "ended"}, k \in Task \cup {Nothing}
    PROVE  /\ from = "wait" /\ to = "test" =>
                  Cardinality(NotWoken') = Cardinality(NotWoken) - 1
           /\ from = "test" /\ to = "ended" => NotWoken' = NotWoken
           /\ from = "run" /\ to = "wait" => NotWoken' = NotWoken
<1>1. CASE from = "wait" /\ to = "test"
    <2>1. NotWoken' = NotWoken \ {t} /\ t \in NotWoken
        BY <1>1, StepFacts DEF NotWoken
    <2>2. IsFiniteSet(NotWoken)
        BY ThreadsFinite DEF NotWoken
    <2>3. QED
        BY <1>1, <2>1, <2>2, FS_RemoveElement
<1>2. CASE from = "test" /\ to = "ended"
    BY <1>2, StepFacts DEF NotWoken
<1>3. CASE from = "run" /\ to = "wait"
    BY <1>3, StepFacts DEF NotWoken
<1>4. QED
    BY <1>1, <1>2, <1>3

LEMMA LoopKeepsInv ==
    ASSUME PoolInv, NEW t \in Thread, loop(t)
    PROVE  PoolInv'
<1> USE PoolAssumption DEF PoolAssumption
<1>0. Cardinality(NotWoken) \in Nat
    BY ThreadsFinite DEF NotWoken
<1>1. CASE TakeTask(t)
    <2>1. PICK k \in queue : /\ Step(t, "wait", "test", k)
                             /\ queue' = queue \ {k}
                             /\ UNCHANGED <<wakeups, ran, dropped>>
        BY <1>1 DEF TakeTask
    <2>2. k \in Task /\ k # Nothing
        BY DEF PoolInv, PoolTypeOK
    <2>3. /\ pc[t] = "wait" /\ pc'[t] = "test" /\ transition'[t] = k
          /\ transition[t] = Nothing
          /\ \A u \in Thread \ {t} : pc'[u] = pc[u] /\ transition'[u] = transition[u]
          /\ pc' \in [Thread -> {"wait", "test", "run", "ended"}]
          /\ transition' \in [Thread -> Task \cup {Nothing}]
          /\ UNCHANGED <<is_running_, destructor, i, pushed>>
        BY <2>1, <2>2, StepFacts DEF PoolInv, Holds
    <2>4. PoolTypeOK'
        BY <2>1, <2>3 DEF PoolInv, PoolTypeOK
    <2>5. StopsInOrder' /\ Holds'
        BY <2>1, <2>2, <2>3 DEF PoolInv, StopsInOrder, Holds
    <2>6. EachTaskInOnePlace'
        BY <2>1, <2>2, <2>3 DEF PoolInv, EachTaskInOnePlace
    <2>7. Cardinality(NotWoken') = Cardinality(NotWoken) - 1
        BY <2>1, <2>2, NotWokenStep
    <2>8. EnoughWakeups'
        BY <1>0, <2>1, <2>3, <2>7 DEF PoolInv, EnoughWakeups, PoolTypeOK
    <2>9. QED
        BY <2>4, <2>5, <2>6, <2>8 DEF PoolInv
<1>2. CASE TakeWakeup(t)
    <2>1. /\ Step(t, "wait", "test", Nothing) /\ wakeups > 0 /\ wakeups' = wakeups - 1
          /\ UNCHANGED <<queue, ran, dropped>>
        BY <1>2 DEF TakeWakeup
    <2>3. /\ pc[t] = "wait" /\ pc'[t] = "test" /\ transition'[t] = Nothing
          /\ transition[t] = Nothing
          /\ \A u \in Thread \ {t} : pc'[u] = pc[u] /\ transition'[u] = transition[u]
          /\ pc' \in [Thread -> {"wait", "test", "run", "ended"}]
          /\ transition' \in [Thread -> Task \cup {Nothing}]
          /\ UNCHANGED <<is_running_, destructor, i, pushed>>
        BY <2>1, StepFacts DEF PoolInv, Holds
    <2>4. PoolTypeOK'
        BY <2>1, <2>3 DEF PoolInv, PoolTypeOK
    <2>5. StopsInOrder' /\ Holds'
        BY <2>1, <2>3 DEF PoolInv, StopsInOrder, Holds, PoolTypeOK
    <2>6. EachTaskInOnePlace'
        BY <2>1, <2>3 DEF PoolInv, EachTaskInOnePlace
    <2>7. Cardinality(NotWoken') = Cardinality(NotWoken) - 1
        BY <2>1, NotWokenStep
    <2>8. EnoughWakeups'
        BY <1>0, <2>1, <2>3, <2>7 DEF PoolInv, EnoughWakeups, PoolTypeOK
    <2>9. QED
        BY <2>4, <2>5, <2>6, <2>8 DEF PoolInv
<1>3. CASE Break(t)
    <2>1. /\ Step(t, "test", "ended", Nothing) /\ is_running_
          /\ dropped' = dropped \cup ({transition[t]} \ {Nothing})
          /\ UNCHANGED <<queue, wakeups, ran>>
        BY <1>3 DEF Break, contents
    <2>3. /\ pc[t] = "test" /\ pc'[t] = "ended" /\ transition'[t] = Nothing
          /\ \A u \in Thread \ {t} : pc'[u] = pc[u] /\ transition'[u] = transition[u]
          /\ pc' \in [Thread -> {"wait", "test", "run", "ended"}]
          /\ transition' \in [Thread -> Task \cup {Nothing}]
          /\ UNCHANGED <<is_running_, destructor, i, pushed>>
        BY <2>1, StepFacts, SMTT(60), ZenonT(60)
    <2>4. PoolTypeOK'
        BY <2>1, <2>3 DEF PoolInv, PoolTypeOK
    <2>5. StopsInOrder' /\ Holds'
        BY <2>1, <2>3 DEF PoolInv, StopsInOrder, Holds
    <2>6. EachTaskInOnePlace'
        <3>1. Held' = Held \ {transition[t]}
            BY <2>1, HeldStep
        <3>2. /\ transition[t] # Nothing => transition[t] \in Held
              /\ Nothing \notin Held
            BY DEF Held
        <3>3. pushed = queue \cup ran \cup dropped \cup Held
            BY DEF PoolInv, EachTaskInOnePlace, Held
        <3>4. pushed' = queue' \cup ran' \cup dropped' \cup Held'
            <4> DEFINE tr == transition[t]
            <4>1. /\ pushed' = pushed /\ queue' = queue /\ ran' = ran
                  /\ dropped' = dropped \cup ({tr} \ {Nothing}) /\ Held' = Held \ {tr}
                BY <2>1, <2>3, <3>1
            <4> HIDE DEF tr
            <4>2. tr # Nothing => tr \in Held
                BY <3>2 DEF tr
            <4>3. CASE tr = Nothing
                BY <3>2, <3>3, <4>1, <4>3
            <4>4. CASE tr # Nothing
                BY <3>3, <4>1, <4>2, <4>4
            <4>5. QED
                BY <4>3, <4>4
        <3>5. /\ transition[t] \notin queue \cup ran \cup dropped
              /\ \A u \in Thread \ {t} :
                    transition[u] # transition[t] \/ transition[u] = Nothing
            BY DEF PoolInv, EachTaskInOnePlace
        <3>6. \A u \in Thread : transition'[u] \notin queue' \cup ran' \cup dropped'
            BY <2>1, <2>3, <2>4, <3>5 DEF PoolInv, PoolTypeOK, EachTaskInOnePlace
        <3>7. /\ \A u, v \in Thread :
                    u # v => transition'[u] # transition'[v] \/ transition'[u] = Nothing
              /\ queue' \cap ran' = {} /\ queue' \cap dropped' = {}
              /\ ran' \cap dropped' = {} /\ (dropped' # {} => is_running_')
            BY <2>1, <2>3, <3>5 DEF PoolInv, EachTaskInOnePlace
        <3>8. QED
            BY <3>4, <3>6, <3>7 DEF EachTaskInOnePlace, Held
    <2>7. NotWoken' = NotWoken
        BY <2>1, NotWokenStep
    <2>8. EnoughWakeups'
        BY <2>1, <2>3, <2>7 DEF PoolInv, EnoughWakeups
    <2>9. QED
        BY <2>4, <2>5, <2>6, <2>8 DEF PoolInv
<1>4. CASE Call(t)
    <2>1. /\ Step(t, "test", "run", transition[t]) /\ ~is_running_
          /\ UNCHANGED <<queue, wakeups, ran, dropped>>
          /\ transition[t] \in Task \cup {Nothing}
        BY <1>4 DEF Call, contents, PoolInv, PoolTypeOK
    <2>3. /\ pc[t] = "test" /\ pc'[t] = "run" /\ transition'[t] = transition[t]
          /\ transition[t] # Nothing
          /\ \A u \in Thread \ {t} : pc'[u] = pc[u] /\ transition'[u] = transition[u]
          /\ pc' \in [Thread -> {"wait", "test", "run", "ended"}]
          /\ transition' \in [Thread -> Task \cup {Nothing}]
          /\ UNCHANGED <<is_running_, destructor, i, pushed>>
        BY <2>1, StepFacts DEF PoolInv, Holds
    <2>4. PoolTypeOK'
        BY <2>1, <2>3 DEF PoolInv, PoolTypeOK
    <2>5. StopsInOrder' /\ Holds'
        BY <2>1, <2>3 DEF PoolInv, StopsInOrder, Holds
    <2>6. EachTaskInOnePlace'
        BY <2>1, <2>3 DEF PoolInv, EachTaskInOnePlace
    <2>7. EnoughWakeups'
        BY <2>1, <2>3 DEF EnoughWakeups
    <2>8. QED
        BY <2>4, <2>5, <2>6, <2>7 DEF PoolInv
<1>5. CASE Return(t)
    <2>1. /\ Step(t, "run", "wait", Nothing)
          /\ ran' = ran \cup {transition[t]}
          /\ UNCHANGED <<queue, wakeups, dropped>>
        BY <1>5 DEF Return, contents
    <2>3. /\ pc[t] = "run" /\ pc'[t] = "wait" /\ transition'[t] = Nothing
          /\ transition[t] \in Task
          /\ \A u \in Thread \ {t} : pc'[u] = pc[u] /\ transition'[u] = transition[u]
          /\ pc' \in [Thread -> {"wait", "test", "run", "ended"}]
          /\ transition' \in [Thread -> Task \cup {Nothing}]
          /\ UNCHANGED <<is_running_, destructor, i, pushed>>
        BY <2>1, StepFacts DEF PoolInv, Holds, PoolTypeOK
    <2>4. PoolTypeOK'
        BY <2>1, <2>3 DEF PoolInv, PoolTypeOK
    <2>5. StopsInOrder' /\ Holds'
        BY <2>1, <2>3 DEF PoolInv, StopsInOrder, Holds
    <2>6. EachTaskInOnePlace'
        <3>1. Held' = Held \ {transition[t]}
            BY <2>1, HeldStep
        <3>2. /\ transition[t] # Nothing => transition[t] \in Held
              /\ Nothing \notin Held
            BY DEF Held
        <3>3. pushed = queue \cup ran \cup dropped \cup Held
            BY DEF PoolInv, EachTaskInOnePlace, Held
        <3>4. pushed' = queue' \cup ran' \cup dropped' \cup Held'
            BY <2>1, <2>3, <3>1, <3>2, <3>3
        <3>5. /\ transition[t] \notin queue \cup ran \cup dropped
              /\ \A u \in Thread \ {t} :
                    transition[u] # transition[t] \/ transition[u] = Nothing
            BY DEF PoolInv, EachTaskInOnePlace
        <3>6. \A u \in Thread : transition'[u] \notin queue' \cup ran' \cup dropped'
            BY <2>1, <2>3, <2>4, <3>5 DEF PoolInv, PoolTypeOK, EachTaskInOnePlace
        <3>7. /\ \A u, v \in Thread :
                    u # v => transition'[u] # transition'[v] \/ transition'[u] = Nothing
              /\ queue' \cap ran' = {} /\ queue' \cap dropped' = {}
              /\ ran' \cap dropped' = {} /\ (dropped' # {} => is_running_')
            BY <2>1, <2>3, <3>5 DEF PoolInv, EachTaskInOnePlace
        <3>8. QED
            BY <3>4, <3>6, <3>7 DEF EachTaskInOnePlace, Held
    <2>7. NotWoken' = NotWoken
        BY <2>1, NotWokenStep
    <2>8. EnoughWakeups'
        BY <2>1, <2>3, <2>7 DEF PoolInv, EnoughWakeups
    <2>9. QED
        BY <2>4, <2>5, <2>6, <2>8 DEF PoolInv
<1>6. QED
    BY <1>1, <1>2, <1>3, <1>4, <1>5 DEF loop

LEMMA PoolNext == PoolInv /\ [Next]_vars => PoolInv'
<1> SUFFICES ASSUME PoolInv, [Next]_vars PROVE PoolInv'
    OBVIOUS
<1> USE PoolAssumption DEF PoolAssumption
<1>0. Cardinality(NotWoken) \in Nat /\ Cardinality(NotWoken) <= n_threads
    BY ThreadsFinite DEF NotWoken
<1>1. ASSUME NEW k \in Task, push(k) PROVE PoolInv'
    <2>1. /\ k \notin pushed /\ destructor = "alive"
          /\ pushed' = pushed \cup {k} /\ queue' = queue \cup {k}
          /\ UNCHANGED <<wakeups, pc, transition, is_running_, destructor, i, ran, dropped>>
        BY <1>1 DEF push, threads, stopping
    <2>2. PoolTypeOK' /\ StopsInOrder' /\ Holds'
        BY <2>1 DEF PoolInv, PoolTypeOK, StopsInOrder, Holds
    <2>3. \A t \in Thread : transition[t] # k
        BY <2>1 DEF PoolInv, EachTaskInOnePlace
    <2>4. EachTaskInOnePlace'
        BY <2>1, <2>3 DEF PoolInv, EachTaskInOnePlace
    <2>5. EnoughWakeups'
        BY <2>1 DEF PoolInv, EnoughWakeups, NotWoken
    <2>6. QED
        BY <2>2, <2>4, <2>5 DEF PoolInv
<1>2. ASSUME NEW t \in Thread, loop(t) PROVE PoolInv'
    BY <1>2, LoopKeepsInv
<1>3. CASE Stop
    <2>1. /\ destructor = "alive" /\ destructor' = "wake" /\ is_running_' = TRUE
          /\ UNCHANGED <<queue, wakeups, pc, transition, i, pushed, ran, dropped>>
        BY <1>3 DEF Stop, contents, threads, history
    <2>2. PoolTypeOK' /\ StopsInOrder' /\ Holds' /\ EachTaskInOnePlace'
        BY <2>1 DEF PoolInv, PoolTypeOK, StopsInOrder, Holds, EachTaskInOnePlace
    <2>3. NotWoken' = NotWoken /\ i' = 0 /\ wakeups' \in Nat
        BY <2>1 DEF PoolInv, PoolTypeOK, StopsInOrder, NotWoken
    <2>4. EnoughWakeups'
        BY <1>0, <2>3 DEF EnoughWakeups
    <2>5. QED
        BY <2>2, <2>4 DEF PoolInv
<1>4. CASE Wake
    <2>1. /\ destructor = "wake"
          /\ IF i < n_threads
             THEN wakeups' = wakeups + 1 /\ i' = i + 1 /\ destructor' = destructor
             ELSE destructor' = "join" /\ wakeups' = wakeups /\ i' = i
          /\ UNCHANGED <<queue, is_running_, pc, transition, pushed, ran, dropped>>
        BY <1>4 DEF Wake, WakeUpTo, threads, history
    <2>2. PoolTypeOK' /\ StopsInOrder'
        BY <2>1 DEF PoolInv, PoolTypeOK, StopsInOrder
    <2>3. Holds' /\ EachTaskInOnePlace'
        BY <2>1 DEF PoolInv, Holds, EachTaskInOnePlace
    <2>4. NotWoken' = NotWoken
        BY <2>1 DEF NotWoken
    <2>5. EnoughWakeups'
        BY <1>0, <2>1, <2>4 DEF PoolInv, PoolTypeOK, EnoughWakeups
    <2>6. QED
        BY <2>2, <2>3, <2>5 DEF PoolInv
<1>5. CASE Join
    BY <1>5 DEF Join, contents, threads, history, PoolInv, PoolTypeOK, StopsInOrder,
                Holds, EachTaskInOnePlace, EnoughWakeups, NotWoken
<1>6. CASE UNCHANGED vars
    BY <1>6 DEF vars, contents, threads, stopping, history, PoolInv, PoolTypeOK,
                StopsInOrder, Holds, EachTaskInOnePlace, EnoughWakeups, NotWoken
<1>7. QED
    BY <1>1, <1>2, <1>3, <1>4, <1>5, <1>6 DEF Next

LEMMA PoolAlways == Spec => []PoolInv
    BY PoolInit, PoolNext, PTL DEF Spec

(***************************************************************************)
(* Every variable of the pool has its type.                                *)
(***************************************************************************)
THEOREM PoolTypeCorrect == Spec => []PoolTypeOK
<1>1. PoolInv => PoolTypeOK
    BY DEF PoolInv
<1>2. QED
    BY <1>1, PoolAlways, PTL

(***************************************************************************)
(* No task is lost or called twice, and none is dropped unless the pool is *)
(* being destroyed.                                                        *)
(***************************************************************************)
THEOREM TasksInOnePlace == Spec => []EachTaskInOnePlace
<1>1. PoolInv => EachTaskInOnePlace
    BY DEF PoolInv
<1>2. QED
    BY <1>1, PoolAlways, PTL

(***************************************************************************)
(* While the destructor joins, no thread sleeps at an empty queue.         *)
(***************************************************************************)
THEOREM DestructorWakesAll == Spec => []NobodySleepsThroughTheEnd
<1>1. PoolInv => NobodySleepsThroughTheEnd
    <2> SUFFICES ASSUME PoolInv, destructor = "join",
                        NEW t \in Thread, pc[t] = "wait"
                 PROVE  wakeups > 0
        BY DEF NobodySleepsThroughTheEnd
    <2>1. t \in NotWoken /\ IsFiniteSet(NotWoken) /\ Cardinality(NotWoken) \in Nat
        BY ThreadsFinite DEF NotWoken
    <2>2. Cardinality(NotWoken) # 0
        BY <2>1, FS_EmptySet
    <2>3. is_running_ /\ i = n_threads
        BY DEF PoolInv, StopsInOrder
    <2>4. Cardinality(NotWoken) <= wakeups + (n_threads - i) /\ wakeups \in Nat
        BY <2>3 DEF PoolInv, EnoughWakeups, PoolTypeOK
    <2>5. QED
        BY <2>1, <2>2, <2>3, <2>4, PoolAssumption DEF PoolAssumption
<1>2. QED
    BY <1>1, PoolAlways, PTL
=============================================================================
