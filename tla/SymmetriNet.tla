------------------------------- MODULE SymmetriNet -------------------------------
(***************************************************************************)
(* What the executor promises, without queues or threads: the token game   *)
(* of a Petri net whose firings are split in two.  Starting a callback     *)
(* consumes its input tokens, its completion produces the output tokens in *)
(* the colour of its result; in between the transition is active.  A       *)
(* synchronous callback does both at once, and a source transition is      *)
(* started from outside.  A net may be run again from its initial marking  *)
(* once no callback is active.                                             *)
(***************************************************************************)
EXTENDS NetStructure

VARIABLES
    marking,    \* the tokens
    active      \* [Transition -> Nat]: callbacks that have not completed

vars == <<marking, active>>

NothingActive == [t \in Transition |-> 0]

Init ==
    /\ marking = initial_tokens
    /\ active = NothingActive

Restart ==
    /\ active = NothingActive
    /\ marking' = initial_tokens
    /\ UNCHANGED active

Begin(t) ==
    /\ t \notin Synchronous
    /\ Enabled(t, marking)
    /\ marking' = deductMarking(marking, input_n[t])
    /\ active' = [active EXCEPT ![t] = @ + 1]

Insert(t) ==
    /\ t \in InputTransition
    /\ active' = [active EXCEPT ![t] = @ + 1]
    /\ UNCHANGED marking

Complete(t, result) ==
    /\ active[t] > 0
    /\ marking' = produce(marking, t, result)
    /\ active' = [active EXCEPT ![t] = @ - 1]

Immediate(t, result) ==
    /\ t \in Synchronous
    /\ Enabled(t, marking)
    /\ marking' = produce(deductMarking(marking, input_n[t]), t, result)
    /\ UNCHANGED active

Next ==
    \/ Restart
    \/ \E t \in Transition :
        \/ Begin(t)
        \/ Insert(t)
        \/ \E result \in Returns[t] : Complete(t, result) \/ Immediate(t, result)

Spec == Init /\ [][Next]_vars
=============================================================================
