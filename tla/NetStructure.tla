------------------------------ MODULE NetStructure ------------------------------
(***************************************************************************)
(* The static part of a coloured Petri net as the executor sees it         *)
(* (`Petri::PTNet' of petri.h) and the pure functions over it              *)
(* (petri_utilities.cpp, `deductMarking' and the lookup tables of          *)
(* petri.cpp, `MarkingReached' of utilities.hpp).                          *)
(*                                                                         *)
(* A marking is a `std::vector<AugmentedToken>' in the code.  No function  *)
(* here depends on the order of that vector except through the order in    *)
(* which transitions of equal priority are tried, which `std::sort' leaves *)
(* open anyway, so a marking is the bag of its elements:                   *)
(* [Place \X Token -> Nat].                                                *)
(***************************************************************************)
EXTENDS Integers, Sequences, FiniteSets, Functions

CONSTANTS
    Place,          \* the places
    Transition,     \* the transitions
    Token,          \* the colours that occur; "Success" is one of them
    input_n,        \* input arcs:  [Transition -> [Place \X Token -> Nat]]
    output_n,       \* output arcs: [Transition -> [Place -> Nat]]
    priority,       \* [Transition -> Int]
    initial_tokens, \* the initial marking
    final_marking,  \* the goal marking; the empty bag is "no goal"
    Synchronous,    \* transitions whose callback is run on the loop thread
    Returns         \* [Transition -> SUBSET Token]: what a callback may return

(***************************************************************************)
(* `AugmentedToken': a colour in a place.                                  *)
(***************************************************************************)
AugmentedToken == Place \X Token

Marking == [AugmentedToken -> Nat]

EmptyMarking == [a \in AugmentedToken |-> 0]

ASSUME StructureAssumption ==
    /\ input_n \in [Transition -> Marking]
    /\ output_n \in [Transition -> [Place -> Nat]]
    /\ priority \in [Transition -> Int]
    /\ initial_tokens \in Marking
    /\ final_marking \in Marking
    /\ Synchronous \subseteq Transition
    /\ Returns \in [Transition -> (SUBSET Token) \ {{}}]
    /\ IsFiniteSet(Transition)
    /\ IsFiniteSet(Place)
    /\ IsFiniteSet(Token)

(***************************************************************************)
(* Mutation of canFire: looks up every input arc by itself, so that one    *)
(* token satisfies two arcs from its place.                                *)
(***************************************************************************)
canFireUncounted(pre, tokens) ==
    /\ pre # EmptyMarking
    /\ \A a \in AugmentedToken : pre[a] > 0 => tokens[a] > 0

(***************************************************************************)
(* `canFire': enough tokens of the right colour in every input place.  A   *)
(* transition without inputs never fires by itself.                        *)
(***************************************************************************)
canFire(pre, tokens) ==
    /\ pre # EmptyMarking
    /\ \A a \in AugmentedToken : tokens[a] >= pre[a]

Enabled(t, tokens) == canFire(input_n[t], tokens)

(***************************************************************************)
(* The source transitions, the only ones an input-transition handle works  *)
(* for.                                                                    *)
(***************************************************************************)
InputTransition == {t \in Transition : input_n[t] = EmptyMarking}

(***************************************************************************)
(* `deductMarking': erases one element of the vector for every input arc.  *)
(***************************************************************************)
deductMarking(tokens, pre) ==
    [a \in AugmentedToken |-> tokens[a] - pre[a]]

(***************************************************************************)
(* What both kinds of firing append to the marking: every output place     *)
(* gets a token in the colour of the callback's *result*; the colour on    *)
(* the output arc is not looked at.                                        *)
(***************************************************************************)
produce(tokens, t, result) ==
    [a \in AugmentedToken |->
        tokens[a] + (IF a[2] = result THEN output_n[t][a[1]] ELSE 0)]

(***************************************************************************)
(* The reverse lookup: the transitions that have p among their inputs, in  *)
(* any colour.                                                             *)
(***************************************************************************)
p_to_ts_n(p) ==
    {t \in Transition : \E c \in Token : input_n[t][<<p, c>>] > 0}

(***************************************************************************)
(* `possibleTransitions': the candidates, that is the transitions at least *)
(* one of whose coloured inputs is present.                                *)
(***************************************************************************)
possibleTransitions(tokens) ==
    {t \in Transition : \E a \in AugmentedToken :
        /\ tokens[a] > 0
        /\ t \in p_to_ts_n(a[1])
        /\ input_n[t][a] > 0}

(***************************************************************************)
(* Mutation of downstream: only what was waiting for t's own inputs.       *)
(***************************************************************************)
downstreamOfInputs(t) ==
    UNION {p_to_ts_n(p) : p \in {q \in Place : t \in p_to_ts_n(q)}}

(***************************************************************************)
(* The transitions that a firing of t may have enabled.                    *)
(***************************************************************************)
downstream(t) ==
    UNION {p_to_ts_n(p) : p \in {q \in Place : output_n[t][q] > 0}}

(***************************************************************************)
(* The results `std::sort' may give for the candidates S when it is called *)
(* with "higher priority first"; it is not a stable sort.                  *)
(***************************************************************************)
SortedByPriority(S) ==
    {s \in [1 .. Cardinality(S) -> S] :
        /\ Range(s) = S
        /\ \A i, j \in DOMAIN s : i < j => priority[s[i]] >= priority[s[j]]}

(***************************************************************************)
(* `MarkingReached': for every coloured place of the goal the counts are   *)
(* *equal*; the other places do not matter.                                *)
(***************************************************************************)
MarkingReached(tokens, goal) ==
    /\ goal # EmptyMarking
    /\ \A a \in AugmentedToken : goal[a] > 0 => tokens[a] = goal[a]
=============================================================================
