------------------------------- MODULE MCNestedNets -------------------------------
(***************************************************************************)
(* Constants for NestedNets.  The outer net runs the middle net twice, one *)
(* time after the other; the middle net runs the inner net beside a task,  *)
(* and is at its goal when the task is done; the inner net runs a task.    *)
(***************************************************************************)
EXTENDS NestedNets, TLC

MCOwner ==
    ("first" :> "outer") @@ ("second" :> "outer") @@ ("beside" :> "middle") @@ ("deep" :> "middle")
        @@ ("work" :> "inner")

MCCallback ==
    ("first" :> "middle") @@ ("second" :> "middle") @@ ("beside" :> "task") @@ ("deep" :> "inner")
        @@ ("work" :> "task")

MCIn ==
    ("first" :> {"p"}) @@ ("second" :> {"q"}) @@ ("beside" :> {"a"}) @@ ("deep" :> {"b"}) @@ ("work" :> {"x"})

MCOut ==
    ("first" :> {"q"}) @@ ("second" :> {"r"}) @@ ("beside" :> {"c"}) @@ ("deep" :> {"d"}) @@ ("work" :> {"y"})

MCInitial == ("outer" :> {"p"}) @@ ("middle" :> {"a", "b"}) @@ ("inner" :> {"x"})

MCGoal == ("outer" :> {"r"}) @@ ("middle" :> {"c"}) @@ ("inner" :> {"y"})

(***************************************************************************)
(* The outer net runs the middle net in turns: p, q and r hold one token.  *)
(***************************************************************************)
ASSUME OuterTakesTurns == TakeTurns
=============================================================================
