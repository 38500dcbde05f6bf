------------------------------- MODULE MCDocument -------------------------------
(***************************************************************************)
(* Constants for Document: a PNML file in which a place is consumed from   *)
(* in two colours, and a GRML file with a priority beyond int8, a place    *)
(* without arcs and a multiple arc.                                        *)
(***************************************************************************)
EXTENDS Document

\* What the files hold at first.
MCDisk ==
    (<<"net", "pnml">> :> [kind |-> "pnml",
        places |-> << [name |-> <<"place", 0>>, at |-> 0, marks |-> ("Success" :> 2)],
                      [name |-> <<"goal", 0>>, at |-> 1, marks |-> <<>>] >>,
        transitions |-> << [name |-> <<"transition", 0>>, at |-> 0, priority |-> 0],
                           [name |-> <<"back", 0>>, at |-> 1, priority |-> 0] >>,
        arcs |-> << [source |-> <<"place", 0>>, target |-> <<"transition", 0>>, color |-> "Success", times |-> 1],
                    [source |-> <<"place", 0>>, target |-> <<"transition", 0>>, color |-> "Failed", times |-> 1],
                    [source |-> <<"transition", 0>>, target |-> <<"goal", 0>>, color |-> "Success", times |-> 1],
                    [source |-> <<"goal", 0>>, target |-> <<"back", 0>>, color |-> "Failed", times |-> 1] >>]) @@
    (<<"net", "grml">> :> [kind |-> "grml",
        places |-> << [name |-> <<"place", 0>>, at |-> 0, marks |-> ("Success" :> 1)],
                      [name |-> <<"goal", 0>>, at |-> 0, marks |-> <<>>] >>,
        transitions |-> << [name |-> <<"transition", 0>>, at |-> 0, priority |-> 200] >>,
        arcs |-> << [source |-> <<"place", 0>>, target |-> <<"transition", 0>>, color |-> "Success", times |-> 2] >>])

\* The paths.
MCFile == DOMAIN MCDisk

\* What is typed for a name: one that a place has, and one that a transition has.
MCName == {<<"place", 0>>, <<"transition", 0>>}

\* What is typed for a priority: one below int8.
MCTyped == {-200, 1}
=============================================================================
