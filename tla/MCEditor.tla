-------------------------------- MODULE MCEditor --------------------------------
(***************************************************************************)
(* Constants for Editor: the program is started with a net of two places   *)
(* and a transition between them, and can load it again.                   *)
(***************************************************************************)
EXTENDS Editor

Node(name) == [name |-> <<name, 0>>, at |-> 0, marks |-> <<>>, priority |-> 0]

Arc(source, target) ==
    [source |-> <<source, 0>>, target |-> <<target, 0>>, color |-> "Success", times |-> 1]

MCDisk ==
    ("net" :> [kind |-> "pnml",
        places |-> << [Node("place") EXCEPT !.marks = ("Success" :> 1)], Node("goal") >>,
        transitions |-> << Node("transition") >>,
        arcs |-> << Arc("place", "transition"), Arc("transition", "goal") >>])
=============================================================================
