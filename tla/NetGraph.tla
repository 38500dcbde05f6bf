--------------------------------- MODULE NetGraph ---------------------------------
(***************************************************************************)
(* What the editor edits, to the one who uses it: a coloured Petri net     *)
(* whose nodes have an identity.  An arc or a token belongs to the place   *)
(* it was put at and goes when that place goes; nothing else moves,        *)
(* however often nodes are added and removed around it.                    *)
(*                                                                         *)
(* A step is written as a relation between the net `n' before it and the   *)
(* net `m' after it.                                                       *)
(***************************************************************************)
EXTENDS Integers, FiniteSets, Bags

CONSTANTS
    Token

VARIABLES
    net     \* [place:      [places -> [name, at]],
            \*  transition: [transitions -> [name, at, priority, output, consumes, produces]],
            \*  marking:    bag of <<place, colour>>]

vars == <<net>>

One(a) == [x \in {a} |-> 1]

(***************************************************************************)
(* How often a is in a bag.                                                *)
(***************************************************************************)
Count(a, bag) == IF BagIn(a, bag) THEN bag[a] ELSE 0

Without(bag, x) == [a \in {a \in DOMAIN bag : a[1] # x} |-> bag[a]]

Drop(f, x) == [y \in DOMAIN f \ {x} |-> f[y]]

Extends(g, f) == DOMAIN f \subseteq DOMAIN g /\ \A x \in DOMAIN f : g[x] = f[x]

Side == {"consumes", "produces"}

(***************************************************************************)
(* A net that comes from a file has no isolated nodes.                     *)
(***************************************************************************)
Connected(transition, places, transitions) ==
    /\ \A t \in transitions :
            LET arcs == UNION {BagToSet(transition[t][side]) : side \in Side}
            IN  arcs # {} /\ \A a \in arcs : a[1] \in places
    /\ \A x \in places : \E t \in transitions, side \in Side, c \in Token :
            BagIn(<<x, c>>, transition[t][side])

(***************************************************************************)
(* Every token is at a place.                                              *)
(***************************************************************************)
AtPlaces(n) == \A a \in BagToSet(n.marking) : a[1] \in DOMAIN n.place

Init == Connected(net.transition, DOMAIN net.place, DOMAIN net.transition) /\ AtPlaces(net)

AddPlace(n, m) ==
    /\ \E x \in DOMAIN m.place \ DOMAIN n.place :
            /\ DOMAIN m.place = DOMAIN n.place \cup {x}
            /\ \A y \in DOMAIN n.place : n.place[y].name # m.place[x].name
    /\ Extends(m.place, n.place)
    /\ m.transition = n.transition
    /\ m.marking = n.marking

AddTransition(n, m) ==
    /\ \E t \in DOMAIN m.transition \ DOMAIN n.transition :
            /\ DOMAIN m.transition = DOMAIN n.transition \cup {t}
            /\ \A u \in DOMAIN n.transition : n.transition[u].name # m.transition[t].name
            /\ \A side \in Side : m.transition[t][side] = EmptyBag
            /\ m.transition[t].priority = 0
            /\ m.transition[t].output = "Success"
    /\ Extends(m.transition, n.transition)
    /\ m.place = n.place
    /\ m.marking = n.marking

RemovePlace(n, m, x) ==
    /\ m.place = Drop(n.place, x)
    /\ m.transition = [t \in DOMAIN n.transition |->
            [n.transition[t] EXCEPT !.consumes = Without(@, x), !.produces = Without(@, x)]]
    /\ m.marking = Without(n.marking, x)

RemoveTransition(n, m, t) == m = [n EXCEPT !.transition = Drop(@, t)]

Connect(n, m, t, side, a) == m = [n EXCEPT !.transition[t][side] = @ (+) One(a)]

Disconnect(n, m, t, side, a) ==
    /\ BagIn(a, n.transition[t][side])
    /\ m = [n EXCEPT !.transition[t][side] = @ (-) One(a)]

Recolor(n, m, t, side, a, color) ==
    /\ BagIn(a, n.transition[t][side])
    /\ m = [n EXCEPT !.transition[t][side] = (@ (-) One(a)) (+) One(<<a[1], color>>)]

Move(n, m) ==
    /\ DOMAIN m.place = DOMAIN n.place
    /\ DOMAIN m.transition = DOMAIN n.transition
    /\ m = [n EXCEPT !.place = [x \in DOMAIN @ |-> [@[x] EXCEPT !.at = m.place[x].at]],
                     !.transition = [t \in DOMAIN @ |-> [@[t] EXCEPT !.at = m.transition[t].at]]]

Rename(n, m, x) ==
    /\ DOMAIN m.place = DOMAIN n.place
    /\ m = [n EXCEPT !.place[x].name = m.place[x].name]

Relabel(n, m, t) ==
    /\ DOMAIN m.transition = DOMAIN n.transition
    /\ m.transition[t].priority \in -128 .. 127
    /\ \E field \in {"name", "priority", "output"} :
            m = [n EXCEPT !.transition[t][field] = m.transition[t][field]]

Put(n, m, a) == m = [n EXCEPT !.marking = @ (+) One(a)]

Take(n, m, a) == BagIn(a, n.marking) /\ m = [n EXCEPT !.marking = @ (-) One(a)]

(***************************************************************************)
(* The arcs of a bag that end at place x, numbered for each colour.        *)
(***************************************************************************)
ArcsAt(x, arcs) == UNION {{c} \X (1 .. Count(<<x, c>>, arcs)) : c \in Token}

(***************************************************************************)
(* Every output arc puts a token of the output colour into its place.      *)
(***************************************************************************)
Fire(n, m, t) ==
    /\ n.transition[t].consumes \sqsubseteq n.marking
    /\ \A x \in DOMAIN n.place, c \in Token :
            Count(<<x, c>>, m.marking)
                = Count(<<x, c>>, n.marking (-) n.transition[t].consumes)
                  + IF c = n.transition[t].output
                    THEN Cardinality(ArcsAt(x, n.transition[t].produces))
                    ELSE 0
    /\ m.place = n.place
    /\ m.transition = n.transition

(***************************************************************************)
(* A net from a file replaces this one or comes beside it.                 *)
(***************************************************************************)
Replace(n, m) ==
    /\ DOMAIN m.place \cap DOMAIN n.place = {}
    /\ DOMAIN m.transition \cap DOMAIN n.transition = {}
    /\ Connected(m.transition, DOMAIN m.place, DOMAIN m.transition)
    /\ AtPlaces(m)

Append(n, m) ==
    /\ Extends(m.place, n.place)
    /\ Extends(m.transition, n.transition)
    /\ \A x \in DOMAIN n.place, c \in Token :
            Count(<<x, c>>, m.marking) = Count(<<x, c>>, n.marking)
    /\ Connected(m.transition, DOMAIN m.place \ DOMAIN n.place,
                 DOMAIN m.transition \ DOMAIN n.transition)
    /\ AtPlaces(m)

Step(n, m) ==
    \/ AddPlace(n, m)
    \/ AddTransition(n, m)
    \/ \E x \in DOMAIN n.place :
        \/ RemovePlace(n, m, x)
        \/ Rename(n, m, x)
        \/ \E c \in Token :
            \/ Put(n, m, <<x, c>>)
            \/ Take(n, m, <<x, c>>)
            \/ \E t \in DOMAIN n.transition, side \in Side :
                \/ Connect(n, m, t, side, <<x, c>>)
                \/ Disconnect(n, m, t, side, <<x, c>>)
                \/ \E d \in Token : Recolor(n, m, t, side, <<x, c>>, d)
    \/ \E t \in DOMAIN n.transition :
        \/ RemoveTransition(n, m, t)
        \/ Relabel(n, m, t)
        \/ Fire(n, m, t)
    \/ Move(n, m)
    \/ Replace(n, m)
    \/ Append(n, m)

Next == \E n \in {net}, m \in {net'} : Step(n, m)

Spec == Init /\ [][Next]_vars
=============================================================================
