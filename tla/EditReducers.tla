------------------------------ MODULE EditReducers ------------------------------
(***************************************************************************)
(* The document of the editor (`EditState' of model.h) and the edit        *)
(* reducers of reducers.cpp as functions from document to document.        *)
(*                                                                         *)
(* Nodes have no identity in the code: everything that refers to a place   *)
(* or a transition does so by its index, and a removal renumbers.  The     *)
(* field `id' of a node is a ghost that follows the node through the       *)
(* renumbering; no reducer looks at it.  Indices start at 1.  A name is    *)
(* <<base, n>>: uniqueName appends suffixes to the base until the name is  *)
(* free, n counts them.  There are two coordinates, 0 and 1, and a move    *)
(* goes to the other one.                                                  *)
(***************************************************************************)
EXTENDS Integers, Sequences, FiniteSets, Bags, SequencesExt

CONSTANTS
    Token       \* the colours; "Success" is one of them

ASSUME TokenAssumption == "Success" \in Token

EmptyDocument ==
    [place |-> <<>>, transition |-> <<>>, p_positions |-> <<>>, t_positions |-> <<>>,
     input_n |-> <<>>, output_n |-> <<>>, p_to_ts_n |-> <<>>, priority |-> <<>>,
     output |-> <<>>, tokens |-> EmptyBag, log |-> <<>>, active_file |-> "none"]

-----------------------------------------------------------------------------
(***************************************************************************)
(* Helpers.                                                                *)
(***************************************************************************)

LastId(nodes) == CHOOSE i \in {0} \cup {nodes[k].id : k \in DOMAIN nodes} :
                    \A k \in DOMAIN nodes : nodes[k].id <= i

FreshId(nodes) == LastId(nodes) + 1

uniqueName(nodes, base) ==
    LET taken == {nodes[k].name : k \in DOMAIN nodes}
    IN  CHOOSE name \in {base} \X (0 .. Len(nodes)) :
            /\ name \notin taken
            /\ \A n \in 0 .. name[2] - 1 : <<base, n>> \in taken

(***************************************************************************)
(* Where index i goes when k is removed.                                   *)
(***************************************************************************)
Down(i, k) == IF i > k THEN i - 1 ELSE i
Up(i, k) == IF i >= k THEN i + 1 ELSE i

(***************************************************************************)
(* `reindex' in removePlace, for the arcs of a transition: drops the arcs  *)
(* of place p, keeps the order of the others.                              *)
(***************************************************************************)
ReindexArcs(arcs, p) ==
    FlattenSeq([i \in DOMAIN arcs |->
        IF arcs[i][1] = p THEN <<>> ELSE << <<Down(arcs[i][1], p), arcs[i][2]>> >>])

(***************************************************************************)
(* `reindex' for the marking, whose order nothing depends on: it is a bag. *)
(***************************************************************************)
ReindexTokens(tokens, p) ==
    [a \in {<<Down(b[1], p), b[2]>> : b \in {b \in DOMAIN tokens : b[1] # p}} |->
        tokens[<<Up(a[1], p), a[2]>>]]

ArcBag(arcs) == [a \in {arcs[i] : i \in DOMAIN arcs} |-> Cardinality({i \in DOMAIN arcs : arcs[i] = a})]

ArcField(source) == IF source = "Place" THEN "input_n" ELSE "output_n"

Other(coordinate) == 1 - coordinate

-----------------------------------------------------------------------------
(***************************************************************************)
(* The edit reducers.                                                      *)
(***************************************************************************)

addPlace(e) ==
    [e EXCEPT !.place = Append(@, [id |-> FreshId(@), name |-> uniqueName(@, "place")]),
              !.p_to_ts_n = Append(@, {}),
              !.p_positions = Append(@, 0)]

addTransition(e) ==
    [e EXCEPT !.transition = Append(@, [id |-> FreshId(@), name |-> uniqueName(@, "transition")]),
              !.output_n = Append(@, <<>>),
              !.input_n = Append(@, <<>>),
              !.priority = Append(@, 0),
              !.output = Append(@, "Success"),
              !.t_positions = Append(@, 0)]

removeArc(source, t, sub, e) ==
    [e EXCEPT ![ArcField(source)][t] = IF sub \in DOMAIN @ THEN RemoveAt(@, sub) ELSE @]

(***************************************************************************)
(* Mutation of addArc: does not record the place's fan-out.                *)
(***************************************************************************)
addArcUnrecorded(source, p, t, color, e) ==
    [e EXCEPT ![ArcField(source)][t] = Append(@, <<p, color>>)]

addArc(source, p, t, color, e) ==
    [e EXCEPT ![ArcField(source)][t] = Append(@, <<p, color>>),
              !.p_to_ts_n[p] = IF source = "Place" THEN @ \cup {t} ELSE @]

removePlace(p, e) ==
    IF p \notin DOMAIN e.place THEN e
    ELSE [e EXCEPT !.place = RemoveAt(@, p),
                   !.p_positions = RemoveAt(@, p),
                   !.p_to_ts_n = RemoveAt(@, p),
                   !.tokens = ReindexTokens(@, p),
                   !.input_n = [t \in DOMAIN @ |-> ReindexArcs(@[t], p)],
                   !.output_n = [t \in DOMAIN @ |-> ReindexArcs(@[t], p)]]

(***************************************************************************)
(* The event log names transitions by index too; it is not renumbered.     *)
(***************************************************************************)
removeTransition(t, e) ==
    IF t \notin DOMAIN e.transition THEN e
    ELSE [e EXCEPT !.transition = RemoveAt(@, t),
                   !.t_positions = RemoveAt(@, t),
                   !.priority = RemoveAt(@, t),
                   !.output = RemoveAt(@, t),
                   !.input_n = RemoveAt(@, t),
                   !.output_n = RemoveAt(@, t),
                   !.p_to_ts_n = [p \in DOMAIN @ |-> {Down(u, t) : u \in @[p] \ {t}}]]

updateArcColor(source, t, sub, color, e) == [e EXCEPT ![ArcField(source)][t][sub][2] = color]

(***************************************************************************)
(* `std::clamp(..., INT8_MIN, INT8_MAX)' on the number that was typed.     *)
(***************************************************************************)
updatePriority(t, typed, e) ==
    [e EXCEPT !.priority[t] = IF typed > 127 THEN 127 ELSE IF typed < -128 THEN -128 ELSE typed]

updateTransitionOutputColor(t, color, e) == [e EXCEPT !.output[t] = color]

updatePlaceName(p, name, e) == [e EXCEPT !.place[p].name = name]

updateTransitionName(t, name, e) == [e EXCEPT !.transition[t].name = name]

updateActiveFile(file, e) == [e EXCEPT !.active_file = file]

moveNode(ts, ps, e) ==
    [e EXCEPT !.t_positions = [t \in DOMAIN @ |-> IF t \in ts THEN Other(@[t]) ELSE @[t]],
              !.p_positions = [p \in DOMAIN @ |-> IF p \in ps THEN Other(@[p]) ELSE @[p]]]

addTokenToPlace(p, color, e) == [e EXCEPT !.tokens = @ (+) SetToBag({<<p, color>>})]

removeTokenFromPlace(p, color, e) == [e EXCEPT !.tokens = @ (-) SetToBag({<<p, color>>})]

(***************************************************************************)
(* Fires transition t when it has no inputs or the tokens for them; the    *)
(* tokens it puts out have its output colour.                              *)
(***************************************************************************)
canFire(t, e) == ArcBag(e.input_n[t]) \sqsubseteq e.tokens

tryFire(t, e) ==
    LET produced == [i \in DOMAIN e.output_n[t] |-> <<e.output_n[t][i][1], e.output[t]>>]
    IN  IF canFire(t, e)
        THEN [e EXCEPT !.tokens = (@ (-) ArcBag(e.input_n[t])) (+) ArcBag(produced),
                       !.log = Append(@, <<t, e.output[t]>>)]
        ELSE e

-----------------------------------------------------------------------------
(***************************************************************************)
(* What a document means.                                                  *)
(***************************************************************************)

(***************************************************************************)
(* A document is sound when everything that is kept per place or per       *)
(* transition is there exactly once, every index in it denotes a node, and *)
(* the reverse lookup knows every place that a transition consumes from.   *)
(***************************************************************************)
Aligned(e) ==
    /\ Len(e.p_positions) = Len(e.place)
    /\ Len(e.p_to_ts_n) = Len(e.place)
    /\ Len(e.t_positions) = Len(e.transition)
    /\ Len(e.input_n) = Len(e.transition)
    /\ Len(e.output_n) = Len(e.transition)
    /\ Len(e.priority) = Len(e.transition)
    /\ Len(e.output) = Len(e.transition)

ArcsInRange(e) ==
    \A t \in DOMAIN e.transition :
        /\ \A i \in DOMAIN e.input_n[t] : e.input_n[t][i][1] \in DOMAIN e.place
        /\ \A i \in DOMAIN e.output_n[t] : e.output_n[t][i][1] \in DOMAIN e.place

TokensInRange(e) == \A a \in BagToSet(e.tokens) : a[1] \in DOMAIN e.place

LookupCovers(e) ==
    /\ \A p \in DOMAIN e.place : e.p_to_ts_n[p] \subseteq DOMAIN e.transition
    /\ \A t \in DOMAIN e.transition : \A i \in DOMAIN e.input_n[t] :
            t \in e.p_to_ts_n[e.input_n[t][i][1]]

(***************************************************************************)
(* The net that a document denotes, told by the identities of its nodes.   *)
(***************************************************************************)
Ids(nodes) == {nodes[k].id : k \in DOMAIN nodes}

IndexOf(nodes, x) == CHOOSE k \in DOMAIN nodes : nodes[k].id = x

ById(place, bag) ==
    [a \in {<<place[b[1]].id, b[2]>> : b \in BagToSet(bag)} |-> bag[<<IndexOf(place, a[1]), a[2]>>]]

PlacesOf(e) ==
    [x \in Ids(e.place) |->
        LET p == IndexOf(e.place, x)
        IN  [name |-> e.place[p].name, at |-> e.p_positions[p]]]

TransitionsOf(e) ==
    [x \in Ids(e.transition) |->
        LET t == IndexOf(e.transition, x)
        IN  [name |-> e.transition[t].name, at |-> e.t_positions[t], priority |-> e.priority[t],
             output |-> e.output[t], consumes |-> ById(e.place, ArcBag(e.input_n[t])),
             produces |-> ById(e.place, ArcBag(e.output_n[t]))]]

NetOf(e) ==
    [place |-> PlacesOf(e), transition |-> TransitionsOf(e), marking |-> ById(e.place, e.tokens)]
=============================================================================
