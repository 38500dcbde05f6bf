--------------------------------- MODULE Document ---------------------------------
(***************************************************************************)
(* The editor as one sees it who waits for every step to show: documents   *)
(* are edited, loaded and saved, one after the other.  (Editor.tla is the  *)
(* same with the queues in between.)                                       *)
(*                                                                         *)
(* Saving has two steps: the request captures the document in a popup,     *)
(* and the button of the popup writes what was captured.                   *)
(***************************************************************************)
EXTENDS NetFile

CONSTANTS
    File,           \* paths, as <<stem, extension>>
    Disk,           \* what they hold at first: [File -> files]
    Name,           \* the names that are typed
    Typed,          \* the numbers that are typed for priorities
    KeepsStrays,    \* whether a document is ever saved that leaves marked places without arcs
    MaxEdits,       \* bound: edits, loads, save requests and saves
    MaxArcs         \* bound: arcs in either direction of one transition

(***************************************************************************)
(* Every path has a file, if a missing one, in which the colours are those *)
(* that there are; numbers are what `std::stoi' takes for numbers.         *)
(***************************************************************************)
ASSUME DocumentAssumption ==
    /\ DOMAIN Disk = File
    /\ \A f \in File : WellFormed(Disk[f]) /\ Colored(Disk[f])
    /\ Typed \subseteq Int

VARIABLES
    doc,    \* EditState
    popup,  \* the document captured by requestSaveGraph, or NoPopup
    disk,   \* [File -> files]
    edits   \* how many there have been

vars == <<doc, popup, disk, edits>>

NoPopup == [path |-> "none"]

Source == {"Place", "Transition"}

P == DOMAIN doc.place
T == DOMAIN doc.transition
ArcIndices(source) == {a \in T \X (1 .. MaxArcs) : a[2] \in DOMAIN doc[ArcField(source)][a[1]]}

(***************************************************************************)
(* The program starts with an empty document or with the file that is      *)
(* named on its command line.                                              *)
(***************************************************************************)
Init ==
    /\ \/ doc = EmptyDocument
       \/ \E f \in File : \E p \in parseNet(Disk[f]) : doc = appendInstaller(p, f, EmptyDocument)
    /\ popup = NoPopup
    /\ disk = Disk
    /\ edits = 0

Edit(next) ==
    /\ edits < MaxEdits
    /\ edits' = edits + 1
    /\ doc' = next
    /\ UNCHANGED <<popup, disk>>

AddNode == Edit(addPlace(doc)) \/ Edit(addTransition(doc))

AddArc ==
    \E source \in Source, p \in P, t \in T, c \in Token :
        /\ Len(doc[ArcField(source)][t]) < MaxArcs
        /\ Edit(addArc(source, p, t, c, doc))

RemoveArc == \E source \in Source : \E a \in ArcIndices(source) : Edit(removeArc(source, a[1], a[2], doc))

RemovePlace == \E p \in P : Edit(removePlace(p, doc))

RemoveTransition == \E t \in T : Edit(removeTransition(t, doc))

UpdateArcColor ==
    \E c \in Token : \E a \in ArcIndices("Place") : Edit(updateArcColor("Place", a[1], a[2], c, doc))

UpdateTransition ==
    \E t \in T :
        \/ \E n \in Typed : Edit(updatePriority(t, n, doc))
        \/ \E c \in Token : Edit(updateTransitionOutputColor(t, c, doc))

Rename ==
    \E name \in Name :
        \/ \E p \in P : Edit(updatePlaceName(p, name, doc))
        \/ \E t \in T : Edit(updateTransitionName(t, name, doc))

(***************************************************************************)
(* Bound: at most one node of each kind is dragged at a time.              *)
(***************************************************************************)
MoveNode == \E ts \in kSubset(1, T) \cup {{}}, ps \in kSubset(1, P) \cup {{}} : Edit(moveNode(ts, ps, doc))

AddTokenToPlace == \E p \in P, c \in Token : Edit(addTokenToPlace(p, c, doc))

RemoveTokenFromPlace == \E a \in BagToSet(doc.tokens) : Edit(removeTokenFromPlace(a[1], a[2], doc))

(***************************************************************************)
(* The simulation menu lists the transitions that can fire.                *)
(***************************************************************************)
TryFire == \E t \in T : canFire(t, doc) /\ Edit(tryFire(t, doc))

UpdateActiveFile == \E f \in File : Edit(updateActiveFile(f, doc))

(***************************************************************************)
(* `requestLoad': an empty net is replaced without asking.                 *)
(***************************************************************************)
Load ==
    \E f \in File : \E p \in parseNet(disk[f]) :
        \/ Edit(clearInstaller(p, f, doc))
        \/ P \cup T # {} /\ Edit(appendInstaller(p, f, doc))

(***************************************************************************)
(* `requestSaveGraph': .pnml is saved in place, .grml as .pnml beside it,  *)
(* anything else not at all.                                               *)
(***************************************************************************)
SavePath(f) == IF f[2] = "grml" THEN <<f[1], "pnml">> ELSE f

RequestSave ==
    /\ doc.active_file # "none"
    /\ doc.active_file[2] \in {"pnml", "grml"}
    /\ KeepsStrays \/ NoStrays(toXml(doc))
    /\ edits < MaxEdits
    /\ edits' = edits + 1
    /\ popup' = [path |-> SavePath(doc.active_file), file |-> toXml(doc)]
    /\ UNCHANGED <<doc, disk>>

(***************************************************************************)
(* Writes what was captured, and makes the path the active file.           *)
(***************************************************************************)
Save ==
    /\ popup # NoPopup
    /\ edits < MaxEdits
    /\ edits' = edits + 1
    /\ disk' = [disk EXCEPT ![popup.path] = popup.file]
    /\ doc' = updateActiveFile(popup.path, doc)
    /\ popup' = NoPopup

CancelSave ==
    /\ popup # NoPopup
    /\ popup' = NoPopup
    /\ UNCHANGED <<doc, disk, edits>>

Next ==
    \/ AddNode
    \/ AddArc
    \/ RemoveArc
    \/ RemovePlace
    \/ RemoveTransition
    \/ UpdateArcColor
    \/ UpdateTransition
    \/ Rename
    \/ MoveNode
    \/ AddTokenToPlace
    \/ RemoveTokenFromPlace
    \/ TryFire
    \/ UpdateActiveFile
    \/ Load
    \/ RequestSave
    \/ Save
    \/ CancelSave

Spec == Init /\ [][Next]_vars

-----------------------------------------------------------------------------
(***************************************************************************)
(* Properties.                                                             *)
(***************************************************************************)

(***************************************************************************)
(* After any sequence of edits everything that is kept per node is there   *)
(* exactly once, every index denotes a node, and the reverse lookup knows  *)
(* every place that a transition consumes from.  Each reducer shifts the   *)
(* indices of half a dozen vectors by hand (reducers.cpp, load_file.cpp).  *)
(***************************************************************************)
DocumentIsSound ==
    /\ Aligned(doc)
    /\ ArcsInRange(doc)
    /\ TokensInRange(doc)
    /\ LookupCovers(doc)
    /\ \A t \in T : doc.priority[t] \in -128 .. 127

(***************************************************************************)
(* Whatever is removed, added, appended or shifted around it, an arc or a  *)
(* token stays at the node it was made for: each reducer changes the net   *)
(* that the document denotes in one of the ways that the abstract net may  *)
(* change (which one, of all its nodes and arcs, is not compared with the  *)
(* indices that the reducer was called with).                              *)
(***************************************************************************)
Graph == INSTANCE NetGraph WITH net <- NetOf(doc)

ImplementsNetGraph == Graph!Spec

(***************************************************************************)
(* The net of a document, told by names.                                   *)
(***************************************************************************)
Named(e) ==
    LET named(arcs) == ArcBag([i \in DOMAIN arcs |-> <<e.place[arcs[i][1]].name, arcs[i][2]>>])
    IN  [places |-> {<<e.place[p].name, e.p_positions[p]>> : p \in DOMAIN e.place},
         transitions |-> {<<e.transition[t].name, e.t_positions[t],
                            named(e.input_n[t]), named(e.output_n[t])>> : t \in DOMAIN e.transition},
         marking |-> [a \in {<<e.place[b[1]].name, b[2]>> : b \in BagToSet(e.tokens)} |->
            e.tokens[<<CHOOSE p \in DOMAIN e.place : e.place[p].name = a[1], a[2]>>]]]

DistinctNames(e) ==
    Cardinality(NamesOf(e.place) \cup NamesOf(e.transition)) = Len(e.place) + Len(e.transition)

MarkedPlacesHaveArcs(e) ==
    \A a \in BagToSet(e.tokens) :
        \E t \in DOMAIN e.transition : \E field \in {"input_n", "output_n"} :
            \E i \in DOMAIN e[field][t] : e[field][t][i][1] = a[1]

(***************************************************************************)
(* A net whose nodes have names of their own survives saving and loading   *)
(* but for its isolated nodes, its priorities and its output colours: the  *)
(* file tells nodes by name, and the parser guesses from the source of an  *)
(* arc which way it goes.                                                  *)
(***************************************************************************)
SavedNetComesBack ==
    DistinctNames(doc) /\ MarkedPlacesHaveArcs(doc) =>
        \A p \in parseNet(toXml(doc)) :
            LET back == Named(clearInstaller(p, <<"net", "pnml">>, doc))
                connected(t) == t[3] # EmptyBag \/ t[4] # EmptyBag
                used == {a[1] : a \in UNION {DOMAIN t[3] \cup DOMAIN t[4] : t \in Named(doc).transitions}}
            IN  /\ back.transitions = {t \in Named(doc).transitions : connected(t)}
                /\ back.places = {x \in Named(doc).places : x[1] \in used}
                /\ back.marking = Named(doc).marking
                /\ \A t \in DOMAIN p.priority : p.priority[t] = 0 /\ p.output[t] = "Success"

(***************************************************************************)
(* "Checks if two petri-nets have equal amount of arcs between places and  *)
(* transitions of the same name" (utilities.hpp).                          *)
(***************************************************************************)
EqualArcs(net1, net2) ==
    /\ DOMAIN net1 = DOMAIN net2
    /\ \A t \in DOMAIN net1, side \in {"first", "second"} :
        ArcBag(net1[t][side]) = ArcBag(net2[t][side])

(***************************************************************************)
(* Asked in both orders, stateNetEquality tells exactly the nets with      *)
(* equal arcs, in whatever order they have them.                           *)
(***************************************************************************)
NetsAreToldApart ==
    \A f \in File :
        LET net1 == NetIn(toXml(doc))
            net2 == NetIn(disk[f])
        IN  stateNetEquality(net1, net2) /\ stateNetEquality(net2, net1) <=> EqualArcs(net1, net2)

(***************************************************************************)
(* Asked once it is to tell that, too.  It looks at the arcs of the first  *)
(* net only, so where that one has none on a side of a transition, the     *)
(* second may have any.                                                    *)
(***************************************************************************)
EqualNetsHaveEqualArcs ==
    \A f \in File :
        stateNetEquality(NetIn(toXml(doc)), NetIn(disk[f])) => EqualArcs(NetIn(toXml(doc)), NetIn(disk[f]))
=============================================================================
