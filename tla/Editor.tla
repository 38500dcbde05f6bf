---------------------------------- MODULE Editor ----------------------------------
(***************************************************************************)
(* The editor with its dispatch (rxdispatch, reactive.h, model.h): the UI  *)
(* thread draws the model and pushes updates, which are reduced into the   *)
(* model later, one by one and in order; a load is parsed by a pool thread *)
(* meanwhile, and its result comes in at any time.  So an index is picked  *)
(* in one model and used in another.                                       *)
(*                                                                         *)
(* The queue of updates and the run loop behind it are one FIFO, as the    *)
(* UI thread is the only producer of what is in it; what the pool pushes   *)
(* has no order to that.  The undo history is taken for what History.tla   *)
(* shows it to be, a stack of documents (UndoStack.tla).                   *)
(*                                                                         *)
(* A node is picked as <<index, id>>, where the id (a ghost) tells which   *)
(* node was meant.  An index out of range is undefined behaviour: nothing  *)
(* is modelled after it.                                                   *)
(***************************************************************************)
EXTENDS NetFile

CONSTANTS
    Disk,           \* [paths -> files]
    Opened,         \* the path on the command line
    MaxEdits,       \* bound: edits, loads, undos and redos that are asked for
    MaxLooks,       \* bound: clicks that only change the view
    MaxPending      \* bound: updates in the queue

(***************************************************************************)
(* Every path has a file, if a missing one.                                *)
(***************************************************************************)
ASSUME EditorAssumption ==
    /\ Opened \in DOMAIN Disk
    /\ \A path \in DOMAIN Disk : WellFormed(Disk[path])

VARIABLES
    doc,        \* Model::edit
    past,       \* documents that undo goes back to, the latest last
    future,     \* documents that redo goes to, the next first
    view,       \* Model::view
    queue,      \* updates that the UI thread has pushed
    loading,    \* loads under way in the pool
    edits,      \* edits and loads asked for so far
    looks,      \* clicks that only change the view so far
    hasty,      \* ghost: something was picked while the indices were about to change
    missed,     \* ghost: an edit has changed another node than was meant
    fault       \* "drawing" or "reducer" when one of them has used an index out of range

vars == <<doc, past, future, view, queue, loading, edits, looks, hasty, missed, fault>>

None == <<0, 0>>    \* no pick, or no argument

Nodes(kind) == IF kind = "Place" THEN doc.place ELSE doc.transition
Picks(kind) == {<<k, Nodes(kind)[k].id>> : k \in DOMAIN Nodes(kind)}

(***************************************************************************)
(* An arc, as <<type of its source, transition, index>>.                   *)
(***************************************************************************)
ArcPicks ==
    {a \in {"Place", "Transition"} \X Picks("Transition") \X (1 .. 3) :
        a[3] \in DOMAIN doc[ArcField(a[1])][a[2][1]]}

NoNode == <<"none", None>>
NoArc == <<"none", None, 0>>

NothingSelected ==
    [node |-> NoNode, arc |-> NoArc, Place |-> {}, Transition |-> {}, arcs |-> {}, menu |-> FALSE]

(***************************************************************************)
(* Mutation of Cleared: highlighted nodes stay.                            *)
(***************************************************************************)
ClearedNot(v) == [v EXCEPT !.node = NoNode, !.arc = NoArc]

(***************************************************************************)
(* `clearSelection'; the context menu stays.                               *)
(***************************************************************************)
Cleared(v) == [v EXCEPT !.node = NoNode, !.arc = NoArc, !.Place = {}, !.Transition = {}, !.arcs = {}]

-----------------------------------------------------------------------------
(***************************************************************************)
(* Updates.                                                                *)
(***************************************************************************)

EditOf(ops) == [kind |-> "edit", ops |-> ops]
Op(f, t, p, arg) == [f |-> f, t |-> t, p |-> p, arg |-> arg]
ViewOf(f, arg) == [kind |-> "view", f |-> f, arg |-> arg]

(***************************************************************************)
(* The view reducers.  Place and Transition are p_highlight and            *)
(* t_highlight; a place or a transition can be highlighted once.           *)
(***************************************************************************)
Viewed(u, v) ==
    CASE u.f = "select" ->
            [Cleared(v) EXCEPT !.node = u.arg, ![u.arg[1]] = {u.arg[2]}]
      [] u.f = "highlight" ->
            [v EXCEPT ![u.arg[1]] = IF \E pick \in @ : pick[1] = u.arg[2][1] THEN @ ELSE @ \cup {u.arg[2]}]
      [] u.f = "target" -> [v EXCEPT ![u.arg[1]] = {u.arg[2]}]
      [] u.f = "selectArc" -> [Cleared(v) EXCEPT !.arc = u.arg, !.arcs = {u.arg}]
      [] u.f = "highlightArc" -> [v EXCEPT !.arcs = @ \cup {u.arg}]
      [] u.f = "reset" -> Cleared(v)
      [] u.f = "menu" -> [v EXCEPT !.menu = u.arg]
      [] u.f = "clearSelection" -> [Cleared(v) EXCEPT !.menu = FALSE]
      [] u.f = "loading" -> [Cleared(v) EXCEPT !.arcs = v.arcs]

(***************************************************************************)
(* The edit reducers that are given an index.  A new priority and a new    *)
(* name of a highlighted node are to the indices what "output" is.         *)
(***************************************************************************)
Applied(op, e) ==
    LET t == op.t[1]
        p == op.p[1]
    IN  CASE op.f = "addPlace" -> addPlace(e)
          [] op.f = "addArc" -> addArc(op.arg, p, t, "Success", e)
          [] op.f = "removeArc" -> removeArc(op.arg[1], t, op.arg[2], e)
          [] op.f = "arcColor" -> updateArcColor(op.arg[1], t, op.arg[2], "Failed", e)
          [] op.f = "removePlace" -> removePlace(p, e)
          [] op.f = "removeTransition" -> removeTransition(t, e)
          [] op.f = "output" -> updateTransitionOutputColor(t, "Failed", e)
          [] op.f = "move" -> moveNode({t}, {p}, e)
          [] op.f = "addToken" -> addTokenToPlace(p, "Success", e)
          [] op.f = "fire" -> tryFire(t, e)

(***************************************************************************)
(* Whether a reducer stays within its vectors.  The removals look first;   *)
(* an arc or a token is stored with whatever place it was given.           *)
(***************************************************************************)
InVectors(op, e) ==
    /\ op.f \notin {"removeTransition"} => op.t = None \/ op.t[1] \in DOMAIN e.transition
    /\ op.f = "move" \/ (op.f = "addArc" /\ op.arg = "Place") => op.p = None \/ op.p[1] \in DOMAIN e.place
    /\ op.f = "arcColor" => op.arg[2] \in DOMAIN e[ArcField(op.arg[1])][op.t[1]]

(***************************************************************************)
(* Whether the nodes that an operation has indices of are the ones that    *)
(* were meant.  (Highlighted arcs are not asked for: see NothingDangles.)  *)
(***************************************************************************)
Means(op, e) == op.f = "arcColor" \/
    /\ op.t # None => op.t[1] \in DOMAIN e.transition /\ e.transition[op.t[1]].id = op.t[2]
    /\ op.p # None => op.p[1] \in DOMAIN e.place /\ e.place[op.p[1]].id = op.p[2]

(***************************************************************************)
(* The edits of a batch, composed into one.                                *)
(***************************************************************************)
Then(s, op) ==
    IF s.ok /\ InVectors(op, s.e)
    THEN [e |-> Applied(op, s.e), ok |-> TRUE, hit |-> s.hit /\ Means(op, s.e)]
    ELSE [e |-> s.e, ok |-> FALSE, hit |-> s.hit]

Composed(ops, e) ==
    LET done[i \in 0 .. Len(ops)] ==
            IF i = 0 THEN [e |-> e, ok |-> TRUE, hit |-> TRUE] ELSE Then(done[i - 1], ops[i])
    IN  done[Len(ops)]

-----------------------------------------------------------------------------
(***************************************************************************)
(* The reduce step.                                                        *)
(***************************************************************************)

History(next) ==
    /\ doc' = next
    /\ past' = Append(past, doc)
    /\ future' = <<>>

ReduceEdit(u) ==
    LET result == Composed(u.ops, doc)
    IN  /\ IF result.ok THEN History(result.e) /\ UNCHANGED fault
                        ELSE fault' = "reducer" /\ UNCHANGED <<doc, past, future>>
        /\ missed' = (missed \/ ~result.hit)
        /\ UNCHANGED <<view, loading>>

ReduceView(u) ==
    /\ view' = Viewed(u, view)
    /\ UNCHANGED <<doc, past, future, loading, missed, fault>>

Stack == INSTANCE UndoStack WITH present <- doc, Document <- {EmptyDocument}, Blank <- EmptyDocument

ReduceUndo ==
    /\ IF past # <<>> THEN Stack!Undo /\ view' = Cleared(view)
                      ELSE UNCHANGED <<doc, past, future, view>>
    /\ UNCHANGED <<loading, missed, fault>>

ReduceRedo ==
    /\ IF future # <<>> THEN Stack!Redo /\ view' = Cleared(view)
                        ELSE UNCHANGED <<doc, past, future, view>>
    /\ UNCHANGED <<loading, missed, fault>>

(***************************************************************************)
(* A computation is not reduced but handed to the pool.                    *)
(***************************************************************************)
Dispatch(u) ==
    /\ loading' = loading (+) SetToBag({[path |-> u.path, clear |-> u.clear]})
    /\ UNCHANGED <<doc, past, future, view, missed, fault>>

Reduce ==
    /\ fault = "no"
    /\ queue # <<>>
    /\ queue' = Tail(queue)
    /\ LET u == Head(queue)
       IN  \/ u.kind = "edit" /\ ReduceEdit(u)
           \/ u.kind = "view" /\ ReduceView(u)
           \/ u.kind = "undo" /\ ReduceUndo
           \/ u.kind = "redo" /\ ReduceRedo
           \/ u.kind = "load" /\ Dispatch(u)
    /\ UNCHANGED <<edits, looks, hasty>>

(***************************************************************************)
(* A pool thread has parsed the file and pushed the install reducer, which *)
(* is reduced; nothing comes of a file that cannot be read.                *)
(***************************************************************************)
Install ==
    /\ fault = "no"
    /\ \E job \in BagToSet(loading) :
        /\ loading' = loading (-) SetToBag({job})
        /\ \/ \E p \in parseNet(Disk[job.path]) :
                History(IF job.clear THEN clearInstaller(p, job.path, doc)
                                     ELSE appendInstaller(p, job.path, doc))
           \/ parseNet(Disk[job.path]) = {} /\ UNCHANGED <<doc, past, future>>
    /\ UNCHANGED <<view, queue, edits, looks, hasty, missed, fault>>

-----------------------------------------------------------------------------
(***************************************************************************)
(* The frame: what is drawn, and what the user can do with it.             *)
(***************************************************************************)

(***************************************************************************)
(* The tools menu looks up every highlighted node and arc, the context     *)
(* menu the selected node.                                                 *)
(***************************************************************************)
Drawable(kind, pick) == pick[1] \in DOMAIN Nodes(kind)
DrawableArc(a) == Drawable("Transition", a[2]) /\ a[3] \in DOMAIN doc[ArcField(a[1])][a[2][1]]

DrawsNodes ==
    /\ \A kind \in {"Place", "Transition"}, pick \in view.Place \cup view.Transition :
            pick \in view[kind] => Drawable(kind, pick)
    /\ view.menu /\ view.node[2] # None => Drawable(view.node[1], view.node[2])

DrawsArcs == \A a \in view.arcs : DrawableArc(a)

Draw ==
    /\ fault = "no"
    /\ ~(DrawsNodes /\ DrawsArcs)
    /\ fault' = "drawing"
    /\ UNCHANGED <<doc, past, future, view, queue, loading, edits, looks, hasty, missed>>

(***************************************************************************)
(* Nothing is pending that renumbers what the view refers to.              *)
(***************************************************************************)
Shifts(u) ==
    \/ u.kind \in {"undo", "redo"}
    \/ u.kind = "load" /\ u.clear
    \/ u.kind = "view" /\ u.f = "clearSelection"
    \/ u.kind = "edit" /\ \E i \in DOMAIN u.ops : u.ops[i].f \in {"removePlace", "removeTransition", "removeArc"}

Calm ==
    /\ \A i \in DOMAIN queue : ~Shifts(queue[i])
    /\ \A job \in BagToSet(loading) : ~job.clear

(***************************************************************************)
(* Bound: there is at most one hasty pick.                                 *)
(***************************************************************************)
Push(updates, picks) ==
    /\ fault = "no"
    /\ DrawsNodes /\ DrawsArcs
    /\ ~hasty
    /\ Len(queue) + Len(updates) <= MaxPending
    /\ queue' = queue \o updates
    /\ hasty' = (picks /\ ~Calm)
    /\ UNCHANGED <<doc, past, future, view, loading, missed, fault>>

(***************************************************************************)
(* Bounds: no click is pending when another one is made, and none comes    *)
(* after the last edit.                                                    *)
(***************************************************************************)
Looks == {"select", "highlight", "selectArc", "highlightArc", "target", "reset"}

Look(updates, picks) ==
    /\ edits < MaxEdits
    /\ looks < MaxLooks
    /\ looks' = looks + 1
    /\ \A i \in DOMAIN queue : queue[i].kind = "view" => queue[i].f \notin Looks
    /\ Push(updates, picks)
    /\ UNCHANGED edits

Ask(updates, picks) ==
    /\ edits < MaxEdits
    /\ edits' = edits + 1
    /\ Push(updates, picks)
    /\ UNCHANGED looks

(***************************************************************************)
(* Clicks, with and without shift, on a node, an entry of the node list,   *)
(* an arc, the background.                                                 *)
(***************************************************************************)
Click ==
    \/ \E kind \in {"Place", "Transition"} : \E pick \in Picks(kind), f \in {"select", "highlight"} :
            Look(<<ViewOf(f, <<kind, pick>>)>>, TRUE)
    \/ \E a \in ArcPicks, f \in {"selectArc", "highlightArc"} : Look(<<ViewOf(f, a)>>, TRUE)
    \/ view.menu /\ Look(<<ViewOf("menu", FALSE), ViewOf("reset", None)>>, FALSE)
    \/ ~view.menu /\ Look(<<ViewOf("reset", None)>>, FALSE)

RightClick == Look(<<ViewOf("menu", TRUE)>>, FALSE)

CloseMenu == view.menu /\ Look(<<ViewOf("menu", FALSE)>>, FALSE)

(***************************************************************************)
(* Mutation of Targets: one entry too many.                                *)
(***************************************************************************)
TargetsBeyond(kind) == Picks(kind) \cup {<<Len(Nodes(kind)) + 1, 0>>}

(***************************************************************************)
(* The entries of "Add arc to...".                                         *)
(***************************************************************************)
Targets(kind) == Picks(kind)

MenuOnNode ==
    /\ view.menu
    /\ LET kind == view.node[1]
           pick == view.node[2]
       IN  \/ /\ kind = "Place"
              /\ \/ \E t \in Targets("Transition") :
                        \/ Ask(<<EditOf(<<Op("addArc", t, pick, kind)>>), ViewOf("menu", FALSE)>>, TRUE)
                        \/ /\ \A h \in view.Transition : h[1] # t[1]
                           /\ Look(<<ViewOf("target", <<"Transition", t>>)>>, TRUE)
                 \/ Ask(<<EditOf(<<Op("addToken", None, pick, None)>>), ViewOf("menu", FALSE)>>, TRUE)
                 \/ Ask(<<EditOf(<<Op("removePlace", None, pick, None)>>), ViewOf("clearSelection", None)>>, TRUE)
           \/ /\ kind = "Transition"
              /\ \/ \E p \in Targets("Place") :
                        \/ Ask(<<EditOf(<<Op("addArc", pick, p, kind)>>), ViewOf("menu", FALSE)>>, TRUE)
                        \/ /\ \A h \in view.Place : h[1] # p[1]
                           /\ Look(<<ViewOf("target", <<"Place", p>>)>>, TRUE)
                 \/ Ask(<<EditOf(<<Op("removeTransition", pick, None, None)>>), ViewOf("clearSelection", None)>>, TRUE)

MenuOnArc ==
    /\ view.menu
    /\ view.node[1] = "none"
    /\ view.arc[1] # "none"
    /\ Ask(<<EditOf(<<Op("removeArc", view.arc[2], None, <<view.arc[1], view.arc[3]>>)>>),
             ViewOf("menu", FALSE)>>, TRUE)

MenuOnNothing ==
    /\ view.menu
    /\ view.node[1] = "none"
    /\ view.arc[1] = "none"
    /\ Ask(<<EditOf(<<Op("addPlace", None, None, None)>>), ViewOf("menu", FALSE)>>, FALSE)

(***************************************************************************)
(* Mutation of Ordered: the other way round.                               *)
(***************************************************************************)
OrderedUp(picks) ==
    [k \in 1 .. Cardinality(picks) |->
        CHOOSE a \in picks : Cardinality({b \in picks : b[1] < a[1]}) = k - 1]

(***************************************************************************)
(* Highlighted nodes by descending index, of which no two are the same.    *)
(***************************************************************************)
Ordered(picks) ==
    [k \in 1 .. Cardinality(picks) |->
        CHOOSE a \in picks : Cardinality({b \in picks : b[1] > a[1]}) = k - 1]

(***************************************************************************)
(* `deleteSelected': a batch of removals and a batch of view updates.      *)
(***************************************************************************)
Backspace ==
    LET ts == Ordered(view.Transition)
        ps == Ordered(view.Place)
    IN  /\ ts \o ps # <<>>
        /\ Ask(<<EditOf([i \in DOMAIN ts |-> Op("removeTransition", ts[i], None, None)]
                        \o [i \in DOMAIN ps |-> Op("removePlace", None, ps[i], None)]),
                 ViewOf("clearSelection", None)>>, TRUE)

Drag ==
    LET ts == Ordered(view.Transition)
        ps == Ordered(view.Place)
    IN  /\ ts \o ps # <<>>
        /\ Ask(<<EditOf([i \in DOMAIN ts |-> Op("move", ts[i], None, None)]
                        \o [i \in DOMAIN ps |-> Op("move", None, ps[i], None)])>>, TRUE)

ToolsMenu ==
    \/ \E t \in view.Transition : Ask(<<EditOf(<<Op("output", t, None, None)>>)>>, TRUE)
    \/ \E a \in view.arcs :
            a[1] = "Place" /\ Ask(<<EditOf(<<Op("arcColor", a[2], None, <<a[1], a[3]>>)>>)>>, TRUE)

Simulate ==
    \E t \in Picks("Transition") :
        canFire(t[1], doc) /\ Ask(<<EditOf(<<Op("fire", t, None, None)>>)>>, TRUE)

UndoKey == Ask(<<[kind |-> "undo"]>>, FALSE)

RedoKey == Ask(<<[kind |-> "redo"]>>, FALSE)

LoadUpdates(path, clear) ==
    <<ViewOf("loading", None), [kind |-> "load", path |-> path, clear |-> clear]>>

Load ==
    \E path \in DOMAIN Disk, clear \in BOOLEAN :
        /\ doc.place = <<>> /\ doc.transition = <<>> => clear
        /\ Ask(LoadUpdates(path, clear), FALSE)

Frame ==
    \/ Click
    \/ RightClick
    \/ CloseMenu
    \/ MenuOnNode
    \/ MenuOnArc
    \/ MenuOnNothing
    \/ Backspace
    \/ Drag
    \/ ToolsMenu
    \/ Simulate
    \/ UndoKey
    \/ RedoKey
    \/ Load
    \/ Draw

-----------------------------------------------------------------------------
Init ==
    /\ doc = EmptyDocument
    /\ past = <<>>
    /\ future = <<>>
    /\ view = NothingSelected
    /\ queue = LoadUpdates(Opened, FALSE)
    /\ loading = EmptyBag
    /\ edits = 0
    /\ looks = 0
    /\ hasty = FALSE
    /\ missed = FALSE
    /\ fault = "no"

Next == Reduce \/ Install \/ Frame

Spec == Init /\ [][Next]_vars

-----------------------------------------------------------------------------
(***************************************************************************)
(* Properties.                                                             *)
(***************************************************************************)

(***************************************************************************)
(* The vectors of the document stay aligned whatever is clicked when; and  *)
(* as long as nothing is picked while the indices are about to change, all *)
(* indices in it are good and no reducer leaves its vectors.  (The         *)
(* reducers of reducers.cpp, most of which do not look.)                   *)
(***************************************************************************)
DocumentSurvives ==
    /\ Aligned(doc)
    /\ ~hasty => ArcsInRange(doc) /\ TokensInRange(doc) /\ LookupCovers(doc) /\ fault # "reducer"

(***************************************************************************)
(* Then every edit changes the nodes that were picked, also the last one   *)
(* of a batch that removes several, and one that is reduced after a net    *)
(* was appended.  (`deleteSelected' removes from the highest index down.)  *)
(***************************************************************************)
EditsHitWhatWasPicked == ~hasty => ~missed

(***************************************************************************)
(* Then the view refers to the nodes that were picked, once what renumbers *)
(* them has been reduced: removals, undo, redo and loads each take the     *)
(* selection away.                                                         *)
(***************************************************************************)
SelectionIsCurrent ==
    ~hasty /\ Calm =>
        \A kind \in {"Place", "Transition"} :
            /\ view[kind] \subseteq Picks(kind)
            /\ view.node[1] = kind => view.node[2] \in Picks(kind)

(***************************************************************************)
(* "Reset every ViewState field that indexes into EditState [...] whenever *)
(* EditState changes structurally beneath the view [...], otherwise those  *)
(* indices dangle into the net" (model.h).                                 *)
(***************************************************************************)
NothingDangles == ~hasty /\ Calm => DrawsNodes /\ DrawsArcs
=============================================================================
