--------------------------------- MODULE History ---------------------------------
(***************************************************************************)
(* The undo history of the editor, `model::History', with the document     *)
(* `Model::edit' that the reduce step keeps beside it (reactive.h).  The   *)
(* history does not keep every document: it logs the reducers, keeps a     *)
(* snapshot of every kSnapshotEvery-th document, and rebuilds the others   *)
(* by replaying the log from the nearest snapshot.                         *)
(*                                                                         *)
(* An edit reducer is a function of the document alone; that its result    *)
(* depends on nothing else is a rule of model.h, and replaying relies on   *)
(* it.  `timeline' is a history variable and not part of the code: the     *)
(* documents as they were when the edits of the log were made.             *)
(***************************************************************************)
EXTENDS Integers, Sequences

CONSTANTS
    EditReducer,        \* the edits
    EditState,          \* the documents
    Empty,              \* EditState{}
    Reduce(_, _),       \* Reduce(r, e): the reducer r applied to e
    kSnapshotEvery,
    MaxLog              \* bound: entries of the log

VARIABLES
    edit,
    log,
    snapshots,
    cursor,
    timeline

vars == <<edit, log, snapshots, cursor, timeline>>

ASSUME HistoryAssumption ==
    /\ Empty \in EditState
    /\ \A r \in EditReducer, e \in EditState : Reduce(r, e) \in EditState
    /\ kSnapshotEvery \in Nat \ {0}
    /\ MaxLog \in Nat

Init ==
    /\ edit = Empty
    /\ log = <<>>
    /\ snapshots = <<Empty>>
    /\ cursor = 0
    /\ timeline = <<Empty>>

(***************************************************************************)
(* `std::vector::resize', which pads with default elements when it grows.  *)
(***************************************************************************)
Resize(s, n) == [i \in 1 .. n |-> IF i <= Len(s) THEN s[i] ELSE Empty]

(***************************************************************************)
(* Mutation of materialize: replays from the snapshot after the nearest    *)
(* one that is not too late, when there is one.                            *)
(***************************************************************************)
materializeLate(target) ==
    LET j == IF target % kSnapshotEvery = kSnapshotEvery - 1
                    /\ Len(snapshots) > target \div kSnapshotEvery + 1
             THEN target \div kSnapshotEvery + 1
             ELSE target \div kSnapshotEvery
        s[i \in j * kSnapshotEvery .. target] ==
            IF i = j * kSnapshotEvery THEN snapshots[j + 1] ELSE Reduce(log[i], s[i - 1])
    IN  IF j * kSnapshotEvery > target THEN snapshots[j + 1] ELSE s[target]

(***************************************************************************)
(* The document after the first `target' edits of the log, from the        *)
(* nearest earlier snapshot.                                               *)
(***************************************************************************)
materialize(target) ==
    LET from == (target \div kSnapshotEvery) * kSnapshotEvery
        s[i \in from .. target] ==
            IF i = from THEN snapshots[target \div kSnapshotEvery + 1]
                        ELSE Reduce(log[i], s[i - 1])
    IN  s[target]

(***************************************************************************)
(* A new edit: drops the redo branch, applies the reducer, logs it, and    *)
(* takes a snapshot when one is due.                                       *)
(***************************************************************************)
Logged(r, kept) ==
    LET next == Reduce(r, edit)
    IN  /\ edit' = next
        /\ log' = Append(SubSeq(log, 1, cursor), r)
        /\ cursor' = cursor + 1
        /\ snapshots' = IF (cursor + 1) % kSnapshotEvery = 0
                        THEN Append(kept, next) ELSE kept
        /\ timeline' = Append(SubSeq(timeline, 1, cursor + 1), next)

(***************************************************************************)
(* Mutation of apply: keeps the snapshots of the redo branch.              *)
(***************************************************************************)
applyKeepsSnapshots(r) ==
    /\ cursor < MaxLog
    /\ Logged(r, snapshots)

apply(r) ==
    /\ cursor < MaxLog
    /\ Logged(r, IF cursor < Len(log)
                 THEN Resize(snapshots, cursor \div kSnapshotEvery + 1)
                 ELSE snapshots)

undo ==
    /\ cursor > 0
    /\ cursor' = cursor - 1
    /\ edit' = materialize(cursor - 1)
    /\ UNCHANGED <<log, snapshots, timeline>>

redo ==
    /\ cursor < Len(log)
    /\ cursor' = cursor + 1
    /\ edit' = materialize(cursor + 1)
    /\ UNCHANGED <<log, snapshots, timeline>>

Next ==
    \/ \E r \in EditReducer : apply(r)
    \/ undo
    \/ redo

Spec == Init /\ [][Next]_vars

-----------------------------------------------------------------------------
(***************************************************************************)
(* Properties.                                                             *)
(***************************************************************************)

(***************************************************************************)
(* The members of History and the document have their types, and every     *)
(* position that undo or redo can go to has its snapshot: `snapshots[j]'   *)
(* in `materialize' is never outside the vector.                           *)
(***************************************************************************)
HistoryTypeOK ==
    /\ edit \in EditState
    /\ log \in Seq(EditReducer)
    /\ snapshots \in Seq(EditState)
    /\ cursor \in 0 .. Len(log)
    /\ timeline \in Seq(EditState)
    /\ Len(timeline) = Len(log) + 1
    /\ Len(snapshots) = Len(log) \div kSnapshotEvery + 1

(***************************************************************************)
(* Snapshots and log tell the same story: a snapshot is the document of    *)
(* its position in the present branch, never one of a branch that an edit  *)
(* after an undo has dropped, and each logged reducer leads from one       *)
(* document to the next.  (The truncation at the start of `apply'.)        *)
(***************************************************************************)
HistoryIsConsistent ==
    /\ edit = timeline[cursor + 1]
    /\ \A j \in 1 .. Len(snapshots) :
            snapshots[j] = timeline[(j - 1) * kSnapshotEvery + 1]
    /\ \A i \in 1 .. Len(log) : timeline[i + 1] = Reduce(log[i], timeline[i])

(***************************************************************************)
(* Undo and redo give back exactly the documents that were there, as if    *)
(* all of them had been kept.                                              *)
(***************************************************************************)
Undoing == INSTANCE UndoStack WITH
    Document <- EditState,
    Blank    <- Empty,
    past     <- SubSeq(timeline, 1, cursor),
    present  <- edit,
    future   <- SubSeq(timeline, cursor + 2, Len(timeline))

ImplementsUndoStack == Undoing!Spec
=============================================================================
