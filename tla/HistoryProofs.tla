------------------------------ MODULE HistoryProofs ------------------------------
(***************************************************************************)
(* Proofs about the undo history, for every set of documents and edits,    *)
(* every distance of snapshots and a log of any length.                    *)
(***************************************************************************)
EXTENDS History, WellFoundedInduction, SequenceTheorems, TLAPS

(***************************************************************************)
(* A non-empty set of natural numbers has a least element: the form in     *)
(* which induction is used below.                                          *)
(***************************************************************************)
LEMMA LeastElement ==
    ASSUME NEW T \in SUBSET Nat, T # {}
    PROVE  \E m \in T : \A k \in T : m <= k
<1>1. IsWellFoundedOn({ss \in Nat \X Nat : ss[1] < ss[2]}, Nat)
    BY NatLessThanWellFounded, Zenon DEF OpToRel
<1>2. PICK m \in T : \A k \in T : <<k, m>> \notin {ss \in Nat \X Nat : ss[1] < ss[2]}
    BY <1>1, WFMin, Zenon
<1>3. ASSUME NEW k \in T PROVE m <= k
    <2>1. k \in Nat /\ m \in Nat
        OBVIOUS
    <2>2. ~(k < m)
        BY <1>2, <2>1
    <2>3. QED
        BY <2>1, <2>2
<1>4. QED
    BY <1>3

(***************************************************************************)
(* The number of snapshots that are due for a log of n entries.            *)
(***************************************************************************)
LEMMA SnapshotPositions ==
    ASSUME NEW K \in Nat \ {0}, NEW n \in Nat
    PROVE  /\ n \div K \in Nat
           /\ (n \div K) * K \in 0 .. n
           /\ n < (n \div K) * K + K
           /\ (n + 1) % K = 0 => /\ (n + 1) \div K = n \div K + 1
                                 /\ ((n + 1) \div K) * K = n + 1
           /\ (n + 1) % K # 0 => (n + 1) \div K = n \div K
<1>1. /\ n \div K \in Nat
      /\ ((n \div K) * K) + (n % K) = n
      /\ n % K \in 0 .. K - 1
    OBVIOUS
<1>2. /\ (n + 1) \div K \in Nat
      /\ (((n + 1) \div K) * K) + ((n + 1) % K) = n + 1
      /\ (n + 1) % K \in 0 .. K - 1
    OBVIOUS
<1>3. QED
    BY <1>1, <1>2

(***************************************************************************)
(* What `materialize' computes.  The replay is a recursive function; that  *)
(* there is one is witnessed by the timeline, and that it agrees with the  *)
(* timeline follows by looking at the first place where it would not.      *)
(***************************************************************************)
LEMMA Materialized ==
    ASSUME HistoryTypeOK, HistoryIsConsistent, HistoryAssumption,
           NEW target \in 0 .. Len(log)
    PROVE  materialize(target) = timeline[target + 1]
<1> DEFINE j == target \div kSnapshotEvery
           from == j * kSnapshotEvery
           Replay(f) == [i \in from .. target |->
                            IF i = from THEN snapshots[j + 1] ELSE Reduce(log[i], f[i - 1])]
           s == CHOOSE f : f = Replay(f)
           g == [i \in from .. target |-> timeline[i + 1]]
<1>1. materialize(target) = s[target]
    BY Zenon DEF materialize
<1>2. /\ target \in Nat /\ Len(log) \in Nat
      /\ j \in Nat /\ from \in Nat /\ from <= target
      /\ j + 1 \in 1 .. Len(snapshots)
    <2>1. target \in Nat /\ Len(log) \in Nat
        BY DEF HistoryTypeOK
    <2>2. j \in Nat /\ from \in 0 .. target
        BY <2>1, SnapshotPositions, Zenon DEF HistoryAssumption
    <2>3. j <= Len(log) \div kSnapshotEvery
        BY <2>1 DEF HistoryAssumption
    <2>4. QED
        BY <2>1, <2>2, <2>3 DEF HistoryTypeOK
<1>3. g[from] = snapshots[j + 1]
    BY <1>2, SMTT(60), ZenonT(60) DEF HistoryIsConsistent
<1>4. ASSUME NEW i \in from + 1 .. target
      PROVE  /\ i \in 1 .. Len(log)
             /\ g[i] = Reduce(log[i], g[i - 1])
    BY <1>2 DEF HistoryIsConsistent
<1> HIDE DEF j, from
<1>5. g = Replay(g)
    <2>1. ASSUME NEW i \in from .. target
          PROVE  g[i] = IF i = from THEN snapshots[j + 1] ELSE Reduce(log[i], g[i - 1])
        <3>1. i = from \/ i \in from + 1 .. target
            BY <1>2
        <3>2. QED
            BY <1>3, <1>4, <3>1
    <2>2. g = [i \in from .. target |-> g[i]]
        OBVIOUS
    <2> HIDE DEF g
    <2>3. QED
        BY <2>1, <2>2
<1>6. s = Replay(s)
    BY <1>5
<1> HIDE DEF s, g
<1>7. ASSUME s[target] # g[target] PROVE FALSE
    <2> DEFINE Wrong == {i \in from .. target : s[i] # g[i]}
    <2>1. Wrong \in SUBSET Nat /\ target \in Wrong
        BY <1>2, <1>7
    <2>2. PICK i \in Wrong : \A k \in Wrong : i <= k
        BY <2>1, LeastElement
    <2>3. CASE i = from
        BY <1>2, <1>3, <1>6, <2>2, <2>3
    <2>4. CASE i # from
        <3>1. i - 1 \in from .. target /\ i \in from + 1 .. target
            BY <1>2, <2>2, <2>4
        <3>2. s[i - 1] = g[i - 1]
            BY <1>2, <2>2, <3>1
        <3>3. s[i] = Reduce(log[i], s[i - 1])
            BY <1>6, <2>4, <3>1
        <3>4. QED
            BY <1>4, <2>2, <3>1, <3>2, <3>3
    <2>5. QED
        BY <2>3, <2>4
<1>8. g[target] = timeline[target + 1]
    BY <1>2 DEF g
<1>9. QED
    BY <1>1, <1>7, <1>8

(***************************************************************************)
(* The inductive invariant: types and consistency need each other, since   *)
(* undo and redo return what Materialized says.                            *)
(***************************************************************************)
HistoryInv == HistoryTypeOK /\ HistoryIsConsistent

LEMMA HistoryInvInit == Init => HistoryInv
<1> SUFFICES ASSUME Init PROVE HistoryInv
    OBVIOUS
<1> USE HistoryAssumption
<1>1. 0 \div kSnapshotEvery = 0
    BY DEF HistoryAssumption
<1>2. HistoryTypeOK
    BY <1>1 DEF Init, HistoryTypeOK, HistoryAssumption
<1>3. HistoryIsConsistent
    BY DEF Init, HistoryIsConsistent, HistoryAssumption
<1>4. QED
    BY <1>2, <1>3 DEF HistoryInv

(***************************************************************************)
(* What a new edit does to the vectors, entry by entry.                    *)
(***************************************************************************)
LEMMA Applied ==
    ASSUME HistoryInv, NEW r \in EditReducer, apply(r)
    PROVE  /\ edit' = Reduce(r, edit) /\ edit' \in EditState
           /\ cursor' = cursor + 1
           /\ log' \in Seq(EditReducer) /\ Len(log') = cursor + 1
           /\ \A i \in 1 .. cursor : log'[i] = log[i]
           /\ log'[cursor + 1] = r
           /\ timeline' \in Seq(EditState) /\ Len(timeline') = cursor + 2
           /\ \A i \in 1 .. cursor + 1 : timeline'[i] = timeline[i]
           /\ timeline'[cursor + 2] = edit'
<1> USE HistoryAssumption DEF HistoryInv, HistoryTypeOK
<1>1. cursor \in Nat /\ cursor <= Len(log) /\ Len(log) \in Nat
    OBVIOUS
<1>2. edit' = Reduce(r, edit) /\ edit' \in EditState /\ cursor' = cursor + 1
    BY DEF apply, Logged, HistoryAssumption
<1>3. /\ SubSeq(log, 1, cursor) \in Seq(EditReducer)
      /\ Len(SubSeq(log, 1, cursor)) = cursor
      /\ \A i \in 1 .. cursor : SubSeq(log, 1, cursor)[i] = log[i]
    BY <1>1
<1>4. log' = Append(SubSeq(log, 1, cursor), r)
    BY DEF apply, Logged
<1>5. /\ SubSeq(timeline, 1, cursor + 1) \in Seq(EditState)
      /\ Len(SubSeq(timeline, 1, cursor + 1)) = cursor + 1
      /\ \A i \in 1 .. cursor + 1 : SubSeq(timeline, 1, cursor + 1)[i] = timeline[i]
    BY <1>1
<1>6. timeline' = Append(SubSeq(timeline, 1, cursor + 1), edit')
    BY <1>2 DEF apply, Logged
<1>7. /\ log' \in Seq(EditReducer) /\ Len(log') = cursor + 1
      /\ \A i \in 1 .. cursor : log'[i] = log[i]
      /\ log'[cursor + 1] = r
    BY <1>1, <1>3, <1>4
<1>8. /\ timeline' \in Seq(EditState) /\ Len(timeline') = cursor + 2
      /\ \A i \in 1 .. cursor + 1 : timeline'[i] = timeline[i]
      /\ timeline'[cursor + 2] = edit'
    BY <1>1, <1>2, <1>5, <1>6
<1>9. QED
    BY <1>2, <1>7, <1>8

(***************************************************************************)
(* After a new edit there is a snapshot at every position of the new       *)
(* branch that is due, and no other.                                       *)
(***************************************************************************)
LEMMA SnapshotsApplied ==
    ASSUME HistoryInv, NEW r \in EditReducer, apply(r)
    PROVE  /\ snapshots' \in Seq(EditState)
           /\ Len(snapshots') = (cursor + 1) \div kSnapshotEvery + 1
           /\ \A j \in 1 .. Len(snapshots') :
                  snapshots'[j] = timeline'[(j - 1) * kSnapshotEvery + 1]
<1> DEFINE K == kSnapshotEvery
           q == cursor \div K
           kept == IF cursor < Len(log) THEN Resize(snapshots, q + 1) ELSE snapshots
<1>1. K \in Nat \ {0} /\ cursor \in Nat /\ Len(log) \in Nat /\ cursor <= Len(log)
    BY HistoryAssumption DEF HistoryAssumption, HistoryInv, HistoryTypeOK
<1>2. q \in Nat /\ q * K \in 0 .. cursor
    BY <1>1, SnapshotPositions, Zenon
<1>3. q + 1 <= Len(snapshots)
    <2>1. q <= Len(log) \div K
        BY <1>1
    <2>2. QED
        BY <1>1, <1>2, <2>1 DEF HistoryInv, HistoryTypeOK
<1>4. /\ kept \in Seq(EditState) /\ Len(kept) = q + 1
      /\ \A j \in 1 .. q + 1 : kept[j] = snapshots[j]
    <2>1. CASE cursor < Len(log)
        <3>1. kept = [i \in 1 .. q + 1 |-> snapshots[i]]
            BY <1>2, <1>3, <2>1 DEF Resize, HistoryInv, HistoryTypeOK
        <3>2. \A i \in 1 .. q + 1 : snapshots[i] \in EditState
            BY <1>2, <1>3 DEF HistoryInv, HistoryTypeOK
        <3>3. QED
            BY <1>2, <3>1, <3>2
    <2>2. CASE ~(cursor < Len(log))
        BY <1>1, <1>2, <2>2 DEF HistoryInv, HistoryTypeOK
    <2>3. QED
        BY <2>1, <2>2
<1>5. \A j \in 1 .. q + 1 : kept[j] = timeline'[(j - 1) * K + 1]
    <2>1. ASSUME NEW j \in 1 .. q + 1 PROVE (j - 1) * K + 1 \in 1 .. cursor + 1
        <3>1. (j - 1) * K \in Nat /\ (j - 1) * K <= q * K
            BY <1>1, <1>2
        <3>2. QED
            BY <1>1, <1>2, <3>1
    <2>2. \A i \in 1 .. cursor + 1 : timeline'[i] = timeline[i]
        BY Applied, Zenon
    <2>3. \A j \in 1 .. q + 1 : snapshots[j] = timeline[(j - 1) * K + 1]
        BY <1>2, <1>3 DEF HistoryInv, HistoryIsConsistent, HistoryTypeOK
    <2>4. QED
        BY <1>4, <2>1, <2>2, <2>3, Zenon
<1>6. snapshots' = IF (cursor + 1) % K = 0 THEN Append(kept, edit') ELSE kept
    BY DEF apply, Logged
<1> HIDE DEF kept
<1>7. CASE (cursor + 1) % K = 0
    <2>1. (cursor + 1) \div K = q + 1 /\ (q + 1) * K = cursor + 1
        BY <1>1, <1>7, SnapshotPositions, ZenonT(60)
    <2>2. edit' \in EditState /\ edit' = timeline'[(q + 1) * K + 1]
        <3>1. edit' \in EditState /\ edit' = timeline'[cursor + 2]
            BY Applied, Zenon
        <3>2. (q + 1) * K + 1 = cursor + 2
            BY <1>1, <2>1
        <3>3. QED
            BY <3>1, <3>2
    <2> HIDE DEF q, K
    <2>3. /\ snapshots' \in Seq(EditState) /\ Len(snapshots') = q + 2
          /\ \A j \in 1 .. q + 1 : snapshots'[j] = kept[j]
          /\ snapshots'[q + 2] = edit'
        BY <1>2, <1>4, <1>6, <1>7, <2>2
    <2>4. ASSUME NEW j \in 1 .. q + 2 PROVE snapshots'[j] = timeline'[(j - 1) * K + 1]
        <3>1. CASE j = q + 2
            <4>1. j - 1 = q + 1
                BY <1>2, <3>1
            <4>2. QED
                BY <2>2, <2>3, <3>1, <4>1
        <3>2. CASE j # q + 2
            BY <1>2, <1>5, <2>3, <3>2
        <3>3. QED
            BY <3>1, <3>2
    <2>5. (cursor + 1) \div K + 1 = q + 2
        BY <1>2, <2>1
    <2>6. QED
        BY <2>3, <2>4, <2>5 DEF K
<1>8. CASE (cursor + 1) % K # 0
    <2>1. (cursor + 1) \div K = q
        BY <1>1, <1>8, SnapshotPositions, Zenon
    <2>2. QED
        BY <1>4, <1>5, <1>6, <1>8, <2>1
<1>9. QED
    BY <1>7, <1>8

LEMMA HistoryInvNext == HistoryInv /\ [Next]_vars => HistoryInv'
<1> SUFFICES ASSUME HistoryInv, [Next]_vars PROVE HistoryInv'
    OBVIOUS
<1>1. ASSUME NEW r \in EditReducer, apply(r) PROVE HistoryInv'
    <2>1. HistoryTypeOK'
        BY <1>1, Applied, SnapshotsApplied DEF HistoryInv, HistoryTypeOK
    <2>2. edit' = timeline'[cursor' + 1]
        BY <1>1, Applied DEF HistoryInv, HistoryTypeOK
    <2>3. \A j \in 1 .. Len(snapshots') :
              snapshots'[j] = timeline'[(j - 1) * kSnapshotEvery + 1]
        BY <1>1, SnapshotsApplied
    <2>4. ASSUME NEW i \in 1 .. Len(log')
          PROVE  timeline'[i + 1] = Reduce(log'[i], timeline'[i])
        <3>1. cursor \in Nat /\ cursor <= Len(log) /\ Len(log) \in Nat
            BY DEF HistoryInv, HistoryTypeOK
        <3>2. i \in 1 .. cursor + 1
            BY <1>1, Applied
        <3>3. CASE i = cursor + 1
            <4>1. timeline'[i + 1] = Reduce(r, edit) /\ log'[i] = r
                BY <1>1, <3>1, <3>3, Applied
            <4>2. timeline'[i] = edit
                BY <1>1, <3>1, <3>3, Applied DEF HistoryInv, HistoryIsConsistent
            <4>3. QED
                BY <4>1, <4>2
        <3>4. CASE i # cursor + 1
            <4>1. /\ i \in 1 .. cursor /\ i \in 1 .. Len(log)
                  /\ i \in 1 .. cursor + 1 /\ i + 1 \in 1 .. cursor + 1
                BY <3>1, <3>2, <3>4
            <4>2. /\ log'[i] = log[i] /\ timeline'[i] = timeline[i]
                  /\ timeline'[i + 1] = timeline[i + 1]
                BY <1>1, <4>1, Applied
            <4>3. QED
                BY <4>1, <4>2 DEF HistoryInv, HistoryIsConsistent
        <3>5. QED
            BY <3>3, <3>4
    <2>5. QED
        BY <2>1, <2>2, <2>3, <2>4 DEF HistoryInv, HistoryIsConsistent
<1>2. ASSUME NEW target \in 0 .. Len(log), edit' = materialize(target), cursor' = target,
             UNCHANGED <<log, snapshots, timeline>>
      PROVE  HistoryInv'
    <2>1. edit' = timeline[target + 1]
        BY <1>2, Materialized, HistoryAssumption DEF HistoryInv
    <2>2. edit' \in EditState
        BY <2>1 DEF HistoryInv, HistoryTypeOK
    <2>3. QED
        BY <1>2, <2>1, <2>2 DEF HistoryInv, HistoryTypeOK, HistoryIsConsistent
<1>3. CASE undo
    <2>1. cursor - 1 \in 0 .. Len(log)
        BY <1>3 DEF undo, HistoryInv, HistoryTypeOK
    <2>2. QED
        BY <1>2, <1>3, <2>1 DEF undo
<1>4. CASE redo
    <2>1. cursor + 1 \in 0 .. Len(log)
        BY <1>4 DEF redo, HistoryInv, HistoryTypeOK
    <2>2. QED
        BY <1>2, <1>4, <2>1 DEF redo
<1>5. CASE UNCHANGED vars
    BY <1>5 DEF vars, HistoryInv, HistoryTypeOK, HistoryIsConsistent
<1>6. QED
    BY <1>1, <1>3, <1>4, <1>5 DEF Next

(***************************************************************************)
(* The history and the document keep their types, and every position that  *)
(* undo or redo can go to has its snapshot.                                *)
(***************************************************************************)
THEOREM HistoryTypeCorrect == Spec => []HistoryTypeOK
<1>1. Spec => []HistoryInv
    BY HistoryInvInit, HistoryInvNext, PTL DEF Spec
<1>2. HistoryInv => HistoryTypeOK
    BY DEF HistoryInv
<1>3. QED
    BY <1>1, <1>2, PTL

(***************************************************************************)
(* Log, snapshots and document always belong to one branch: the documents  *)
(* as they were made.                                                      *)
(***************************************************************************)
THEOREM HistoryConsistent == Spec => []HistoryIsConsistent
<1>1. Spec => []HistoryInv
    BY HistoryInvInit, HistoryInvNext, PTL DEF Spec
<1>2. HistoryInv => HistoryIsConsistent
    BY DEF HistoryInv
<1>3. QED
    BY <1>1, <1>2, PTL

-----------------------------------------------------------------------------
(***************************************************************************)
(* The three steps of an undo stack, in terms of the timeline.             *)
(***************************************************************************)
LEMMA ApplyIsEdit ==
    ASSUME HistoryInv, NEW r \in EditReducer, apply(r)
    PROVE  Undoing!Edit
<1>1. /\ cursor \in Nat /\ timeline \in Seq(EditState)
      /\ Len(timeline) \in Nat /\ cursor + 1 <= Len(timeline)
    BY DEF HistoryInv, HistoryTypeOK
<1>2. SubSeq(timeline', 1, cursor') = Append(SubSeq(timeline, 1, cursor), edit)
    <2>1. timeline[cursor + 1] = edit
        BY DEF HistoryInv, HistoryIsConsistent
    <2>2. /\ timeline' \in Seq(EditState) /\ Len(timeline') = cursor + 2
          /\ cursor' = cursor + 1
          /\ \A i \in 1 .. cursor + 1 : timeline'[i] = timeline[i]
        BY Applied, Zenon
    <2>3. QED
        BY <1>1, <2>1, <2>2
<1>3. edit' \in EditState
    BY Applied
<1>4. SubSeq(timeline', cursor' + 2, Len(timeline')) = <<>>
    <2>1. /\ timeline' \in Seq(EditState) /\ Len(timeline') = cursor + 2
          /\ cursor' = cursor + 1
        BY Applied, Zenon
    <2>2. QED
        BY <1>1, <2>1
<1>5. QED
    BY <1>2, <1>3, <1>4 DEF Undoing!Edit

LEMMA UndoIsUndo ==
    ASSUME HistoryInv, undo
    PROVE  Undoing!Undo
<1>1. /\ cursor \in Nat \ {0} /\ timeline \in Seq(EditState)
      /\ Len(timeline) \in Nat /\ cursor + 1 <= Len(timeline)
      /\ timeline[cursor + 1] = edit
      /\ cursor' = cursor - 1 /\ timeline' = timeline
    BY DEF HistoryInv, HistoryTypeOK, HistoryIsConsistent, undo
<1>2. edit' = timeline[cursor]
    <2>1. cursor - 1 \in 0 .. Len(log) /\ (cursor - 1) + 1 = cursor
        BY <1>1 DEF HistoryInv, HistoryTypeOK
    <2>2. QED
        BY <2>1, Materialized, HistoryAssumption DEF HistoryInv, undo
<1> DEFINE past == SubSeq(timeline, 1, cursor)
<1>3. past # <<>> /\ Len(past) = cursor /\ past[Len(past)] = timeline[cursor]
    BY <1>1
<1>4. SubSeq(timeline, 1, cursor - 1) = SubSeq(past, 1, Len(past) - 1)
    BY <1>1
<1>5. SubSeq(timeline, (cursor - 1) + 2, Len(timeline))
        = <<edit>> \o SubSeq(timeline, cursor + 2, Len(timeline))
    BY <1>1
<1> HIDE DEF past
<1>6. QED
    BY <1>1, <1>2, <1>3, <1>4, <1>5, Zenon DEF Undoing!Undo, past

LEMMA RedoIsRedo ==
    ASSUME HistoryInv, redo
    PROVE  Undoing!Redo
<1>1. /\ cursor \in Nat /\ timeline \in Seq(EditState)
      /\ Len(timeline) \in Nat /\ cursor + 2 <= Len(timeline)
      /\ timeline[cursor + 1] = edit
      /\ cursor' = cursor + 1 /\ timeline' = timeline
    BY DEF HistoryInv, HistoryTypeOK, HistoryIsConsistent, redo
<1>2. edit' = timeline[cursor + 2]
    <2>1. cursor + 1 \in 0 .. Len(log) /\ (cursor + 1) + 1 = cursor + 2
        BY <1>1 DEF HistoryInv, HistoryTypeOK, redo
    <2>2. QED
        BY <2>1, Materialized, HistoryAssumption DEF HistoryInv, redo
<1> DEFINE future == SubSeq(timeline, cursor + 2, Len(timeline))
<1>3. future # <<>> /\ Head(future) = timeline[cursor + 2]
    <2>1. /\ future \in Seq(EditState) /\ Len(future) = Len(timeline) - (cursor + 1)
          /\ future[1] = timeline[cursor + 2]
        BY <1>1
    <2> HIDE DEF future
    <2>2. Len(future) # 0
        BY <1>1, <2>1
    <2>3. future # <<>>
        BY <2>1, <2>2
    <2>4. Head(future) = future[1]
        BY <2>1, <2>3
    <2>5. QED
        BY <2>1, <2>3, <2>4
<1>4. SubSeq(timeline, 1, cursor + 1) = Append(SubSeq(timeline, 1, cursor), edit)
    BY <1>1
<1>5. SubSeq(timeline, (cursor + 1) + 2, Len(timeline)) = Tail(future)
    BY <1>1, SMTT(60), ZenonT(60)
<1> HIDE DEF future
<1>6. QED
    BY <1>1, <1>2, <1>3, <1>4, <1>5, Zenon DEF Undoing!Redo, future

(***************************************************************************)
(* Checkpoint and replay is indistinguishable from keeping every document: *)
(* undo and redo give back exactly what was there.                         *)
(***************************************************************************)
THEOREM HistoryImplementsUndoStack == Spec => ImplementsUndoStack
<1>1. Init => Undoing!Init
    BY DEF Init, Undoing!Init
<1>2. HistoryInv /\ [Next]_vars => [Undoing!Next]_Undoing!vars
    <2> SUFFICES ASSUME HistoryInv, [Next]_vars PROVE [Undoing!Next]_Undoing!vars
        OBVIOUS
    <2>1. ASSUME NEW r \in EditReducer, apply(r) PROVE Undoing!Next
        BY <2>1, ApplyIsEdit DEF Undoing!Next
    <2>2. CASE undo
        BY <2>2, UndoIsUndo DEF Undoing!Next
    <2>3. CASE redo
        BY <2>3, RedoIsRedo DEF Undoing!Next
    <2>4. CASE UNCHANGED vars
        BY <2>4 DEF vars, Undoing!vars
    <2>5. QED
        BY <2>1, <2>2, <2>3, <2>4 DEF Next
<1>3. Spec => []HistoryInv
    BY HistoryInvInit, HistoryInvNext, PTL DEF Spec
<1>4. QED
    BY <1>1, <1>2, <1>3, PTL DEF Spec, ImplementsUndoStack, Undoing!Spec
=============================================================================
