-------------------------------- MODULE UndoStack --------------------------------
(***************************************************************************)
(* What an undo history promises: the documents of the past and of the     *)
(* future are kept as they were.  An edit forgets the future; undo and     *)
(* redo move the present into it and out of it.                            *)
(***************************************************************************)
EXTENDS Sequences, Integers

CONSTANTS
    Document,   \* the documents
    Blank       \* the first one

VARIABLES
    past,       \* Seq(Document), the latest last
    present,
    future      \* Seq(Document), the next first

vars == <<past, present, future>>

Init ==
    /\ past = <<>>
    /\ present = Blank
    /\ future = <<>>

Edit ==
    /\ past' = Append(past, present)
    /\ present' \in Document
    /\ future' = <<>>

Undo ==
    /\ past # <<>>
    /\ present' = past[Len(past)]
    /\ past' = SubSeq(past, 1, Len(past) - 1)
    /\ future' = <<present>> \o future

Redo ==
    /\ future # <<>>
    /\ past' = Append(past, present)
    /\ present' = Head(future)
    /\ future' = Tail(future)

Next == Edit \/ Undo \/ Redo

Spec == Init /\ [][Next]_vars
=============================================================================
