\* Undo, redo and new edits in every order, over a log of up to five edits
\* with a snapshot after every second.
SPECIFICATION Spec
CONSTANTS
    EditReducer = {"add", "double", "clear"}
    EditState <- MCEditState
    Empty = 0
    Reduce <- MCReduce
    kSnapshotEvery = 2
    MaxLog = 5
INVARIANTS
    HistoryTypeOK
    HistoryIsConsistent
PROPERTIES
    ImplementsUndoStack
