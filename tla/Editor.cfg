CONSTANTS
    Token = {"Success", "Failed"}
    Disk <- MCDisk
    Opened = "net"
    MaxEdits = 2
    MaxLooks = 4
    MaxPending = 3

SPECIFICATION Spec
INVARIANTS
    DocumentSurvives
    EditsHitWhatWasPicked
    SelectionIsCurrent
CHECK_DEADLOCK FALSE
