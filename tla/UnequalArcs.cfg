CONSTANTS
    Token = {"Success", "Failed"}
    File <- MCFile
    Disk <- MCDisk
    Name <- MCName
    Typed <- MCTyped
    KeepsStrays = FALSE
    MaxEdits = 3
    MaxArcs = 2

SPECIFICATION Spec
INVARIANT
    EqualNetsHaveEqualArcs
CHECK_DEADLOCK FALSE
