CONSTANTS
    Token = {"Success", "Failed"}
    File <- MCFile
    Disk <- MCDisk
    Name <- MCName
    Typed <- MCTyped
    KeepsStrays = FALSE
    MaxEdits = 3
    MaxArcs = 2

SPECIFICATION Spec
INVARIANTS
    DocumentIsSound
    SavedNetComesBack
    NetsAreToldApart
PROPERTY
    ImplementsNetGraph
CHECK_DEADLOCK FALSE
