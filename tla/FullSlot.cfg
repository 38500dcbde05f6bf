\* One thread: no race is needed.
CONSTANTS
    Thread = {"ui"}
    Piece <- MCPiece
    Filling <- MCFilling
    Name <- MCFullName
    Builtin <- MCBuiltin
    Size = 5
    MaxTokens = 3

SPECIFICATION Spec
INVARIANT
    SameColorSameIndex
CHECK_DEADLOCK FALSE
