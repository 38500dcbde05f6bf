CONSTANTS
    Thread = {"ui", "pool"}
    Piece <- MCPiece
    Filling <- MCFilling
    Name <- MCName
    Builtin <- MCBuiltin
    Size = 4
    MaxTokens = 4

SPECIFICATION Spec
INVARIANTS
    ColorsTellApart
    ColorsKeepTheirNames
    AssertsWhenFull
\* Constructors are called MaxTokens times, and an assertion or the end of the table stops them.
CHECK_DEADLOCK FALSE
