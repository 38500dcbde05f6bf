CONSTANTS
    Net = {"outer", "middle", "inner"}
    Root = "outer"
    Place = {"p", "q", "r", "a", "b", "c", "d", "x", "y"}
    Transition = {"first", "second", "beside", "deep", "work"}
    In <- MCIn
    Out <- MCOut
    Owner <- MCOwner
    Callback <- MCCallback
    Initial <- MCInitial
    Goal <- MCGoal
    Threads = 3
    MaxCalls = 2

SPECIFICATION FairSpec
INVARIANTS
    NestedTypeOK
    NoWorkOutlivesItsNet
    NetsRunAlone
    ControlReachesNested
    OutcomeHolds
PROPERTY
    RootReturns
CHECK_DEADLOCK FALSE
