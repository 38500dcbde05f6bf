\* Two threads, three tasks, and a destructor at any time.
SPECIFICATION FairSpec
CONSTANTS
    n_threads = 2
    Task = {k1, k2, k3}
    Nothing = Nothing
INVARIANTS
    PoolTypeOK
    EachTaskInOnePlace
    NobodySleepsThroughTheEnd
PROPERTIES
    PushedTaskRuns
    DestructorReturns
\* The system stops when the destructor has returned.
CHECK_DEADLOCK FALSE
