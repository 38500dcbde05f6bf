SPECIFICATION FairSpec
CONSTANTS
    r1 = r1
    w1 = w1
    w2 = w2
    c1 = c1
    none = none
    nojob = nojob
    Place <- P2Place
    Transition <- P2Transition
    input_n <- P2Input
    output_n <- P2Output
    priority <- P2Priority
    initial_tokens <- P2Initial
    final_marking <- P2Goal
    Synchronous <- P2Synchronous
    Returns <- P2Returns
    Token <- Colours
    Worker = {w1, w2}
    Client = {c1}
    Runner = r1
    Job = {1, 2, 3}
    NoTransition = none
    NoJob = nojob
    Calls = {"cancel", "pause", "resume"}
    MaxCalls = 2
    MaxRuns = 2
INVARIANTS
    NothingLeftBehind
    LogLifecycle
    ResourcesAreKept
    CandidatesCoverEnabled
PROPERTIES
    PriorityRespected
    CallbackCompletes
    FireReturns
\* fire returns for the last time, or stays paused with nobody left to resume.
CHECK_DEADLOCK FALSE
