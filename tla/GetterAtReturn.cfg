SPECIFICATION FairSpec
CONSTANTS
    r1 = r1
    w1 = w1
    w2 = w2
    c1 = c1
    none = none
    nojob = nojob
    Place <- P1Place
    Transition <- P1Transition
    input_n <- P1Input
    output_n <- P1Output
    priority <- P1Priority
    initial_tokens <- P1Initial
    final_marking <- P1Goal
    Synchronous <- P1Synchronous
    Returns <- P1Returns
    Token <- Colours
    Worker = {w1}
    Client = {c1}
    Runner = r1
    Job = {1, 2, 3, 4}
    NoTransition = none
    NoJob = nojob
    Calls = {"get"}
    MaxCalls = 1
    MaxRuns = 1
PROPERTIES
    GetterReturns
\* fire returns for the last time, or stays paused with nobody left to resume.
CHECK_DEADLOCK FALSE
