SPECIFICATION Spec
CONSTANTS
    Bytes = {0, 3, 6, 28, 56, 68}
    Iterations = {0, 14, 17}
    DefaultBytes = 8
    DefaultIterations = 2
    IntHalf = 8
    Threads = 2
    MaxRuns = 2
    MaxFailures = 3
CHECK_DEADLOCK FALSE
INVARIANTS
    EverythingIsReleased
    CleanIsClean
    GoodIsComplete
