SPECIFICATION FairSpec
CONSTANTS
    w1 = w1
    w2 = w2
    j1 = j1
    j2 = j2
    None = None
    Workers = {w1, w2}
    Jobs = {j1, j2}
    ShortTimeout = 1
    Timeout <- SameTimeout
    Buffer = 1
    HandlerMax = 4
    DbFaults = TRUE
    MaxCrashes = 1
INVARIANTS RunnerHoldsLease
PROPERTIES ReleasesOwnLock JobRunsAgain
