SPECIFICATION MCFairSpec
CONSTANTS
    Mint = {"m1", "m2", "m3"}
    Bad = {"m3"}
    Task = {1, 2, 3}
    MaxAttempts = 1
    MaxPending = 1
    Events <- MCEvents
    Provider = {"helius", "quicknode", "public"}
    Fallback = {"public"}
    Lead = "helius"
    Call = {1, 2, 3}
    Item = {1, 2, 3}
    Key = {"k1", "k2"}
    Cacheable = {1, 2}
    KeyOf <- MCKeyOf
    MaxAsks = 2
    MaxConcurrency = 2
    MinConcurrency = 1
    StepUp = 2
    Workloads <- MCWorkloads
INVARIANTS CandidatesAreSound HandledOnce
PROPERTIES ConnectionIsSound WorkEnds
CHECK_DEADLOCK FALSE
