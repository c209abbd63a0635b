\* Three goroutines for every component, two keys or names, one half-open
\* probe quota of two, two sessions; one publisher through three outages
\* or resumes and two pauses; three executor tasks with a flush asked for
\* at two; four pool tasks with two idle slots; two sql goroutines
\* asking for two servers' connections, with three calls of fn.
CONSTANTS
    Procs = {p1, p2, p3}
    Keys = {k1, k2}
    Names = {n1, n2}
    None = None
    MaxRequests = 2
    FailuresToBreak = 1
    MaxCount = 4
    MaxCalls = 2
    MaxReplacements = 1
    Slots = 2
    MaxTriggers = 3
    MaxPauses = 2
    MaxTasks = 3
    FlushAt = 2
    MaxIdle = 2
    PoolTasks = 4
    SqlProcs = {d1, d2}
    Servers = {s1, s2}
    MaxConns = 3
    ConnCalls = 3
SPECIFICATION FairSpec
VIEW View
\* Callers return and stop calling; a stopped publisher idles.
CHECK_DEADLOCK FALSE
INVARIANTS
    TypeOK
    
    HalfOpenAdmissionBound
    NoDuplicateBreaker
    OneFlightPerKey
    FollowersShareResult
    BorrowsMatchHolders
    CleanupOnceAtLastRelease
    OneRenewedLease
    TasksAccounted
    PoolHoldsParkedWorkers
PROPERTIES
    ProbesResolve
    EveryCallReturns
    RefinesKeyedLock
    EveryLockedCallReturns
    StopRemovesKey
    EveryTaskExecuted
    EveryAddReturns
    EveryTaskRuns
    EveryGetReturns
