CONSTANTS
    a = a
    b = b
    Caller <- Two
    Calls <- SharedCalls
    Workloads <- SharedWork
    NumThreads = 4
    ParallelThreshold = 4
SPECIFICATION FairSpec
INVARIANTS
    NoOrphans
    AppliedOnce
    SequentialResult
PROPERTY
    CallEnds
CHECK_DEADLOCK FALSE
