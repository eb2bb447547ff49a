CONSTANTS
    c1 = c1
    c2 = c2
    c3 = c3
    b1 = b1
    b2 = b2
    CN <- RowCN
    BD <- Switches
    Connected <- RowConnected
    Seeds <- MixedSeeds
    Half = 8
    CounterMod = 8
    NumThreads = 2
    ParallelThreshold = 2
SPECIFICATION FairSpec
INVARIANTS
    TypeOK
    ExitAgreement
    IslandsStayApart
    SeededUnlessShared
PROPERTY
    MergeableEnds
CHECK_DEADLOCK FALSE
