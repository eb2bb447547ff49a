CONSTANTS
    n1 = n1
    n2 = n2
    n3 = n3
    n4 = n4
    n5 = n5
    Node <- Five
    Out <- Edges
    Passes <- Filtered
    ThresholdParam = 2
    NumThreads = 2
    ParallelThreshold = 2
SPECIFICATION FairSpec
INVARIANTS
    DistancesRight
    TargetsRight
PROPERTY
    SearchEnds
CHECK_DEADLOCK FALSE
