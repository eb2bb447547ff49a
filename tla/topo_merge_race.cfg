CONSTANTS
    c1 = c1
    c2 = c2
    c3 = c3
    b1 = b1
    b2 = b2
    CN <- PairCN
    BD <- Switches
    Connected <- PairConnected
    Seeds <- MixedSeeds
    Half = 8
    CounterMod = 8
    NumThreads = 2
    ParallelThreshold = 2
SPECIFICATION Spec
INVARIANT
    OnlySeededIds
CHECK_DEADLOCK FALSE
