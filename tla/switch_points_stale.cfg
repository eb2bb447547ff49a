CONSTANTS
    d1 = d1
    d2 = d2
    brk = brk
    named = named
    dis = dis
    Discrete <- Discretes
    Switch <- Switches
    Edge <- Measured
    ForcedOn <- On1
    ForcedOff <- Off0
    Vertex <- Vertices
    A11 <- Stations
    MayJoin <- Joins
    c1 = c1
    c2 = c2
    bus = bus
    unit = unit
    tx = tx
    load = load
    comp = comp
    sub = sub
    CN <- CNs
    Device <- Devices
    At <- AtCN
    Kind <- Kinds
    Misc <- Selected
    Numbers <- Ids
    Neutral <- Neutrals
    SubsOf <- Subs
    CNid <- Own
    Half = 4
    NumThreads = 2
    ParallelThreshold = 2
SPECIFICATION MCSpec
INVARIANT
    PositionsInEffect
CHECK_DEADLOCK FALSE
