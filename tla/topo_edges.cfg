SPECIFICATION Spec
CONSTANTS
    OpenCN <- OpenCNs
    Compensator <- Compensators
    CNid <- CNids
    CompensatorAt <- AtCompensator
    Dot = {"e1", "e2", "e3"}
    EndAt <- Ends
    DotEdges <- Lines
    Tx2 = {"x1", "x2"}
    Tx2Edges <- Tx2s
    Tx3 = {"y1", "y3"}
    Tx3Neutral <- Neutrals
    TopoIds <- IdValues
    IntHalf = 8
    Vertex <- V
    Labels <- LabelsOf
    Link <- Links
    Qimeas <- Measured
    HighVolt = {"u1"}
    MinBits <- Min64
INVARIANTS
    CompensatorsJoinSides
    OneOrientation
    LinesCounted
CHECK_DEADLOCK FALSE
