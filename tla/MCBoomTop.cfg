SPECIFICATION TopFairSpec
CONSTANTS
    WordCount = 4
    LogicalRegs = 2
    IntPhysRegs = 4
    RobSlots = 2
    A0 = 1
    FetchIds = 2
    MaxFetches = 1
    ResetVector = 0
    Programs <- MCPrograms
    TxIds = 3
    DmemDepth = 1
    FaultAddrs = {}
    IqDepth = 2
    IdealMemory = FALSE
    PortDepth = 2
    TraceDepth = 1
INVARIANTS
    TopKeepsUp
    TopLoadValueIsCurrent
    TopLoadAnswerComing
PROPERTY
    RetiresUnlessDropped
