SPECIFICATION Spec
CONSTANTS
    WordCount = 4
    LogicalRegs = 3
    IntPhysRegs = 6
    RobSlots = 2
    A0 = 1
    FetchIds = 4
    MaxFetches = 2
    ResetVector = 0
    Programs <- MCStraightLine
    TxIds = 5
    DmemDepth = 2
    FaultAddrs = {3}
    IqDepth = 2
    IdealMemory = FALSE
INVARIANT
    NothingSkipped
