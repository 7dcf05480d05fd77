SPECIFICATION Spec
CONSTANTS
    WordCount = 4
    LogicalRegs = 3
    IntPhysRegs = 4
    RobSlots = 2
    A0 = 1
    FetchIds = 3
    MaxFetches = 2
    ResetVector = 0
    Programs <- MCMemoryLoops
    TxIds = 3
    DmemDepth = 1
    FaultAddrs = {2}
    IqDepth = 1
    IdealMemory = FALSE
INVARIANTS
    CoreTypeOK
    NoWrongPath
    LoadAnswerComing
    LoadValueIsCurrent
