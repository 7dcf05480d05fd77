SPECIFICATION MergedFairSpec
CONSTANTS
    WordCount = 4
    LogicalRegs = 3
    IntPhysRegs = 6
    RobSlots = 2
    A0 = 1
    FetchIds = 4
    MaxFetches = 2
    ResetVector = 0
    Programs <- MCPrograms
    TxIds = 3
    DmemDepth = 1
    FaultAddrs = {}
    IqDepth = 2
    IdealMemory = TRUE
    TraceDepth = 1
INVARIANTS
    MemoryNeverIssues
    TraceHasRoom
PROPERTIES
    MergedExecutesProgram
    StopsOnlyForMemory
