SPECIFICATION BenchSpec
CONSTANTS
    WordCount = 4
    LogicalRegs = 3
    IntPhysRegs = 6
    RobSlots = 2
    A0 = 1
    FetchIds = 4
    MaxFetches = 2
    ResetVector = 0
    Programs <- MCPrograms
    TxIds = 5
    DmemDepth = 2
    FaultAddrs = {}
    IqDepth = 2
    IdealMemory = TRUE
    Kinds = {"prefix", "complete", "observed"}
    Targets = {2, 5}
    Tohost = 0
    MaxCycles = 30
INVARIANTS
    VerdictIsRight
    PassedTraceMatches
    BranchesLead
PROPERTY
    BenchEnds
CHECK_DEADLOCK FALSE
