SPECIFICATION FrontendSpec
CONSTANTS
    WordCount = 3
    LogicalRegs = 2
    IntPhysRegs = 3
    RobSlots = 1
    A0 = 1
    FetchIds = 4
    MaxFetches = 3
    ResetVector = 0
    Programs <- MCPrograms
INVARIANTS
    FrontendTypeOK
    FetchAnswerComing
    FetchIdsDistinct
PROPERTY
    FetchedFromPc
