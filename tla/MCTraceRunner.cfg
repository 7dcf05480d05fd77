SPECIFICATION FairSpec
CONSTANTS
    WordBytes = 2
    MemBytes = 4
    ByteValues = 4
    AxiIds = {0, 1}
    TohostAddr = 2
    LogicalRegs = 2
    PhysRegs = 3
    PdstValues = 4
    Values <- MCValues
    Offsets <- MCOffsets
    HalfRange = 4
    HexLines <- MCHexLines
    LoadAddr = 0
    ReadBursts <- MCReadBursts
    WriteBursts <- MCWriteBursts
    MaxOwed = 2
    ResetCycles = 1
    MaxCycles = 5
    ExitMod = 4
    Number <- MCNumber
INVARIANTS
    RunnerTypeOK
    BurstsAnswered
    MemoryFollowsImage
    ShadowIsArchitectural
    TohostIsFirstStored
    VerdictIsTheProgramsOwn
PROPERTY
    RunEnds
CHECK_DEADLOCK FALSE
