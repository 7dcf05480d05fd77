SPECIFICATION RobSpec
CONSTANTS
    RobDepth = 3
    Uops <- MCUops
    MemInfos <- MCMemInfos
    NoUop <- MCNoUop
    NoMem = "none"
INVARIANTS
    RobTypeOK
    RobWindow
PROPERTY
    RobIsInOrder
