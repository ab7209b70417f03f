SPECIFICATION MCSpec
CONSTANTS
    H1 = H1
    H2 = H2
    H3 = H3
    H4 = H4
    N1 = N1
    N2 = N2
    HM <- MCHM
    Name <- MCName
    Network = Network
    MaxPos = 4
    MaxCommands = 7
    NULL = NULL
SYMMETRY MCSymmetry
INVARIANTS
    LevelIsDepth
PROPERTIES
    NothingLost
    PositionsKept
    SiblingsKeepOrder
    CutLosesNothing
    DeleteTakesTheSelected
CHECK_DEADLOCK FALSE
