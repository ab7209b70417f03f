SPECIFICATION FairSpec
CONSTANTS
    New = New
    Old = Old
    NULL = NULL
    Device <- MCDevice
    OldFirmware <- MCOldFirmware
    MaxChanges = 3
    PacketCount = 2
    WaitUSBEventTimeout = 1
INVARIANTS
    SuccessIsProgrammed
    TalksToLiveDevice
    RegularEndIsClean
    NullOnlyAfterPackets
PROPERTIES
    OnlyReportsBlockTheWindow
    EndIsShown
    StopEnds
CHECK_DEADLOCK FALSE
