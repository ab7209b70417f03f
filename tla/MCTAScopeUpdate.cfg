SPECIFICATION Spec
CONSTANTS
    FileCount = 2
    WirelessFile = 2
    SensorFile = 1
    BackupCount = 1
    MaxFrames = 2
INVARIANTS
    TableTellsTruth
    SuccessIsHonest
    FreedOnlyUnderTheUser
    NothingLeftOn
PROPERTIES
    UpdateEnds
CHECK_DEADLOCK FALSE
