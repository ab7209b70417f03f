SPECIFICATION FairSpec
CONSTANTS
    FIFOSize = 3
    MaxBytes = 8
INVARIANTS
    EventTellsData
    OnlyUnmarkedOrphans
PROPERTIES
    ImplementsByteQueue
    CallsReturn
CHECK_DEADLOCK FALSE
