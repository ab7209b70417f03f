SPECIFICATION MCSpec
CONSTANTS
    P = P
    Name <- MCName
    Default = Default
    MaxIndex = 2
    MaxEdits = 2
    MaxFiles = 3
    MaxHarm = 2
    Absent = Absent
    Torn = Torn
    NULL = NULL
INVARIANTS
    ModifiedIsHonest
    CrashSparesOne
    PipesAreInTheFile
PROPERTIES
    GivenUpOnlyIfAgreed
