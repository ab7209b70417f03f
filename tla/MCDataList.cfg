SPECIFICATION Spec
CONSTANTS
    ID <- MCID
    NoID = NoID
    ArrayStep = 2
    ShortMax = 5
    MaxAmount = 5
INVARIANTS
    InOrder
    Capacity
    NothingSkipped
PROPERTIES
    ImplementsDataSet
