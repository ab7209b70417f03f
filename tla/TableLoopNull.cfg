SPECIFICATION Spec
CONSTANTS
    A = A
    B = B
    ID <- MCID
    NoID = NoID
    Class <- MCClass
    AnyClass = AnyClass
    ClassOf <- MCClassOf
    LeastCursor <- MCLeastCursor
INVARIANT
    NoNullFollowed
CHECK_DEADLOCK FALSE
