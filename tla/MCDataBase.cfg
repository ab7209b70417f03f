SPECIFICATION Spec
CONSTANTS
    Root_ = Root
    T1 = T1
    T2 = T2
    Ruled = Ruled
    A = A
    B = B
    NULL = NULL
    Obj <- MCObj
    Root <- Root_
    Table <- MCTable
    TrueTable <- MCTrueTable
    Locker = {A}
    NameOf <- MCNameOf
INVARIANTS
    VerifyTable
    ListedIsLocked
    NoDanglingLink
    Acyclic
    NoFreedTableUsed
    UnlinkedBeforeFree
PROPERTIES
    ImplementsObjectTree
CHECK_DEADLOCK FALSE
