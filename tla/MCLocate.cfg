SPECIFICATION FairSpec
CONSTANTS
    ID <- MCID
    MaxAmount = 6
INVARIANTS
    SearchWindow
    Contract
PROPERTIES
    Terminates
