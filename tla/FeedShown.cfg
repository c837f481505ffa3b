SPECIFICATION FairSpec
CONSTANTS
    None = None
    A = A
    B = B
    Sites <- AllSites
    LogCap = 2
INVARIANTS
    TypeOK
    ShowsSelected
    LogInOrder
    HeldFromStart
    LiveIsFed
PROPERTIES
    Converges
CHECK_DEADLOCK FALSE
