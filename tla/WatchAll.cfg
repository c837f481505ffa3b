SPECIFICATION FairSpec
CONSTANTS
    None = None
    r1 = r1
    r2 = r2
    r3 = r3
    Receivers <- ThreeReceivers
    MaxSends = 2
    MaxAsks = 3
    MaxSpurious = 1
INVARIANTS
    TypeOK
    NoLostWakeup
    WakersOwned
PROPERTIES
    Implements
CHECK_DEADLOCK FALSE
