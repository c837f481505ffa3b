SPECIFICATION FairSpec
CONSTANTS
    None = None
    c1 = c1
    c2 = c2
    Clients <- TwoClients
    MaxAttempts = 3
    MaxMissed = 2
    MaxFaults = 4
INVARIANTS
    TypeOK
    OneAttempt
    OneConnection
    MissedAgrees
PROPERTIES
    DisconnectedIsFinal
    Settles
CHECK_DEADLOCK FALSE
