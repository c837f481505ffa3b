SPECIFICATION FairSpec
CONSTANTS
    None = None
    c1 = c1
    c2 = c2
    Clients <- OneClient
    MaxAttempts = 2
    MaxMissed = 2
    MaxFaults = 1
PROPERTIES
    EndNoticed
CHECK_DEADLOCK FALSE
