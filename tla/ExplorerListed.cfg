SPECIFICATION FairSpec
CONSTANTS
    None = None
    p1 = p1
    p2 = p2
    d1 = d1
    d2 = d2
    s1 = s1
    Profiles <- MCProfiles
    Databases <- MCDatabases
    Schemas <- MCSchemas
    PinnedIn <- MCPinnedIn
    MaxClicks = 3
    MaxChanges = 1
    MaxFaults = 2
INVARIANTS
    TypeOK
    OwnEnvironment
    LoadingIsServed
    RefreshReached
PROPERTIES
    Settles
CHECK_DEADLOCK FALSE
