SPECIFICATION Spec
CONSTANTS
    None = None
    p1 = p1
    p2 = p2
    f1 = f1
    f2 = f2
    g = g
    r1 = r1
    r2 = r2
    Projects <- MCProjects
    Folders <- MCFolders
    Roots <- MCRoots
    DefaultFolder <- MCDefaultFolder
    DefaultRoots <- MCDefaultRoots
    Within <- MCWithin
    Watched <- MCWatched
    WorkspaceInit <- MCWorkspaceInit
    KvpInit <- MCKvpInit
    DiskInit <- MCDiskInit
    Plans <- SwitchPlans
INVARIANTS
    MigrationSettled
CHECK_DEADLOCK FALSE
