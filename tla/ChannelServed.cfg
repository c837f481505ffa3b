SPECIFICATION FairSpec
CONSTANTS
    None = None
    MaxSends = 3
    Settings <- DropOrRace
INVARIANTS
    TypeOK
    NoLoss
    RepeatsBounded
PROPERTIES
    AllHandled
CHECK_DEADLOCK FALSE
