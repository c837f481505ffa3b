SPECIFICATION Spec
CONSTANTS
    None = None
    MaxSends = 2
    Settings <- TwoDrops
INVARIANTS
    NoLoss
CHECK_DEADLOCK FALSE
