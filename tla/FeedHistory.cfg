SPECIFICATION Spec
CONSTANTS
    None = None
    A = A
    B = B
    Sites <- JustStarted
    LogCap = 2
INVARIANTS
    OpenedRunWhole
CHECK_DEADLOCK FALSE
