SPECIFICATION BusySpec
CONSTANTS
    Conns = {c1, c2}
    MaxBacklog = 2
    MaxFaults = 1
INVARIANTS
    ConnOwned
    StoppedClean
    NoLostConnect
PROPERTIES
    ClosedReaped
CHECK_DEADLOCK FALSE
