SPECIFICATION FairSpec
CONSTANTS
    Conns = {c1}
    MaxBacklog = 1
    MaxFaults = 0
PROPERTIES
    ConnThreadStops
CHECK_DEADLOCK FALSE
