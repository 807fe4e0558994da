SPECIFICATION Spec
CONSTANTS
    None = None
    t1 = t1
    t2 = t2
    k1 = k1
    k2 = k2
    Threads = {t1, t2}
    Keys = {k1, k2}
    KeysOf <- Mixed
    Vals = {a, b}
    Devices = {"blank", "volume", "foreign"}
    MaxFaults = 1
INVARIANTS
    VolumeStays
    NoOrphanThread
    ReadsOwnWrite
PROPERTIES
    AtomicExistence
CHECK_DEADLOCK FALSE
