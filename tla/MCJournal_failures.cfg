SPECIFICATION Spec
CONSTANTS
    NoTx = NoTx
    NoPos = NoPos
    NoHeader = NoHeader
    t1 = t1
    t2 = t2
    t3 = t3
    p1 = p1
    p2 = p2
    q1 = q1
    q2 = q2
    Tx = {t1, t2}
    Pos = {p1, p2}
    Pages <- OnePage
    Capacity = 8
    MaxPages = 1
    MaxOpen = 2
    MaxCrashes = 1
    IoMayFail = TRUE
    AllocMayFail = TRUE
    EmptyCommits = TRUE
    VolumeLocked = TRUE
SYMMETRY TxSymmetry
INVARIANTS
    IInv
    CommittedDurable
    FailedNeverVisible
PROPERTIES
    DecisionStable
CHECK_DEADLOCK FALSE
