SPECIFICATION Spec
CONSTANTS
    NoTx = NoTx
    NoPos = NoPos
    NoHeader = NoHeader
    t1 = t1
    t2 = t2
    t3 = t3
    p1 = p1
    p2 = p2
    q1 = q1
    q2 = q2
    Tx = {t1}
    Pos = {p1, p2}
    Pages <- OnePage
    Capacity = 4
    MaxPages = 1
    MaxOpen = 1
    MaxCrashes = 0
    IoMayFail = FALSE
    AllocMayFail = FALSE
    EmptyCommits = FALSE
    VolumeLocked = TRUE
SYMMETRY TxSymmetry
INVARIANTS
    AlwaysMounts
