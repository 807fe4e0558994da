SPECIFICATION Spec
CONSTANTS
    Threads = {t1, t2}
    Addrs = {a1, a2, a3}
    Refs = {r1, r2, r3}
    Pages = {p1, p2}
    MaxAllocs = 2
    Indexes = {x1}
    Blocks = {b1, b2}
    Words = 1
    WordBits = 2
    RestBits = 1
    MaxFaults = 1
    None = None
SYMMETRY Symmetry
INVARIANTS
    TypeOK
    CountsOwners
    NothingLost
    EntryExact
    LeaksExact
    BitOneOwner
    NotFoundSawAll
    OneBlock
CHECK_DEADLOCK FALSE
