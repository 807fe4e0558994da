SPECIFICATION FairSpec
CONSTANTS
    Callers = {c1, c2, c3}
    MaxIos = 3
    Contents = {p, q, b}
    Bare = {b}
    MaxRequests = 3
    Window = 3
    MaxFaults = 2
    None = None
INVARIANTS
    TypeOK
    OnePlace
    ResultTells
    FuaLast
    InFlightAlive
    NothingLeaks
    NoResync
    AnswersMatch
PROPERTIES
    WaitReturns
    SubmitReturns
    RequestAnswered
CHECK_DEADLOCK FALSE
