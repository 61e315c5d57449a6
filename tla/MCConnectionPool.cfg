SPECIFICATION LiveSpec
CONSTANTS
    r1 = r1
    r2 = r2
    r3 = r3
    Requests <- ThreeRequests
    Conns = {1, 2, 3, 4, 5}
    Limit = 1
    MaxCalls = 4
CHECK_DEADLOCK FALSE
INVARIANTS
    TotalIsExact
    NothingLost
PROPERTIES
    EveryoneServed
    CloseEndsCalls
