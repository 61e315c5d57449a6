SPECIFICATION LiveSpec
CONSTANTS
    u1 = u1
    u2 = u2
    c1 = c1
    c2 = c2
    Users <- Two
    MaxTime = 2
    Capacity = 1
    Callers <- Both
CHECK_DEADLOCK FALSE
PROPERTY
    LatestArrives
