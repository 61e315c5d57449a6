SPECIFICATION LiveSpec
CONSTANTS
    w1 = w1
    w2 = w2
    Workers <- TwoWorkers
    MaxPending = 2
    MaxChanges = 3
    MaxFailures = 1
    MaxCrashes = 1
INVARIANT
    RunningIsRegistered
PROPERTIES
    MemberIsServed
    LeftIsForgotten
