SPECIFICATION LiveSpec
CONSTANTS
    q1 = q1
    Requests <- One
    MaxRetries = 2
    MaxAttempts = 2
    MaxRotations = 1
    Faults = {"send", "cancel", "close"}
CHECK_DEADLOCK FALSE
INVARIANTS
    ExecutedOnce
    SuccessIsReal
PROPERTY
    CallsEnd
