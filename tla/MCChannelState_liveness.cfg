SPECIFICATION LiveSpec
CONSTANTS
    Updates <- MCUpdates
    Messages <- MCMessages
    InitialPts = 0
    DiffLimit = 1
    MaxCopies = 1
    Faults = {"request", "storage"}
PROPERTIES
    EveryMessageArrives
CHECK_DEADLOCK FALSE
