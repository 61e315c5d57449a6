SPECIFICATION Spec
CONSTANTS
    Updates <- MCUpdates
    Messages <- MCMessages
    InitialPts = 0
    DiffLimit = 1
    MaxCopies = 1
    Faults <- MCAllFaults
INVARIANTS
    TypeOK
    NothingOvertaken
    CrashLosesNothing
    BatchIsContiguous
    OpenGapHasTimer
    GapsAreMissing
PROPERTIES
    FilledGapApplies
    ReadsWithoutHoles
CHECK_DEADLOCK FALSE
