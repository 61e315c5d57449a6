SPECIFICATION LiveSpec
CONSTANTS
    Sent <- MixedLog
    MaxArrivals = 2
    MaxFailures = 2
    Faults = {"handler", "storage", "fatal", "crash"}
INVARIANTS
    NothingOvertaken
    CrashLosesNothing
    StorageInStep
PROPERTIES
    AccountReads
    EveryUpdateArrives
