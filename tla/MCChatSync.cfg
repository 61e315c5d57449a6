SPECIFICATION LiveSpec
CONSTANTS
    NumDialogs = 3
    PageSize = 2
    Configs <- MCConfigs
    MaxBumps = 1
    MaxCrawls = 2
    MaxFailures = 2
CHECK_DEADLOCK FALSE
INVARIANTS
    NothingSkipped
    CompleteIsTrue
    CreateLimitKept
PROPERTY
    EventuallyComplete
