SPECIFICATION LiveSpec
CONSTANTS
    u1 = u1
    u2 = u2
    Users <- Two
    MaxTracked = {1, 2}
    Debounce = 1
    Refresh = 2
    Forget = 2
    Rate = 1
    Burst = 2
    ActivityOnline = 2
    Terms = {1}
    MaxUpdates <- UpdatesBySize
PROPERTIES
    OfflineIsNews
    DebounceWhileTracked
    Converges
    OnlineIsRepeated
