SPECIFICATION LiveSpec
CONSTANTS
    MaxID = 7
    ChunkLimit = 3
    MaxAlbumSize = 3
    Configs <- MCConfigs
    MaxResyncs = 2
    MaxFailures = 2
CHECK_DEADLOCK FALSE
INVARIANTS
    NoHoles
    NothingTwice
    AlbumIndexes
    AcceptedIsNoticed
PROPERTIES
    SessionEnds
    EverythingBridged
