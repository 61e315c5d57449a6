SPECIFICATION LiveSpec
CONSTANTS
    c1 = c1
    c2 = c2
    Channels <- Two
    QueueSize = 1
    ChannelSize = 1
    MaxPushed = 3
    MaxBatches = 1
CHECK_DEADLOCK FALSE
PROPERTY
    WorkerReturns
