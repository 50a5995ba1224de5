CONSTANTS
    w1 = w1
    w2 = w2
    Writers <- TwoWriters
    PoolSize = 1
    QueueSize = 2
    BatchSize = 1
    MaxPush = 2
    MaxBreaks = 1
    EsConnected = TRUE
SPECIFICATION Spec
INVARIANT ConfiguredDbUsed
SYMMETRY WriterSymmetry
CHECK_DEADLOCK FALSE
