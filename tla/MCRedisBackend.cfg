CONSTANTS
    w1 = w1
    w2 = w2
    Writers <- TwoWriters
    PoolSize = 2
    QueueSize = 3
    BatchSize = 2
    MaxPush = 2
    MaxBreaks = 1
    EsConnected = TRUE
SPECIFICATION Spec
INVARIANT TypeOK
INVARIANT NoTaskLost
PROPERTY Termination
PROPERTY AsyncWriterRefined
CHECK_DEADLOCK FALSE
