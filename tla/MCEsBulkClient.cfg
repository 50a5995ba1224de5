CONSTANTS
    p1 = p1
    p2 = p2
    Producers <- TwoProducers
    BulkSize = 2
    MaxDocs = 4
    MaxRetries = 3
SPECIFICATION Spec
INVARIANT TypeOK
INVARIANT NoDocumentLost
INVARIANT FinalFlushDelivers
PROPERTY Termination
CHECK_DEADLOCK FALSE
