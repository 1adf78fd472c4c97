SPECIFICATION FairSpec
CONSTANTS
    e1 = e1
    e2 = e2
    w1 = w1
    w2 = w2
    Ids <- TwoEvents
    Procs <- TwoProcs
    MaxAttempts = 2
    Kinds <- WorkerOnly
    LeaseHolds = TRUE
    AcksReliable = TRUE
    SweepAttempts = 2
    SweepExists = FALSE
    MaxDocs = 1
    MaxRetries = 1
    MaxRequeues = 0
    MaxFaults = 1
INVARIANTS
    OneSyncPerRow
PROPERTIES
    RefinesDelivery
    FailureReachesDlq
    SentIsAnnounced
CHECK_DEADLOCK FALSE
