SPECIFICATION FairSpec
CONSTANTS
    e1 = e1
    e2 = e2
    w1 = w1
    w2 = w2
    Ids <- OneEvent
    Procs <- TwoProcs
    MaxAttempts = 2
    Kinds <- AllKinds
    LeaseHolds = FALSE
    AcksReliable = FALSE
    SweepAttempts = 2
    SweepExists = TRUE
    MaxDocs = 1
    MaxRetries = 1
    MaxRequeues = 1
    MaxFaults = 1
INVARIANTS
    TypeOK
    SentHasDocument
    FailedIsExhausted
PROPERTIES
    PendingSettles
CHECK_DEADLOCK FALSE
