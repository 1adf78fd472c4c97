SPECIFICATION FairSpec
CONSTANTS
    e1 = e1
    e2 = e2
    w1 = w1
    w2 = w2
    Ids <- OneEvent
    Procs <- OneProc
    MaxAttempts = 2
    Kinds <- WorkerAndDrain
    LeaseHolds = TRUE
    AcksReliable = TRUE
    SweepAttempts = 2
    SweepExists = FALSE
    MaxDocs = 1
    MaxRetries = 1
    MaxRequeues = 0
    MaxFaults = 0
PROPERTIES
    FailureReachesDlq
CHECK_DEADLOCK FALSE
