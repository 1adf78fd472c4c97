SPECIFICATION Spec
CONSTANTS
    s1 = s1
    s2 = s2
    s3 = s3
    r1 = r1
    r2 = r2
    a1 = a1
    a2 = a2
    None = None
    Sids <- ThreeSessions
    Procs <- TwoRequests
    Addresses <- TwoAddresses
    Limit = 1
    Threshold = 2
    Loads <- MeetingLoads
    MaxSeconds = 1
    MaxCuts = 2
    MaxCrashes = 1
INVARIANTS
    TypeOK
    EndedStaysEnded
    RevokeAllReachesAll
    GrantsAreCurrent
    SessionCap
    NewestNotEvicted
    LockoutHolds
SYMMETRY Symmetric
CHECK_DEADLOCK FALSE
