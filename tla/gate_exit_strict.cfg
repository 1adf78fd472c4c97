SPECIFICATION Spec
CONSTANTS
    c1 = c1
    c2 = c2
    entryLane = entryLane
    exitLane = exitLane
    p1 = p1
    p2 = p2
    o1 = o1
    o2 = o2
    NoPlate = NoPlate
    Nobody = Nobody
    Clients <- OneClient
    Lanes <- BothLanes
    EntryLanes <- TheEntryLane
    Plates <- OnePlate
    Operators <- OneOperator
    SessionIds <- Ids2
    ReviewIds <- Ids2
    PresenceIds <- Ids2
    Times <- OneTime
    Window = 1
    Endpoints <- GateEndpoints
    Worded <- OneWord
    MaxCommands = 1
    StrictSql = TRUE
    Subscriptions = FALSE
INVARIANTS
    ApprovedExitCommits
