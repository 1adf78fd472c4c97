SPECIFICATION Spec
CONSTANTS
    c1 = c1
    c2 = c2
    entryLane = entryLane
    exitLane = exitLane
    p1 = p1
    p2 = p2
    o1 = o1
    o2 = o2
    NoPlate = NoPlate
    Nobody = Nobody
    Clients <- TwoClients
    Lanes <- TheEntryLane
    EntryLanes <- TheEntryLane
    Plates <- OnePlate
    Operators <- OneOperator
    SessionIds <- Ids1
    ReviewIds <- Ids1
    PresenceIds <- Ids1
    Times <- OneTime
    Window = 1
    Endpoints <- AllEndpoints
    Worded <- OtherWord
    MaxCommands = 1
    StrictSql = FALSE
    Subscriptions = TRUE
SYMMETRY ClientSymmetry
INVARIANTS
    TypeOK
    PassedHasBarrier
    EntryRowsHaveBarrier
