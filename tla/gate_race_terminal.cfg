SPECIFICATION Spec
CONSTANTS
    c1 = c1
    c2 = c2
    entryLane = entryLane
    exitLane = exitLane
    p1 = p1
    p2 = p2
    o1 = o1
    o2 = o2
    NoPlate = NoPlate
    Nobody = Nobody
    Clients <- TwoClients
    Lanes <- BothLanes
    EntryLanes <- TheEntryLane
    Plates <- OnePlate
    Operators <- OneOperator
    SessionIds <- Ids1
    ReviewIds <- Ids1
    PresenceIds <- Ids2
    Times <- Times2
    Window = 1
    Endpoints <- AllEndpoints
    Worded <- OneWord
    MaxCommands = 1
    StrictSql = FALSE
    Subscriptions = FALSE
PROPERTIES
    TerminalFinal
