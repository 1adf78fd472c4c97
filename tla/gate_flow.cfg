SPECIFICATION Spec
CONSTANTS
    c1 = c1
    c2 = c2
    entryLane = entryLane
    exitLane = exitLane
    p1 = p1
    p2 = p2
    o1 = o1
    o2 = o2
    v1 = v1
    v2 = v2
    k1 = k1
    vipA = vipA
    vipB = vipB
    None = None
    NoPlate = NoPlate
    Nobody = Nobody
    Clients <- OneClient
    Lanes <- BothLanes
    EntryLanes <- TheEntryLane
    Plates <- OnePlate
    Operators <- OneOperator
    SessionIds <- Ids2
    ReviewIds <- Ids2
    PresenceIds <- Ids2
    Times <- OneTime
    Window = 1
    Endpoints <- FlowEndpoints
    Worded <- OneWord
    MaxCommands = 3
    StrictSql = FALSE
    Subscriptions = FALSE
    Vehicles <- TwoVehicles
    Cards <- OneCard
    Vips <- TwoVips
    Slips <- Ids2
    Money <- PaidSums
    Minutes <- StayMinutes
    Tariffs <- HourlyCapped
    Reads <- SomeReads
    Tables <- SomeTables
INVARIANTS
    PaymentHoldIsQueued
    PresenceHasOpenTicket
    PassedExitClosesTicket
    BarrierOnlyAfterApproval
    ConfirmAloneRepeats
    ExitsAccounted
PROPERTIES
    TerminalFinal
