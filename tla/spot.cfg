SPECIFICATION FairSpec
CONSTANTS
    v1 = v1
    r1 = r1
    r2 = r2
    Nothing = Nothing
    Plates <- OnePlate
    RuleSets <- FreeReservedElsewhere
    Procs <- TwoRuns
    GraceHits = 2
    MaxIncidents = 4
    Loads <- MeetingLoads
    MaxEvents = 2
INVARIANTS
    TypeOK
    OneActivePerSpot
    StatusIsRecorded
PROPERTIES
    OrderReturns
    TroubleOpens
CHECK_DEADLOCK FALSE
