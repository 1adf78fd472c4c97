SPECIFICATION FairSpec
CONSTANTS
    c1 = c1
    c2 = c2
    c3 = c3
    session1 = session1
    heartbeat1 = heartbeat1
    capture1 = capture1
    capture2 = capture2
    entry = entry
    x = x
    y = y
    Nothing = Nothing
    Orphan = Orphan
    Lanes <- OneLane
    LaneOf <- OneLaneOf
    Payloads <- TwoPayloads
    Clients <- TwoClients
    SessionKeys <- OneSessionKey
    HeartbeatKeys <- OneHeartbeatKey
    CaptureKeys <- TwoCaptureKeys
    RedisReliable = FALSE
    MaxFaults = 1
INVARIANTS
    TypeOK
    EffectOncePerKey
    OkAnswersTheEffect
    DeviceReplayMatches
PROPERTIES
    LockTakenOnlyByExpiry
    ClaimSettles
