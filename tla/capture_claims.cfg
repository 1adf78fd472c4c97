SPECIFICATION FairSpec
CONSTANTS
    c1 = c1
    c2 = c2
    c3 = c3
    session1 = session1
    heartbeat1 = heartbeat1
    capture1 = capture1
    capture2 = capture2
    entry = entry
    x = x
    y = y
    Nothing = Nothing
    Orphan = Orphan
    Lanes <- OneLane
    LaneOf <- OneLaneOf
    Payloads <- TwoPayloads
    Clients <- OneClient
    SessionKeys <- NoKeys
    HeartbeatKeys <- NoKeys
    CaptureKeys <- OneCaptureKey
    RedisReliable = TRUE
    MaxFaults = 0
PROPERTIES
    CaptureSettles
