SPECIFICATION FairSpec
CONSTANTS
    c1 = c1
    c2 = c2
    c3 = c3
    c4 = c4
    Chunks = {c1, c2, c3, c4}
    Clip = clip
    Second <- LateTwin
    Stream <- OneStream
    Damaged = {}
    Stored = {c1, c2, c3}
    Joined <- OnlyJoined
    MaxStops = 2
CHECK_DEADLOCK FALSE
INVARIANTS
    Playable
    Listed
PROPERTIES
    Converges
    SweepsFinish
