SPECIFICATION Spec
CONSTANTS
    c1 = c1
    c2 = c2
    c3 = c3
    c4 = c4
    Chunks = {c1, c2, c3, c4}
    Clip = clip
    Second <- Apart
    Stream <- OneStream
    Damaged = {}
    Stored = {c1, c2, c3}
    Joined <- OnlyJoined
    MaxStops = 0
CHECK_DEADLOCK FALSE
PROPERTIES
    RefusedSwapKeepsFiles
