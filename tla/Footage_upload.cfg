SPECIFICATION Spec
CONSTANTS
    c1 = c1
    c2 = c2
    c3 = c3
    c4 = c4
    Chunks = {c1, c2, c3, c4}
    Clip = clip
    Second <- Twins
    Stream <- TwoStreams
    Damaged = {c3}
    Stored = {c1, c4}
    Joined <- New
    MaxStops = 0
CHECK_DEADLOCK FALSE
INVARIANTS
    NothingLost
    OneWriterPerFile
