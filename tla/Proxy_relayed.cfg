SPECIFICATION MCSpec
CONSTANTS
    r1 = r1
    r2 = r2
    cmd1 = cmd1
    s1 = s1
    s2 = s2
    Requests = {r1, r2}
    Commands = {cmd1}
    Secrets = {s1, s2}
    Minted = Minted
    NoSecret = NoSecret
    NoRequest = NoRequest
    Threshold = 2
    MaxIncidents = 2
    MaxNodes = 4
    p1 = p1
    p2 = p2
    w1 = w1
    Parents = {p1, p2}
    NoParent = NoParent
    Commanders = {w1}
    NeverRead = NeverRead
    MaxWrites = 2
    MaxMishaps = 1
    MaxMoves = 1
    MaxAir = 1
INVARIANTS
    AnswersRight
    BodiesRedacted
PROPERTIES
    SecretSettles
    KnowledgeCatchesUp
CHECK_DEADLOCK FALSE
