SPECIFICATION Spec
CONSTANTS
    k1 = k1
    k2 = k2
    v1 = v1
    v2 = v2
    Keys = {k1, k2}
    Values = {v1, v2}
    Actions = {a1}
    Panels = {p1, p2}
    Recovery = recovery
    Nobody = nobody
    Transports = {"auto", "mqtt", "heartbeat"}
    PanelWrites <- Overlapping
    BareWrites <- NoWrites
    HAWrites <- NoWrites
    HAActions = {a1}
    MaxQueue = 2
    LateFailures = TRUE
    Restarts = TRUE
INVARIANTS
    OwedIsPending
PROPERTIES
    OnlyLatestValues
