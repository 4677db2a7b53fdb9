SPECIFICATION FairSpec
CONSTANTS
    k1 = k1
    k2 = k2
    v1 = v1
    v2 = v2
    Keys = {k1}
    Values = {v1, v2}
    Actions = {a1}
    Panels = {p1, p2}
    Recovery = recovery
    Nobody = nobody
    Transports = {"auto", "mqtt", "heartbeat"}
    PanelWrites <- OneKey
    BareWrites <- NoWrites
    HAWrites <- NoWrites
    HAActions = {a1}
    MaxQueue = 2
    LateFailures = FALSE
    Restarts = FALSE
INVARIANTS
    ActionInOnePlace
    SettledShowsTruth
PROPERTIES
    RecoveryDelivers
    WaitersServed
    ActionsLand
