SPECIFICATION MCSpec
CONSTANTS
    s1 = s1
    s2 = s2
    d1 = d1
    NoSession = NoSession
    Devices = {d1}
    Sessions = {s1, s2}
    Grace = 1
    AliveWindow = 2
    OfflineTimeout = 2
    h1 = h1
    Appliances = {h1}
    MaxTroubles = 2
    Unknown = Unknown
    TotalDays = 2
    MaxDay = 4
INVARIANTS
    LiveIsHeld
    ControlsUnderstood
    ShownIsLastSaid
    ReplacementKept
PROPERTIES
    HealthyRouteKept
    RouteRaisedByCurrent
    RouteRestored
    PollingDeviceOffRoute
    SilentShownOffline
