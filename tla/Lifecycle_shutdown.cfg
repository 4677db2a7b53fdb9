SPECIFICATION MCSpec
CONSTANTS
    d1 = d1
    c1 = c1
    n1 = n1
    k1 = k1
    k2 = k2
    v1 = v1
    Devices = {d1}
    Creds = {c1}
    NoCreds = NoCreds
    Frames = {n1}
    MaxToggles = 2
    MaxTrouble = 2
    Cameras = {v1}
    NoCamera = NoCamera
    Children = {k1, k2}
    NoChild = NoChild
    MaxChanges = 3
PROPERTIES
    ShutdownCompletes
CHECK_DEADLOCK FALSE
