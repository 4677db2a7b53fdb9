SPECIFICATION MCSpec
CONSTANTS
    e1 = e1
    q1 = q1
    q2 = q2
    NumPets = 2
    Foreign = {91, 92}
    Reports = {e1}
    PhotoRequests = {q1, q2}
    NumFaces = 2
    MaxFaces = 1
    none = none
    NoEpisode = none
    Stories <- SomeStories
    VisitWindow = 2
    TailWindow = 1
    MaxTime = 2
    MaxRows = 4
    MaxFilmed = 1
    d1 = d1
    d2 = d2
    Devices = {d1, d2}
    MaxCred = 2
    MaxRev = 2
    Crashes = TRUE
    DiskErrors = TRUE
    j1 = j1
    j2 = j2
    cloud = cloud
    camera = camera
    None = None
    Jobs = {j1, j2}
    Patchers = {cloud, camera}
    PatchKind <- Kinds
    MaxRuns = 2
    MaxLag = 2
    MaxPatchTroubles = 1
    Second = 2
    Ticks = 4
    Days = 3
    EmptyTick = 2
    Schedules <- SomeSchedules
    PunctualPolls = FALSE
    MaxTicks = 13
    MaxChanges = 2
    Animals = {1,2}
    Plans <- SomePlans
    AbsFloor = 100
    RelTolerance = 8
    MinCorroborating = 5
    OutlierMultiple = 4
    OutlierFloor = 300
    MinToTrim = 4
    MatchWindow = 1
    MaxValueDelta = 300
    MaxPushLag = 1
    MaxWeighTime = 3
INVARIANTS
    HistoryFollowsAliases
    PhotosServable
    CardsRight
    SignupKept
    NothingForgotten
    PatchesInPlace
    WeighedRight
PROPERTIES
    BootsComplete
    FedAsStored
CHECK_DEADLOCK FALSE
