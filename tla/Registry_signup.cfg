SPECIFICATION Spec
CONSTANTS
    d1 = d1
    d2 = d2
    Devices = {d1, d2}
    MaxCred = 3
    MaxRev = 2
    Crashes = TRUE
    DiskErrors = FALSE
INVARIANTS
    SignupSurvives
