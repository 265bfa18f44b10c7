CONSTANTS
    Periods = {0,1}
    MaxAge = 1
    Policies = {"Delete"}
    DriftDetection = FALSE
    MaxGen = 3
    MaxFaults = 1
    MaxCrashes = 1
SPECIFICATION FairSpec
INVARIANTS NothingLeft
PROPERTIES EventuallyProvisioned DeletionCompletes
CHECK_DEADLOCK FALSE
