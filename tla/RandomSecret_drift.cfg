CONSTANTS
    Periods = {0,2}
    MaxAge = 2
    Policies = {"Delete","Retain"}
    DriftDetection = TRUE
    MaxGen = 2
    MaxFaults = 1
    MaxCrashes = 1
SPECIFICATION FairSpec
INVARIANTS TypeOK StatusNotAhead
PROPERTIES KeepsRefreshing
CHECK_DEADLOCK FALSE
