CONSTANTS
    o1 = o1  p1 = p1
    Objects = {o1}
    Paths = {p1}
    PathOf <- OnePath
    Nobody = Nobody
    Deletable = {o1}
    DriftDetection = TRUE
    MaxGen = 3
    MaxFaults = 2
    MaxDrifts = 1
SPECIFICATION Spec
INVARIANTS TypeOK NothingLeftBehind SuccessIsInVault CleanupNotSkipped
PROPERTIES NoRegress ImplementsDesiredState
CHECK_DEADLOCK FALSE
