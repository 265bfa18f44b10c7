CONSTANTS
    o1 = o1  p1 = p1
    Objects = {o1}
    Paths = {p1}
    PathOf <- OnePath
    Nobody = Nobody
    Deletable = {o1}
    DriftDetection = FALSE
    MaxGen = 3
    MaxFaults = 2
    MaxDrifts = 0
SPECIFICATION FairSpec
PROPERTIES EventuallySettled DeletionCompletes
CHECK_DEADLOCK FALSE
