CONSTANTS
    SyncPeriod = 3
    Latency = 1
    MaxBackoff = 2
    DriftDetection = TRUE
    MaxFaults = 2
SPECIFICATION Spec
INVARIANTS DriftBounded
