CONSTANTS
    Settings <- SomeSettings
    Rotations <- SomeRotations
    MaxGen = 3
    MaxFaults = 2
    MaxAge = 2
SPECIFICATION FairSpec
INVARIANTS RecordedIsReal NextRotationDue
PROPERTIES ConnectionKept KeepsRotating
