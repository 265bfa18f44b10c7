CONSTANTS
    Settings <- SomeSettings
    Rotations <- SomeRotations
    MaxGen = 2
    MaxFaults = 1
    MaxAge = 2
SPECIFICATION FairSpec
PROPERTIES SecretFollowed
