CONSTANTS
    MaxGen = 2
    MaxFaults = 1
    MaxCa = 2
    Variants <- SomeVariants
SPECIFICATION FairSpec
INVARIANTS SuccessIsMounted UnmountedWithResource ExportedIsOwn SuccessIsSetUp
PROPERTIES ProgressKept EventuallySetUp
CHECK_DEADLOCK FALSE
