CONSTANTS
    Kinds <- AllKinds
    DriftDetection = TRUE
    MaxChanges = 2
SPECIFICATION Spec
INVARIANTS TypeOK SettledIsReflected NothingElsewhere
PROPERTIES EveryCycleHeals
CHECK_DEADLOCK FALSE
