CONSTANTS
    Workers = {w1, w2}
    Auths <- SomeAuths
    Settings = {"true", "unset", "false"}
    MaxClients = 5
    MaxFaults = 1
SPECIFICATION FairSpec
INVARIANTS TypeOK OwnIdentity NotEndedBefore
PROPERTIES EventuallyShared
