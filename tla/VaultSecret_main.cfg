CONSTANTS
    Periods = {0,2}
    Leases = {1,3}
    RefreshThreshold = 90
    Definitions = 2
    MaxAge = 3
    MaxGen = 2
    MaxFaults = 1
    MaxTampers = 1
SPECIFICATION FairSpec
INVARIANTS TypeOK HealsAtOnce DueInTime ContentNotOlder
PROPERTIES KeepsRefreshing
