SPECIFICATION Safety
CONSTANTS
    World = 2
    Outages = TRUE
    MaxExchanges = 10
    MaxFaults = 2
    Models = 2
    Leader <- OneGroup
INVARIANTS
    SameCause
    WholeWeights
    NoOrphan
    FailedHoldsNothing
PROPERTIES
    FailureReachesAll
CHECK_DEADLOCK FALSE
