SPECIFICATION Spec
CONSTANTS
    World = 3
    Outages = FALSE
    MaxExchanges = 5
    MaxFaults = 1
    Models = 1
    Leader <- OneGroup
PROPERTIES
    EveryRankEnds
CHECK_DEADLOCK FALSE
