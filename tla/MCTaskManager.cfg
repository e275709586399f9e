SPECIFICATION ManagerSpec
CONSTANTS
    MaxTasks = 4
    Ids = {i1, i2, i3}
    NoId = NoId
    ReuseIds = TRUE
    MaxQueueSize = 2
    KeepCount = 2
    PngKeepCount = 1
    Full = 1
SYMMETRY IdSymmetry
INVARIANTS
    ActiveKept
    IdsUnambiguous
    QueueBounded
    PngBounded
    CountersExact
PROPERTIES
    TerminalForever
    OldestRecordsDeleted
CHECK_DEADLOCK FALSE
