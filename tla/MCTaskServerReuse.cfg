SPECIFICATION Spec
CONSTANTS
    MaxTasks = 3
    Ids = {i1, i2}
    NoId = NoId
    ReuseIds = TRUE
    MaxQueueSize = 2
    KeepCount = 1
    PngKeepCount = 1
    Full = 1
    MaxSync = 1
    ProgressSteps = {}
INVARIANTS
    RunningIsCurrent
PROPERTIES
    EveryTaskEnds
    EverySyncAnswered
CHECK_DEADLOCK FALSE
