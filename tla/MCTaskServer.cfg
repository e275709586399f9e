SPECIFICATION Safety
CONSTANTS
    MaxTasks = 3
    Ids = {i1, i2, i3}
    NoId = NoId
    ReuseIds = FALSE
    MaxQueueSize = 2
    KeepCount = 2
    PngKeepCount = 1
    Full = 1
    MaxSync = 2
    ProgressSteps = {2}
SYMMETRY IdSymmetry
INVARIANTS
    GivenUpIsStopped
    LostOnlyToNewer
    AnswerMatchesTask
PROPERTIES
    ImplementsLifecycle
CHECK_DEADLOCK FALSE
