SPECIFICATION Spec
CONSTANTS
    Depth = 5
    MaxCalls = 2
INVARIANTS
    RunsOwnBlock
    InputIsStable
    SlotsRecycled
CHECK_DEADLOCK FALSE
