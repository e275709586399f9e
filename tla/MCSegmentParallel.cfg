SPECIFICATION Spec
CONSTANTS
    World = 3
    Steps = 2
    MaxRequests = 2
    Setups <- AllSetups
    SegLen = 3
    SrOverlap = 1
    VideoLengths = {3, 11}
    MaxFailures = 1
INVARIANTS
    MeetingsAligned
    StopsTogether
    SegmentsCover
    NothingAbandoned
PROPERTIES
    TailsBelong
    SuccessIsWhole
    EveryRequestEnds
CHECK_DEADLOCK FALSE
