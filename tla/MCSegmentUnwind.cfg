SPECIFICATION Spec
CONSTANTS
    World = 2
    Steps = 1
    MaxRequests = 1
    Setups <- GlooOnly
    SegLen = 3
    SrOverlap = 1
    VideoLengths = {13}
    MaxFailures = 1
PROPERTIES
    ChainUnwinds
CHECK_DEADLOCK FALSE
