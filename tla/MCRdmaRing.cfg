SPECIFICATION Safety
CONSTANTS
    Producers = {p1}
    Consumers = {x1, x2}
    Configs = {c1, c2, c3, c4, c5}
    NoConfig = NoConfig
    Size = 2
    Modulus = 16
    MaxFaults = 1
    LostAcks = FALSE
SYMMETRY RingSymmetry
INVARIANTS
    PublishedIsWritten
    ClaimIsFresh
PROPERTIES
    ImplementsFifo
CHECK_DEADLOCK FALSE
