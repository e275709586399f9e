SPECIFICATION Safety
CONSTANTS
    Producers = {p1, p2}
    Consumers = {x1}
    Configs = {c1, c2}
    NoConfig = NoConfig
    Size = 2
    Modulus = 16
    MaxFaults = 0
    LostAcks = FALSE
INVARIANTS
    PublishedIsWritten
CHECK_DEADLOCK FALSE
