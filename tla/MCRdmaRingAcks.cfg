SPECIFICATION Spec
CONSTANTS
    Producers = {p1}
    Consumers = {x1, x2}
    Configs = {c1, c2}
    NoConfig = NoConfig
    Size = 2
    Modulus = 16
    MaxFaults = 1
    LostAcks = TRUE
PROPERTIES
    ImplementsFifo
    PublishedIsConsumed
CHECK_DEADLOCK FALSE
