SPECIFICATION Spec
CONSTANTS
    t1 = t1
    t2 = t2
    Encoder = encoder
    Decoder = decoder
    Transformers = {t1, t2}
    Rooms = {1, 2}
    Deployments <- Small
    MaxFaults = 1
INVARIANTS
    NoMissedPair
    MoverLives
    WholeWhenUsed
PROPERTIES
    EveryRoomAnswered
    RoomsReleased
CHECK_DEADLOCK FALSE
