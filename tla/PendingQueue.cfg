CONSTANTS
    Producer = {p1, p2}
    Consumer = {c1, c2}
    Closer = {k1, k2}
    Capacity = 2
    MaxOffered = 5
SPECIFICATION FairSpec
INVARIANTS
    NoLostWakeup
PROPERTIES
    ImplementsFifo
    AcceptedIsDelivered
    CloseEndsConsumers
CHECK_DEADLOCK FALSE
