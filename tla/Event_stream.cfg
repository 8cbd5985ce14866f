SPECIFICATION FairSpec
CONSTANTS
    Subscribers = {s1, s2}
    MaxBlock = 2
    MaxEvents = 2
    Capacity = 2
INVARIANTS
    TypeOK
    NothingMissed
    SentOnce
    BlockFirst
    InOrder
PROPERTY AllForwarded
CHECK_DEADLOCK FALSE
