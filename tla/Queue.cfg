SPECIFICATION FairSpec
CONSTANTS
    Requests = {1, 2, 3}
    External = external
    NoRequest = none
    Unset = unset
    QueueCapacity = 2
    Budget <- Storm
CONSTRAINT Bounds
INVARIANTS
    TypeOK
    OneLivePending
    NonceGapFree
    MinedAtMostOnce
    TrackedNonceOutrunsLag
PROPERTIES
    SerialSpec
    EveryCallAnswered
CHECK_DEADLOCK FALSE
