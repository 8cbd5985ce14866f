SPECIFICATION Spec
CONSTANTS
    Requests = {r1, r2}
    External = external
    NoRequest = none
    Unset = unset
    QueueCapacity = 1
    Budget <- OneLoss
INVARIANTS
    MinedOnce
CHECK_DEADLOCK FALSE
