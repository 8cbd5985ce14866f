SPECIFICATION FairSpec
CONSTANTS
    Senders = {s1, s2}
    Payloads = {p1, p2}
    MaxNonce = 1
    BatchSize = 2
    Budget <- Calls
INVARIANTS
    TypeOK
    NoncesInOrder
PROPERTIES
    LedgerSpec
    Executed
CHECK_DEADLOCK FALSE
