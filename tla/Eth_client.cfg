SPECIFICATION Spec
CONSTANTS
    Calls = {c1, c2, c3, c4}
    MaxFaults = 2
    Other = Other
INVARIANTS
    TypeOK
    NoGapWithoutFaults
PROPERTIES
    FreshWhenAlone
CHECK_DEADLOCK FALSE
