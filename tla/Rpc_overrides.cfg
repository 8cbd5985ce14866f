SPECIFICATION FairSpec
CONSTANTS
    MaxOverrides = 2
    Calls = {c1, c2}
    MaxCalls = 2
    MaxUses = 3
    MaxRetries = 1
    Global = all
    None = none
    query = query
    Methods <- MCMethods
    Decoding <- MCDecoding
    Overrides <- MCOverrides
INVARIANTS TypeOK SignalPerUse UsedInOrder
PROPERTY CallsEnd
CHECK_DEADLOCK FALSE
