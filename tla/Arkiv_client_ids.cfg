SPECIFICATION Spec
CONSTANTS
    t1 = t1
    t2 = t2
    Tasks = {t1, t2}
    alice = alice
    bob = bob
    Addresses = {alice, bob}
    Chains = {1, 2}
    Batches = {2}
    Configured = 1
    MaxOperations = 2
    MaxCalls = 2
    None = none
INVARIANTS ReturnsOwnIds
CHECK_DEADLOCK FALSE
