SPECIFICATION FairSpec
CONSTANTS
    a = a
    b = b
    c = c
    None = none
    Answers <- MCAnswers
    PageSize = 2
    MaxQueryErrors = 1
    MaxRetries = 1
    MaxBlock = 2
    MaxVersions = 3
INVARIANTS TypeOK OneSnapshot DataOfNamedBlock
PROPERTY QueryEnds
CHECK_DEADLOCK FALSE
