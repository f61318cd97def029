SPECIFICATION FairSpec
CONSTANTS
    p1 = p1
    p2 = p2
    Patterns <- TwoPatterns
    MaxCalls = 5
    MaxHasty = 4
    Faults <- ConnectionFaults
    MaxLoss = 1
CHECK_DEADLOCK FALSE
INVARIANTS
    TypeOK
    PausedAcceptsNothing
    BoundIsListed
PROPERTIES
    CallsSettle
