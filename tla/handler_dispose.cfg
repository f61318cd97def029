SPECIFICATION Spec
CONSTANTS
    p1 = p1
    p2 = p2
    Patterns <- TwoPatterns
    MaxCalls = 4
    MaxHasty = 0
    Faults <- NoFaults
    MaxLoss = 0
CHECK_DEADLOCK FALSE
INVARIANTS
    DisposeUnsubscribes
