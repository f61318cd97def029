SPECIFICATION Spec
CONSTANTS
    p1 = p1
    p2 = p2
    Patterns <- TwoPatterns
    MaxCalls = 4
    MaxHasty = 0
    Faults <- LossOnly
    MaxLoss = 1
CHECK_DEADLOCK FALSE
INVARIANTS
    StartedHears
