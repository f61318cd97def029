SPECIFICATION FairSpec
CONSTANTS
    c1 = c1
    c2 = c2
    NoTag = NoTag
    Calls <- OneCall
    Faults <- LossOnly
    MaxLoss = 1
    BadPayload <- NoCall
    BadReply <- NoCall
CHECK_DEADLOCK FALSE
PROPERTIES
    EveryCallSettles
