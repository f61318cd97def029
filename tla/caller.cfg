SPECIFICATION FairSpec
CONSTANTS
    c1 = c1
    c2 = c2
    NoTag = NoTag
    Calls <- TwoCalls
    Faults <- FaultKinds
    MaxLoss = 2
    BadPayload <- LastCall
    BadReply <- FirstCall
CHECK_DEADLOCK FALSE
INVARIANTS
    TypeOK
    WaitingNeverDeaf
    AnsweredNeverRejected
    NoOrphanBinding
PROPERTIES
    KeepsPromise
    CallSettles
