SPECIFICATION FairSpec
CONSTANTS
    r1 = r1
    r2 = r2
    r3 = r3
    a1 = a1
    a2 = a2
    a3 = a3
    a4 = a4
    Requests <- ThreeRequests
    Actions <- FourActions
    KeyOf <- Keys
    TopicOf <- Topics
    Literals <- Words
    Peculiar <- ManyMatched
    Malformed = {a4}
    Scenes <- AllScenes
    MaxLoss = 1
    MaxRuns = 2
CHECK_DEADLOCK FALSE
INVARIANTS
    TypeOK
    ResponseIsFirst
    ReasonArrives
    NothingSilent
    OwnRequestsOnly
PROPERTIES
    Answered
    HandledOnceRegistered
