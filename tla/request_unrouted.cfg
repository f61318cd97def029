SPECIFICATION FairSpec
CONSTANTS
    r1 = r1
    r2 = r2
    r3 = r3
    a1 = a1
    a2 = a2
    a3 = a3
    a4 = a4
    Requests <- OneRequest
    Actions <- OneAction
    KeyOf <- HashKey
    TopicOf <- ShortTopic
    Literals <- Words
    Peculiar <- NoneMatched
    Malformed = {}
    Scenes <- OneScene
    MaxLoss = 0
    MaxRuns = 1
CHECK_DEADLOCK FALSE
PROPERTY HandledOnceRegistered
