SPECIFICATION FairSpec
CONSTANTS
    k1 = k1
    k2 = k2
    NoOne = NoOne
    Connectors <- TwoConnectors
    Values <- SomeValues
    Expiry = 1
    MaxAuto = 2
    Scenes <- AllScenes
CHECK_DEADLOCK FALSE
INVARIANTS
    TypeOK
    BoundAsSaid
    TempQueuesDie
    NoneForgotten
    DeadLettered
PROPERTIES
    JobSettles
