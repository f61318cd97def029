SPECIFICATION FairSpec
CONSTANTS
    c1 = c1
    c2 = c2
    users = users
    orders = orders
    list = list
    Calls <- TwoCalls
    PathOf <- BothPaths
    Routes <- SameName
    Names <- AllNames
    BadResult <- LastCall
    Why <- TwoReasons
    Impatient <- LastCall
    PortTaken = TRUE
    MaxServers = 2
CHECK_DEADLOCK FALSE
INVARIANTS
    TypeOK
    ToldTheTruth
    DisposeDrains
PROPERTIES
    DeadLetterHolds
    OwnKept
    DisposeEnds
