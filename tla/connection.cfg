SPECIFICATION FairSpec
CONSTANTS
    Scenarios <- AllScenarios
    MaxConn = 3
    MaxChan = 3
CHECK_DEADLOCK FALSE
INVARIANTS
    TypeOK
    OneConnection
    DisconnectCloses
    RejectedForCause
    OneChannelPerKind
PROPERTIES
    ChannelRecovers
    DisconnectEnds
