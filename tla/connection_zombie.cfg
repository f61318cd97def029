SPECIFICATION Spec
CONSTANTS
    Scenarios <- ChannelAndUser
    MaxConn = 2
    MaxChan = 2
CHECK_DEADLOCK FALSE
INVARIANTS
    DisconnectLeavesNothing
