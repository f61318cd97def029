SPECIFICATION FairSpec
CONSTANTS
    derived = derived
    base = base
    list = list
    edit = edit
    r1 = r1
    whole = whole
    part = part
    Checks <- BothChecks
    ByDefault = {part}
    Controllers <- Exports
    Classes <- BothClasses
    Chain <- Inheritance
    Methods <- TwoMethods
    Params <- SomeParams
    Requests <- OneRequest
    Sent <- SomePayloads
    MaxHits = 3
CHECK_DEADLOCK FALSE
INVARIANTS
    TypeOK
    ServesAll
    OnlyModels
PROPERTIES
    ReturnsAnswer
