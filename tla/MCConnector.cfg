SPECIFICATION FairSpec
CHECK_DEADLOCK FALSE
CONSTANTS
    None = None
    Users = {u1}
    Watcher = watcher
    a = a
    f = f
    Names = {a, f}
    Functions = {f}
    Contested = {a}
    Owned <- OneChannel
    Me = me
    Other = other
    MaxEpoch = 3
    MaxOps = 1
    MaxClients = 1
    MaxFaults = 1
INVARIANTS
    TypeOK
    ReconnectedIdIsOurs
    NoSlotLeaks
PROPERTIES
    OpsReturn
    HandlesFollow
    SingleFlight
