SPECIFICATION FairSpec
CHECK_DEADLOCK FALSE
CONSTANTS
    None = None
    Users = {u1}
    Watcher = watcher
    a = a
    f = f
    Names = {a}
    Functions = {}
    Contested = {}
    Owned <- OneChannel
    Me = me
    Other = other
    MaxEpoch = 2
    MaxOps = 0
    MaxClients = 1
    MaxFaults = 1
PROPERTIES
    WhollyReattached
