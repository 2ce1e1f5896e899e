SPECIFICATION Spec
CONSTANTS
    None = None
    Brokers = {b1, b2, b3}
    Clients = {c1, c2}
    MaxStarting = 1
    MaxCrashes = 2
CHECK_DEADLOCK FALSE
SYMMETRY Symmetry
INVARIANTS
    TypeOK
    OneOwner
    AttachReadsItsBroker
    RepliesReachable
    NoLeftovers
