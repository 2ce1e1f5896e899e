SPECIFICATION Spec
CONSTANTS
    None = None
    Brokers = {b1, b2}
    Clients = {c1}
    MaxStarting = 2
    MaxCrashes = 0
CHECK_DEADLOCK FALSE
INVARIANTS
    OneOwner
