SPECIFICATION Spec
CONSTANTS
    None = None
    Procs = {p1, p2}
    Legacy = {}
    Names = {a, b}
    Keys = {}
    Schemas = {s1}
    BadSchema = bad
    Kinds = {"PublishChannel"}
    MaxMsgs = 6
    MaxCalls = 1
    MaxFaults = 1
    ReplyCap = 4
CHECK_DEADLOCK FALSE
INVARIANTS
    DeadOwnersNamesReclaimable
