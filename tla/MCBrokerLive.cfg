SPECIFICATION FairSpec
CONSTANTS
    None = None
    Procs = {p1, p2}
    Legacy = {p2}
    Names = {a}
    Keys = {k1}
    Schemas = {s1}
    BadSchema = bad
    Kinds = {"PublishChannel", "ListChannels", "Subscribe", "ExposeFunction", "LookupFunction", "Unregister"}
    MaxMsgs = 5
    MaxCalls = 1
    MaxFaults = 1
    ReplyCap = 5
CHECK_DEADLOCK FALSE
INVARIANTS
    GrantStands
PROPERTIES
    EveryReleaseReaped
    EveryCallReturns
