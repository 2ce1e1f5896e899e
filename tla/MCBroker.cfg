SPECIFICATION Spec
CONSTANTS
    None = None
    Procs = {p1, p2, p3}
    Legacy = {}
    Names = {a}
    Keys = {}
    Schemas = {s1}
    BadSchema = bad
    Kinds = {"PublishChannel", "ListChannels", "Subscribe", "Unregister"}
    MaxMsgs = 7
    MaxCalls = 1
    MaxFaults = 1
    ReplyCap = 1
CHECK_DEADLOCK FALSE
SYMMETRY Symmetry
INVARIANTS
    TypeOK
    IndexesAgree
    ArenasAccounted
    AnswersReachTheirCaller
    GrantStands
PROPERTIES
    GraceHonoured
