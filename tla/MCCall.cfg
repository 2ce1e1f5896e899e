SPECIFICATION FairSpec
CONSTANTS
    None = None
    Callers = {u1, u2}
    Fps = {v1, v2}
    MyFp = v1
    ArenaCap = 2
    MaxCalls = 1
    MaxMoves = 1
    MaxFaults = 1
CHECK_DEADLOCK FALSE
INVARIANTS
    TypeOK
    AbandonedSlotsFreed
    NoLostUnpark
    CalmCallsAnswered
PROPERTIES
    CallsReturn
