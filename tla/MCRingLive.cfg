SPECIFICATION LiveSpec
CONSTANTS
    Producers = {p1, p2}
    Cap = 16
    Lens = {12}
    PushModes = {"try", "forever"}
    PopModes = {"try", "forever"}
    SeqMod = 8
    MaxCalls = 2
    MaxCrashes = 0
PROPERTIES
    EveryRecordDelivered
    EveryPushReturns
