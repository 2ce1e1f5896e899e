SPECIFICATION TimeoutSpec
CONSTANTS
    Producers = {p1, p2}
    Cap = 16
    Lens = {1}
    PushModes = {"timed"}
    PopModes = {"timed"}
    SeqMod = 8
    MaxCalls = 2
    MaxCrashes = 1
PROPERTIES
    SurvivorsPushReturns
