SPECIFICATION Spec
CONSTANTS
    Producers = {p1, p2}
    Cap = 16
    Lens = {3, 6}
    PushModes = {"timed"}
    PopModes = {"timed"}
    SeqMod = 32
    MaxCalls = 3
    MaxCrashes = 1
SYMMETRY Symmetry
INVARIANTS
    TypeOK
    MutualExclusion
    NoOverrun
    IntactFifo
    ResultIsTrue
    NoLostDataWakeup
    NoLostLockWakeup
PROPERTIES
    ImplementsFifo
