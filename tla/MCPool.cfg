SPECIFICATION FairSpec
CONSTANTS
    Jobs = {j1, j2, j3}
    Held = {}
    Threads = {t1, t2, t3}
    max_workers = 2
    NoThread = NoThread
    NoJob = NoJob
CHECK_DEADLOCK FALSE
INVARIANTS
    TypeOK
    CountsTrue
    HandedOnOnce
    NoLostNotify
PROPERTIES
    EveryRequestServed
