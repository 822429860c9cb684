CONSTANTS
    None = None
    Cpu = {c1, c2}
    Task = {t1, t2}
    Boot = {t1}
SPECIFICATION FairSpec
INVARIANTS
    OneHome
    NoLostWake
    NoStrandedWork
PROPERTIES
    Refinement
    WorkWakesCpu
    KeepsPromise
