SPECIFICATION AllSpec
CONSTANTS
    t1 = t1
    t2 = t2
    t3 = t3
    m1 = m1
    m2 = m2
    kernel = kernel
    f1 = f1
    f2 = f2
    None = None
    CPU <- TwoCpus
    Task = {t1, t2, t3}
    Allowed <- Mixed
    Pinned = {t2}
    Weight <- Heavy
    Placements = 3
    Parts <- AllParts
    MemoryUses <- MemoryScenes
INVARIANTS
    Placed
    Layout
    Contents
    TlbExact
    SignalsKept
    TimersKept
    
    MemoryExact
CHECK_DEADLOCK FALSE
