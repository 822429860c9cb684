SPECIFICATION AllSpec
CONSTANTS
    p1 = p1
    p2 = p2
    p3 = p3
    t1 = t1
    t2 = t2
    None = None
    Proc <- Contenders
INVARIANTS
    Exclusion
PROPERTIES
    ReadersYield
    WriterGetsIn
    Refinement
    
    
CHECK_DEADLOCK FALSE
