SPECIFICATION Spec
CONSTANTS
    t1 = t1
    t2 = t2
INVARIANTS
    
    DentryExact
    
    
    HandlesOwned
    StreamIntact
    IpcExact
    DevicesExact
CHECK_DEADLOCK FALSE
