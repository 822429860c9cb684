CONSTANTS
    None = None
    r1 = r1
    r2 = r2
    w1 = w1
    Reader <- BothReaders
    Writer <- Writers
    Size = 2
    Modulus = 3
    Setups <- Scenes
SPECIFICATION FairSpec
INVARIANTS
    PipeExact

    
CHECK_DEADLOCK FALSE
