CONSTANTS
    None = None
    t1 = t1
    t2 = t2
    t3 = t3
    k1 = k1
    k2 = k2
    b1 = b1
    b2 = b2
    Thread <- TwoThreads
    Key <- Keys
    Value <- Words
    Bits <- TwoBits
    Queue <- Objects
    Wakes <- One
    MaxCount = 2
    Setups <- Both
SPECIFICATION FairSpec
PROPERTIES
    Refinement
    ChangedWordWakes
CHECK_DEADLOCK FALSE
