CONSTANTS
    p1 = p1
    p2 = p2
    f1 = f1
    f2 = f2
    b1 = b1
    b2 = b2
    o1 = o1
    o2 = o2
    o3 = o3
    o4 = o4
    None = None
    Thread = {p1, p2}
    File = {f1, f2}
    Block = {b1, b2}
    Page = {o1, o2, o3, o4}
    Scenes <- Reuse
SPECIFICATION Spec
INVARIANT
    AllocatedUncached
CHECK_DEADLOCK FALSE
