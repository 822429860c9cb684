CONSTANTS
    None = None
    Thread <- Four
    Programs <- SafetyPrograms
SPECIFICATION Spec
INVARIANTS
    ExecAlone
    VforkWaits
    ParentTold
PROPERTIES
    KillSticks
CHECK_DEADLOCK FALSE
