CONSTANTS
    None = None
    Thread <- Four
    Programs <- WaitingProgram
SPECIFICATION FairSpec
PROPERTIES
    ExecEnds
CHECK_DEADLOCK FALSE
