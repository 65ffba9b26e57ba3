CONSTANTS
    OutputCount = 4
    IdleWindow = 3
    Timeout = 6
SPECIFICATION Spec
INVARIANTS WholeTableOrError
CHECK_DEADLOCK FALSE
