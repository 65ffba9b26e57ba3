CONSTANTS
    r1 = r1
    r2 = r2
    w1 = w1
    None = None
    Callers = {r1, r2, w1}
    Reads = {r1, r2}
    Writes = {w1}
    ReadAttempts = 3
SPECIFICATION FairSpec
INVARIANTS TypeOK OneExchange WriteAtMostOnce SuccessIsFinal GivesUpAfterAllAttempts
PROPERTIES CallsReturn ServiceSpec
CHECK_DEADLOCK FALSE
