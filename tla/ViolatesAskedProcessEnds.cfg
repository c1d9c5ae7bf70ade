SPECIFICATION FairSpec
CONSTANTS
    MaxStarts = 1
    MaxLimit = 1
    EarlyQuitIsKept = FALSE
PROPERTY AskedProcessEnds
CHECK_DEADLOCK FALSE
