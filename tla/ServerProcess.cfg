SPECIFICATION FairSpec
CONSTANTS
    MaxStarts = 2
    MaxLimit = 3
    EarlyQuitIsKept = TRUE
INVARIANTS
    TypeOK
    OnlyPlainStartsHaveEffects
PROPERTIES
    SuccessMeansStopped
    AskedProcessEnds
CHECK_DEADLOCK FALSE
