SPECIFICATION FairSpec
CONSTANTS
    Capacity = 2
    KeepNum = 4
    CleanEvery = 2
    StrayUnlock = FALSE
    MaxRows = 4
    MaxCrash = 0
    MaxStop = 1
CHECK_DEADLOCK FALSE

PROPERTY StopEnds
