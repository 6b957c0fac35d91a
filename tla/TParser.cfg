SPECIFICATION FairSpec
CONSTANTS
    Capacity = 2
    KeepNum = 4
    CleanEvery = 2
    StrayUnlock = FALSE
    MaxRows = 7
    MaxCrash = 1
    MaxStop = 1
CHECK_DEADLOCK FALSE
INVARIANTS TypeOK NeededRowsKept
PROPERTIES RowsFedInOrder CatchesUp StopWithRoomEnds
