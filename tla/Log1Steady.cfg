SPECIFICATION FairSpec
CONSTANTS
    P1 = P1 P2 = P2 P3 = P3
    A1 = A1 A2 = A2 B1 = B1 B2 = B2 B3 = B3
    t1 = t1
    Begin = Begin
    Block = {P1, P2, P3, A1, A2, B1, B2, B3}
    Prev <- MCPrev
    Height <- MCHeight
    Tx = {}
    MaxLog0 = 7
    MaxEpoch = 2
    StartTips = {P3, A1}
    MayLag = FALSE
    ChainLimit = 5
    BatchSize = 1
    Bases = {Begin, P3}
    MaxStart = 5
    MaxCrash = 1
    MaxStop = 1
    CrashPCs = {"clear", "first", "back", "forward", "begin", "watch", "run"}
    StopPCs = {"watch", "run", "batch"}
    QuietInit = TRUE
    MaxUndo = 0
CHECK_DEADLOCK FALSE
INVARIANT Log1Walk
INVARIANT TipMatches
INVARIANT CopiesLog0
PROPERTY CatchesUp
