SPECIFICATION Spec
CONSTANTS
    P1 = P1 P2 = P2 P3 = P3
    A1 = A1 A2 = A2 B1 = B1 B2 = B2 B3 = B3
    t1 = t1
    Begin = Begin
    Block = {P1, P2, P3, A1, A2, B1, B2, B3}
    Prev <- MCPrev
    Height <- MCHeight
    Tx = {t1}
    MaxLog0 = 6
    MaxEpoch = 1
    StartTips = {A2}
    MayLag = FALSE
    ChainLimit = 5
    BatchSize = 1
    Bases = {P3}
    MaxStart = 2
    MaxCrash = 0
    MaxStop = 0
    CrashPCs = {"clear", "first", "back", "forward", "begin", "watch", "run"}
    StopPCs = {"watch", "run", "batch"}
    QuietInit = TRUE
    MaxUndo = 2
CHECK_DEADLOCK FALSE
INVARIANT Log1Walk
