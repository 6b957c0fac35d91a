SPECIFICATION Spec
CONSTANTS
    P1 = P1 P2 = P2 P3 = P3
    A1 = A1 A2 = A2 B1 = B1 B2 = B2 B3 = B3
    t1 = t1
    Begin = Begin
    Block = {P1, P2, P3, A1, A2, B1, B2, B3}
    Prev <- MCPrev
    Height <- MCHeight
    Tx = {t1}
    MaxLog0 = 4
    MaxEpoch = 2
    StartTips = {A1}
    MayLag = TRUE
    ChainLimit = 5
    BatchSize = 9
    Bases = {P3}
    MaxStart = 3
    MaxCrash = 1
    MaxStop = 1
    CrashPCs = {"status", "batch"}
    StopPCs = {"clear", "back", "forward"}
    QuietInit = FALSE
    MaxUndo = 2
CHECK_DEADLOCK FALSE
INVARIANT TypeOK
INVARIANT RestartsCleanly
