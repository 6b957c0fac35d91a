SPECIFICATION Spec
CONSTANTS
    P1 = P1 P2 = P2 P3 = P3
    A1 = A1 A2 = A2 B1 = B1 B2 = B2 B3 = B3
    Begin = Begin
    Block = {P1, P2, P3, A1, A2, B1, B2, B3}
    Prev <- MCPrev
    Height <- MCHeight
    Loaded = P3
    Time <- MCTime
    Limit = 6
    Recent = 3
    MaxMoves = 6
    MaxAhead = 2
    MaxCrash = 1
    MaxRestart = 1
CHECK_DEADLOCK FALSE
INVARIANTS TypeOK HeightsAreChain BlocksExact TimestampsExact WindowFollowsTip MarksComplete
