SPECIFICATION SysSpec
CONSTANTS
    t1 = t1 t2 = t2 t3 = t3 t4 = t4
    A1 = A1 A2 = A2 B1 = B1
    o1 = o1 o2 = o2 o3 = o3
    Begin = Begin
    NoTx = NoTx
    Tx = {t1, t2, t3, t4}
    Block = {A1, A2, B1}
    Outpoint = {o1, o2, o3}
    Vin <- MCVin
    Vout <- MCVout
    Vtx <- MCVtx
    Prev <- MCPrev
    Height <- MCHeight
    MaxLines = 3
    MaxCrash = 0
    MaxDrop = 1
    MaxRepeat = 0
    Lockstep = FALSE
CHECK_DEADLOCK FALSE
INVARIANT BatchIsAtomic
