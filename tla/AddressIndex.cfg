SPECIFICATION Spec
CONSTANTS
    t1 = t1 t2 = t2 t3 = t3
    A1 = A1 B1 = B1
    o1 = o1 o2 = o2 o3 = o3 o4 = o4 c1 = c1 c2 = c2
    addr1 = addr1 addr2 = addr2
    Begin = Begin
    NoTx = NoTx
    Tx = {t1, t2, t3}
    Block = {A1, B1}
    Outpoint = {o1, o2, o3, o4, c1, c2}
    Address = {addr1, addr2}
    OldOut = {o1}
    Vin <- MCVin
    Vout <- MCVout
    Vtx <- MCVtx
    Prev <- MCPrev
    Height <- MCHeight
    PayTo <- MCPayTo
    Value <- MCValue
    CoinbaseOut <- MCCoinbaseOut
    EvictDirty = FALSE
    MaxRows = 9
    MaxCrash = 1
    MaxEvict = 1
CHECK_DEADLOCK FALSE
INVARIANT TypeOK
INVARIANT ListsExact
INVARIANT ConfirmedFirst
INVARIANT TotalsExact
INVARIANT UnspentListed
INVARIANT CacheMatchesStore
INVARIANT NeverFails
