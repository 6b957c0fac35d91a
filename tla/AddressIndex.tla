---------------------------- MODULE AddressIndex ----------------------------
(***************************************************************************)
(* What the consumer thread of tparser does with a row: acceptTx(),        *)
(* confirmTx(), unconfirmTx() and rejectTx() on the keys of transactions   *)
(* and addresses in RocksDB.                                               *)
(*                                                                         *)
(* A row is many writes.  Every handler is a list of phases (Program); a   *)
(* phase is a loop over the work left in todo, one round is a step, and    *)
(* the order of a loop is fixed but unknown (CHOOSE).  The changes to an   *)
(* address are made in the process-wide cache of _getAddressInfo() and     *)
(* written to the 20_ key by flushAddressInfo() near the end.  The id of   *)
(* the row is saved last, so a row that a crash interrupted is applied     *)
(* again from its beginning.  The exchange of two nodes of a list is four  *)
(* writes, each a step of its own, since a row that is applied again reads *)
(* what the others left.                                                   *)
(*                                                                         *)
(* The rows are those of TxLedger, from parents that are present.          *)
(* Abstractions: the contents of scripts and of the 01_ object beyond      *)
(* height and double-spend flag, the size counter next to the count of     *)
(* unconfirmed transactions, and block times are left out.                 *)
(***************************************************************************)
EXTENDS TxGraph, SetSums

CONSTANTS
    Address,
    PayTo,        \* PayTo[o]: the addresses of output o (several: multisig)
    Value,        \* Value[o]: nValue
    CoinbaseOut,  \* CoinbaseOut[b]: the outputs of the coinbase of b
    OldOut,       \* unspent outputs in the store when the rows begin
    EvictDirty,   \* the cache may drop addresses with changes not yet flushed
    MaxRows,      \* bound: rows
    MaxCrash,     \* bound: crashes
    MaxEvict      \* bound: cleanings of the cache

ASSUME AddressAssumption ==
    /\ IsFiniteSet(Address) /\ IsFiniteSet(Outpoint)
    /\ PayTo \in [Outpoint -> Seq(Address)]
    /\ Value \in [Outpoint -> Nat]
    /\ CoinbaseOut \in [Block -> SUBSET Outpoint]
    /\ OldOut \subseteq Outpoint
    /\ EvictDirty \in BOOLEAN
    /\ MaxRows \in Nat /\ MaxCrash \in Nat /\ MaxEvict \in Nat

VARIABLES
    state, tip,   \* the ledger of the rows taken so far
    row,          \* the row being applied, or NoRow
    pc,           \* the phase of its handler
    todo,         \* the rounds left in that phase
    store,        \* RocksDB
    cache,        \* _addrTxCache: address -> AddressInfo, for the cached ones
    loaded,       \* the addresses that this row put into the cache
    moving,       \* the exchange of two nodes that is under way
    count,        \* unconfirmedTxsCount_
    torn,         \* history: a crash has interrupted a row that cannot be repeated
    rows, crashes, evicts

Ledger == INSTANCE TxLedger

ledger == <<state, tip>>
bounds == <<rows, crashes, evicts>>
vars == <<ledger, row, pc, todo, store, cache, loaded, moving, count, torn, bounds>>

Item == Tx \cup Block
NoRow == [type |-> "none", tx |-> NoTx]
NoNode == [tx |-> NoTx, height |-> -1]
NoMove == [step |-> 0, place |-> -1, from |-> -1, first |-> NoNode, second |-> NoNode]

\* AddressInfo without lastUseIdx_.
NewInfo == [txCount |-> 0, received |-> 0, sent |-> 0, unconfirmedTxCount |-> 0,
            unconfirmedReceived |-> 0, unconfirmedSent |-> 0, unspentTxCount |-> 0,
            unspentTxIndex |-> -1, lastConfirmedTxIdx |-> -1]

Outs(x) == IF x \in Tx THEN Vout[x] ELSE CoinbaseOut[x]
Ins(x) == IF x \in Tx THEN Vin[x] ELSE {}

\* An output has one creator, and what is spent is old or an output of Tx: the
\* coinbases above the begin block are not spent yet.  A chain has a
\* transaction once.
ASSUME OutputAssumption ==
    /\ \A x \in Item : Outs(x) \cap OldOut = {}
    /\ \A x, y \in Item : x # y => Outs(x) \cap Outs(y) = {}
    /\ \A t \in Tx : Vin[t] \subseteq OldOut \cup UNION {Vout[p] : p \in Tx}
ASSUME ChainAssumption ==
    \A b \in Block : BlockTxs(b) \cap ChainTxs(Prev[b]) = {}

\* The (output, position2) pairs of outputs: one round of the nested loops over
\* outputs and their addresses.
Entries(O) == UNION {{<<o, j>> : j \in 1..Len(PayTo[o])} : o \in O}
AddressOf(e) == PayTo[e[1]][e[2]]

\* getTxAddressBalance(): the addresses of a transaction and their balance_diff.
Affected(x) == {AddressOf(e) : e \in Entries(Ins(x) \cup Outs(x))}
Paid(O, a) == SumOver([e \in Entries(O) |-> Value[e[1]]], {e \in Entries(O) : AddressOf(e) = a})
BalanceDiff(x, a) == Paid(Outs(x), a) - Paid(Ins(x), a)
Received(x, a) == IF BalanceDiff(x, a) > 0 THEN BalanceDiff(x, a) ELSE 0
Sent(x, a) == IF BalanceDiff(x, a) < 0 THEN -BalanceDiff(x, a) ELSE 0

-----------------------------------------------------------------------------
\* The keys of one kind: one of them written or deleted.
With(f, k, v) == [i \in DOMAIN f \cup {k} |-> IF i = k THEN v ELSE f[i]]
Without(f, k) == [i \in DOMAIN f \ {k} |-> f[i]]

(* The cache of address objects. *)

\* _getAddressInfo(): from the cache, else from the 20_ key, else a new one.
GetAddressInfo(a) == IF a \in DOMAIN cache THEN cache[a] ELSE store.addr[a]

\* What a cleaning may drop when a is loaded: the entries created longest ago,
\* so never one that this row has loaded.  Any other may be among the oldest.
Droppable ==
    IF EvictDirty THEN DOMAIN cache \ loaded
    ELSE {b \in DOMAIN cache : cache[b] = store.addr[b]}

\* The cached object of a becomes info; loading a may clean the cache.
Put(a, info) ==
    \E gone \in IF a \in DOMAIN cache \/ evicts = MaxEvict THEN {{}} ELSE SUBSET Droppable :
        /\ cache' = With([b \in DOMAIN cache \ gone |-> cache[b]], a, info)
        /\ loaded' = IF a \in DOMAIN cache THEN loaded ELSE loaded \cup {a}
        /\ evicts' = IF gone = {} THEN evicts ELSE evicts + 1

KeepCache == UNCHANGED <<cache, loaded, evicts>>

-----------------------------------------------------------------------------
(* The phases of the handlers. *)

Program ==
    [accept |-> <<"outputs", "object", "inputs", "spends", "list", "mempool",
                  "flush", "pool", "save">>,
     confirm |-> <<"list", "object", "flush", "pool", "save">>,
     unconfirm |-> <<"list", "object", "flush", "pool", "save">>,
     reject |-> <<"spends", "inputs", "outputs", "object", "list", "flush", "pool", "save">>]

Work(phase, x) ==
    CASE phase = "outputs" -> Entries(Outs(x))
      [] phase = "inputs" -> Entries(Ins(x))
      [] phase \in {"list", "flush"} -> Affected(x)
      [] OTHER -> {x}

\* Go to the first phase from number i on that has something to do.
GotoPhase(r, i) ==
    LET P == Program[r.type]
        k == Min({j \in i..Len(P) : Work(P[j], r.tx) # {}})
    IN  pc' = P[k] /\ todo' = Work(P[k], r.tx)

PhaseNo == CHOOSE i \in 1..Len(Program[row.type]) : Program[row.type][i] = pc

\* Round e of the current phase is done.
Done(e) ==
    /\ IF todo = {e} THEN GotoPhase(row, PhaseNo + 1)
       ELSE pc' = pc /\ todo' = todo \ {e}
    /\ UNCHANGED <<ledger, row, moving, torn, rows, crashes>>

In(phase, types) == pc = phase /\ row.type \in types
Round == CHOOSE e \in todo : TRUE

\* An exception that nobody catches, or a failed assert, ends the process.
Fail ==
    /\ pc' = "aborted"
    /\ UNCHANGED <<ledger, row, todo, store, cache, loaded, moving, count, torn, bounds>>

\* The next row reaches the consumer: the ledger moves here, the store later.
TakeRow(type, x) ==
    /\ row' = [type |-> type, tx |-> x]
    /\ GotoPhase(row', 1)
    /\ loaded' = {}
    /\ rows' = rows + 1
    /\ UNCHANGED <<store, cache, moving, count, torn, crashes, evicts>>

CanTake == pc = "idle" /\ rows < MaxRows

TakeTx(t) ==
    /\ CanTake
    /\ \/ /\ Ledger!AcceptTx(t) /\ \A p \in Parents(t) : Ledger!Present(p)
          /\ TakeRow("accept", t)
       \/ Ledger!ConfirmTx(t) /\ TakeRow("confirm", t)
       \/ Ledger!UnconfirmTx(t) /\ TakeRow("unconfirm", t)
       \/ Ledger!RejectTx(t) /\ TakeRow("reject", t)

TakeCoinbase(b) ==
    /\ CanTake
    /\ \/ Ledger!AcceptCoinbase(b) /\ TakeRow("accept", b)
       \/ Ledger!ConfirmBlock(b) /\ TakeRow("confirm", b)
       \/ Ledger!UnconfirmCoinbase(b) /\ TakeRow("unconfirm", b)
       \/ Ledger!RejectBlock(b) /\ TakeRow("reject", b)

-----------------------------------------------------------------------------
(* Unspent outputs: 23_{address}_{index} and 24_{address}_{tx}_{position}. *)

\* Mutant of InsertAddressUnspent: the index of an address stays where it is.
InsertAddressUnspentSameIndex(e) ==
    LET a == AddressOf(e)
        info == [GetAddressInfo(a) EXCEPT !.unspentTxCount = @ + 1]
        n == info.unspentTxIndex + 1
    IN  /\ store' = [store EXCEPT !.unspentIdx[a][e[1]] = n,
                                  !.unspent[a] = With(@, n, e[1])]
        /\ Put(a, info)

\* Mutant of InsertAddressUnspent: the index is read before it is advanced.
InsertAddressUnspentLate(e) ==
    LET a == AddressOf(e)
        old == GetAddressInfo(a)
        n == old.unspentTxIndex
    IN  /\ store' = [store EXCEPT !.unspentIdx[a][e[1]] = n,
                                  !.unspent[a] = With(@, n, e[1])]
        /\ Put(a, [old EXCEPT !.unspentTxIndex = @ + 1, !.unspentTxCount = @ + 1])

\* _acceptTx_insertAddressUnspent()
InsertAddressUnspent(e) ==
    LET a == AddressOf(e)
        info == [GetAddressInfo(a) EXCEPT !.unspentTxIndex = @ + 1, !.unspentTxCount = @ + 1]
        n == info.unspentTxIndex
    IN  /\ store' = [store EXCEPT !.unspentIdx[a][e[1]] = n,
                                  !.unspent[a] = With(@, n, e[1])]
        /\ Put(a, info)

HasUnspent(e) == store.unspentIdx[AddressOf(e)][e[1]] # -1

\* The two deletions of the node and of its index; kvdb.get() has thrown unless
\* the index is there.
DeleteUnspent(e) ==
    LET a == AddressOf(e) IN
    store' = [store EXCEPT !.unspent[a] = Without(@, store.unspentIdx[a][e[1]]),
                           !.unspentIdx[a][e[1]] = -1]

\* acceptTx(): the outputs of the new transaction ...
AcceptOutput ==
    /\ In("outputs", {"accept"})
    /\ InsertAddressUnspent(Round) /\ Done(Round) /\ UNCHANGED count

\* ... and the ones it spends (_acceptTx_removeUnspentOutputs).
AcceptInput ==
    /\ In("inputs", {"accept"}) /\ HasUnspent(Round)
    /\ DeleteUnspent(Round)
    /\ Put(AddressOf(Round), [GetAddressInfo(AddressOf(Round)) EXCEPT !.unspentTxCount = @ - 1])
    /\ Done(Round) /\ UNCHANGED count

\* rejectTx(): the outputs it spent are unspent again ...
RejectInput ==
    /\ In("inputs", {"reject"})
    /\ InsertAddressUnspent(Round) /\ Done(Round) /\ UNCHANGED count

\* ... and its own disappear.  The counter of the address is not touched.
RejectOutput ==
    /\ In("outputs", {"reject"}) /\ HasUnspent(Round)
    /\ DeleteUnspent(Round) /\ KeepCache
    /\ Done(Round) /\ UNCHANGED count

\* kvdb.get() of the 24_ key throws.
UnspentMissing ==
    /\ In("inputs", {"accept"}) \/ In("outputs", {"reject"})
    /\ ~HasUnspent(Round)
    /\ Fail

-----------------------------------------------------------------------------
(* The 01_, 02_ and 03_ keys and the counter. *)

\* _acceptTx_insertSpendTxs(), and the deletions of rejectTx(), as one step: no
\* handler reads a 02_ key.
SetSpends ==
    /\ In("spends", {"accept", "reject"})
    /\ store' = [store EXCEPT !.spentBy =
            [o \in Outpoint |-> IF o \notin Ins(row.tx) THEN @[o]
                                ELSE IF row.type = "accept" THEN row.tx ELSE NoTx]]
    /\ KeepCache /\ Done(row.tx) /\ UNCHANGED count

\* The 01_ object: written by acceptTx(), changed in place by the others, which
\* go on with the 03_ key.
SetObject ==
    /\ pc = "object"
    /\ LET x == row.tx IN
       store' = CASE row.type = "accept" ->
                        [store EXCEPT !.tx[x] = [height |-> -1, doubleSpend |-> FALSE]]
                  [] row.type = "confirm" ->
                        [store EXCEPT !.tx[x].height = Height[tip], !.unconfirmed = @ \ {x}]
                  [] row.type = "unconfirm" ->
                        [store EXCEPT !.tx[x].height = -1, !.unconfirmed = @ \cup {x}]
                  [] row.type = "reject" ->
                        [store EXCEPT !.tx[x].doubleSpend = TRUE, !.unconfirmed = @ \ {x}]
    /\ KeepCache /\ Done(row.tx) /\ UNCHANGED count

\* acceptTx() writes the 03_ key after the address lists.
SetUnconfirmed ==
    /\ pc = "mempool"
    /\ store' = [store EXCEPT !.unconfirmed = @ \cup {row.tx}]
    /\ KeepCache /\ Done(row.tx) /\ UNCHANGED count

\* addUnconfirmedTxPool(), removeUnconfirmedTxPool()
CountUnconfirmed ==
    /\ pc = "pool"
    /\ count' = IF row.type \in {"accept", "unconfirm"} THEN count + 1 ELSE count - 1
    /\ store' = [store EXCEPT !.pool = count']
    /\ KeepCache /\ Done(row.tx)

-----------------------------------------------------------------------------
(* The list of an address: 21_{address}_{index} and 22_{address}_{tx}. *)

\* _accpetTx_insertAddressTxs(): behind the last transaction of the address.
AcceptList ==
    /\ In("list", {"accept"})
    /\ LET a == Round
           x == row.tx
           info == GetAddressInfo(a)
       IN  /\ store' = [store EXCEPT
                  !.list[a] = With(@, info.txCount, [tx |-> x, height |-> -1]),
                  !.idx[a][x] = info.txCount]
           /\ Put(a, [info EXCEPT !.received = @ + Received(x, a), !.sent = @ + Sent(x, a),
                  !.unconfirmedReceived = @ + Received(x, a),
                  !.unconfirmedSent = @ + Sent(x, a),
                  !.unconfirmedTxCount = @ + 1, !.txCount = @ + 1])
    /\ Done(Round) /\ UNCHANGED count

\* _getAddressTxNode() finds the node of the row, and the place it has to go to
\* exists.
NodeFound(a, place) ==
    /\ store.idx[a][row.tx] \in DOMAIN store.list[a]
    /\ place \in DOMAIN store.list[a]

\* confirmTx() wants the node next to the last confirmed one, rejectTx() at the
\* end of the list.
ConfirmPlace(a) == GetAddressInfo(a).lastConfirmedTxIdx + 1

\* Mutant of RejectPlace: one behind the end.
RejectPlaceBehind(a) == GetAddressInfo(a).txCount

RejectPlace(a) == GetAddressInfo(a).txCount - 1

Place(a) == IF row.type = "confirm" THEN ConfirmPlace(a) ELSE RejectPlace(a)

\* Where both handlers stand before the node of the row: no exchange is under
\* way.  AtPlace ends their loops.
AtNode(types) ==
    /\ In("list", types) /\ moving = NoMove
    /\ NodeFound(Round, Place(Round))
AtPlace == store.idx[Round][row.tx] = Place(Round)

\* _rejectAddressTxs() asserts that there is another node.
CanMove == row.type = "reject" => GetAddressInfo(Round).txCount >= 2

\* _switchTxNode(): both nodes are read, then four keys are written.
Switching(st) ==
    /\ store' = st
    /\ UNCHANGED <<ledger, row, pc, todo, cache, loaded, count, torn, bounds>>

SwitchFirstNode ==
    /\ AtNode({"confirm", "reject"}) /\ ~AtPlace /\ CanMove
    /\ LET L == store.list[Round]
           n == Place(Round)
           m == store.idx[Round][row.tx]
       IN  /\ moving' = [step |-> 1, place |-> n, from |-> m, first |-> L[n], second |-> L[m]]
           /\ Switching([store EXCEPT !.list[Round][n] = L[m]])

SwitchSecondNode ==
    /\ moving.step = 1
    /\ moving' = [moving EXCEPT !.step = 2]
    /\ Switching([store EXCEPT !.list[Round][moving.from] = moving.first])

\* Mutant of SwitchFirstIndex: the index of the displaced transaction stays.
SwitchFirstIndexNot ==
    /\ moving.step = 2
    /\ moving' = [moving EXCEPT !.step = 3]
    /\ Switching(store)

SwitchFirstIndex ==
    /\ moving.step = 2
    /\ moving' = [moving EXCEPT !.step = 3]
    /\ Switching([store EXCEPT !.idx[Round][moving.first.tx] = moving.from])

\* The loop looks up the node of the row again.
SwitchSecondIndex ==
    /\ moving.step = 3
    /\ moving' = NoMove
    /\ Switching([store EXCEPT !.idx[Round][moving.second.tx] = moving.place])

SwitchTxNode == SwitchFirstNode \/ SwitchSecondNode \/ SwitchFirstIndex \/ SwitchSecondIndex

\* The transaction of the node that the index of the row points to: the totals
\* change by the balance_diff of the node.
NodeTx(a) == store.list[a][store.idx[a][row.tx]].tx

\* Mutant of ConfirmList: the node is confirmed where it is.
ConfirmListInPlace ==
    /\ AtNode({"confirm"})
    /\ LET a == Round
           n == store.idx[a][row.tx]
       IN  /\ store' = [store EXCEPT !.list[a][n].height = Height[tip]]
           /\ Put(a, [GetAddressInfo(a) EXCEPT
                  !.unconfirmedReceived = @ - Received(NodeTx(a), a),
                  !.unconfirmedSent = @ - Sent(NodeTx(a), a),
                  !.unconfirmedTxCount = @ - 1, !.lastConfirmedTxIdx = n])
    /\ Done(Round) /\ UNCHANGED count

\* confirmTx(): _confirmAddressTxNode() on the node that is in its place.
ConfirmList ==
    /\ AtNode({"confirm"}) /\ AtPlace
    /\ LET a == Round
           n == store.idx[a][row.tx]
       IN  /\ store' = [store EXCEPT !.list[a][n].height = Height[tip]]
           /\ Put(a, [GetAddressInfo(a) EXCEPT
                  !.unconfirmedReceived = @ - Received(NodeTx(a), a),
                  !.unconfirmedSent = @ - Sent(NodeTx(a), a),
                  !.unconfirmedTxCount = @ - 1, !.lastConfirmedTxIdx = n])
    /\ Done(Round) /\ UNCHANGED count

\* unconfirmTx(): _unconfirmAddressTxNode() asserts that the node is the last
\* confirmed one.
UnconfirmOK(a) ==
    /\ store.idx[a][row.tx] \in DOMAIN store.list[a]
    /\ GetAddressInfo(a).lastConfirmedTxIdx >= 0
    /\ store.idx[a][row.tx] = GetAddressInfo(a).lastConfirmedTxIdx

UnconfirmList ==
    /\ In("list", {"unconfirm"}) /\ UnconfirmOK(Round)
    /\ LET a == Round IN
           /\ store' = [store EXCEPT !.list[a][store.idx[a][row.tx]].height = -1]
           /\ Put(a, [GetAddressInfo(a) EXCEPT
                  !.unconfirmedReceived = @ + Received(NodeTx(a), a),
                  !.unconfirmedSent = @ + Sent(NodeTx(a), a),
                  !.unconfirmedTxCount = @ + 1, !.lastConfirmedTxIdx = @ - 1])
    /\ Done(Round) /\ UNCHANGED count

\* Mutant of RemoveAddressTxNode: the unconfirmed totals are not taken back.
RemoveAddressTxNodeHalf(info, x, a) ==
    [info EXCEPT !.txCount = @ - 1, !.received = @ - Received(x, a),
                 !.sent = @ - Sent(x, a), !.unconfirmedTxCount = @ - 1]

RemoveAddressTxNode(info, x, a) ==
    [info EXCEPT !.txCount = @ - 1, !.received = @ - Received(x, a),
                 !.sent = @ - Sent(x, a),
                 !.unconfirmedReceived = @ - Received(x, a),
                 !.unconfirmedSent = @ - Sent(x, a), !.unconfirmedTxCount = @ - 1]

\* rejectTx(): _removeAddressTxNode() on the last node.  The key of the 22_ entry
\* is formatted from a uint256 object instead of its text, so the entry that is
\* deleted is another one, or none, and the real one stays.
RejectList ==
    /\ AtNode({"reject"}) /\ AtPlace
    /\ LET a == Round IN
           /\ store' = [store EXCEPT !.list[a] = Without(@, RejectPlace(a))]
           /\ Put(a, RemoveAddressTxNode(GetAddressInfo(a), NodeTx(a), a))
    /\ Done(Round) /\ UNCHANGED count

\* A node that is not found, or an assert that fails.
ListFails ==
    /\ moving = NoMove
    /\ \/ In("list", {"confirm", "reject"}) /\ ~NodeFound(Round, Place(Round))
       \/ AtNode({"reject"}) /\ ~AtPlace /\ ~CanMove
       \/ In("list", {"unconfirm"}) /\ ~UnconfirmOK(Round)
    /\ Fail

-----------------------------------------------------------------------------
\* Mutant of FlushAddressInfo: the index of unspent outputs is not written.
FlushAddressInfoPartly ==
    /\ pc = "flush"
    /\ store' = [store EXCEPT !.addr[Round] =
            [GetAddressInfo(Round) EXCEPT !.unspentTxIndex = store.addr[Round].unspentTxIndex]]
    /\ Put(Round, GetAddressInfo(Round))
    /\ Done(Round) /\ UNCHANGED count

\* flushAddressInfo(): one address of the transaction.
FlushAddressInfo ==
    /\ pc = "flush"
    /\ store' = [store EXCEPT !.addr[Round] = GetAddressInfo(Round)]
    /\ Put(Round, GetAddressInfo(Round))
    /\ Done(Round) /\ UNCHANGED count

\* updateLastTxlog2Id(): the row counts as consumed.
SaveId ==
    /\ pc = "save"
    /\ pc' = "idle" /\ row' = NoRow /\ todo' = {} /\ loaded' = {}
    /\ UNCHANGED <<ledger, store, cache, moving, count, torn, bounds>>

\* Between the first two writes of an exchange one node is in both places and the
\* other in none.
HalfMoved == moving.step = 1

\* Where the row can be applied again from the beginning: nothing it has to read
\* is deleted yet, and no counter of it is in the store.  confirmTx() can: it
\* undoes an exchange whose indexes are not written and makes it once more.
Repeatable ==
    LET fresh == todo = Work(pc, row.tx) IN
    \/ pc = "idle"
    \/ row.type = "accept" /\ (pc \in {"outputs", "object"} \/ (pc = "inputs" /\ fresh))
    \/ row.type = "reject" /\ (pc \in {"spends", "inputs"} \/ (pc = "outputs" /\ fresh))
    \/ /\ row.type \in {"confirm", "unconfirm"}
       /\ (pc = "list" /\ ~HalfMoved) \/ pc = "object" \/ (pc = "flush" /\ fresh)

\* The process is killed between two writes: RocksDB keeps them, memory does not.
Crash ==
    /\ crashes < MaxCrash
    /\ pc \notin {"down", "aborted"}
    /\ crashes' = crashes + 1
    /\ torn' = (torn \/ ~Repeatable)
    /\ pc' = "down" /\ todo' = {} /\ cache' = <<>> /\ loaded' = {} /\ count' = 0
    /\ moving' = NoMove
    /\ UNCHANGED <<ledger, row, store, rows, evicts>>

\* init() reads the counter; the row whose id is not saved comes again.
Restart ==
    /\ pc = "down"
    /\ count' = store.pool
    /\ IF row = NoRow THEN pc' = "idle" /\ todo' = {} ELSE GotoPhase(row, 1)
    /\ UNCHANGED <<ledger, row, store, cache, loaded, moving, torn, bounds>>

\* The store after the initial load: only OldOut is unspent.  The transactions
\* that created it are not modelled, so their 21_ nodes and totals are left out.
OldEntries(a) == {o \in OldOut : \E j \in 1..Len(PayTo[o]) : PayTo[o][j] = a}
OldIndex(a) == CHOOSE f \in [OldEntries(a) -> 0..(Cardinality(OldEntries(a)) - 1)] :
                   \A o, p \in OldEntries(a) : o # p => f[o] # f[p]

InitStore ==
    [tx |-> [x \in Item |-> [height |-> -1, doubleSpend |-> FALSE]],
     spentBy |-> [o \in Outpoint |-> NoTx],
     unconfirmed |-> {},
     addr |-> [a \in Address |->
        [NewInfo EXCEPT !.unspentTxCount = Cardinality(OldEntries(a)),
                        !.unspentTxIndex = Cardinality(OldEntries(a)) - 1]],
     list |-> [a \in Address |-> <<>>],
     idx |-> [a \in Address |-> [x \in Item |-> -1]],
     unspent |-> [a \in Address |->
        [n \in 0..(Cardinality(OldEntries(a)) - 1) |->
            CHOOSE o \in OldEntries(a) : OldIndex(a)[o] = n]],
     unspentIdx |-> [a \in Address |-> [o \in Outpoint |->
        IF o \in OldEntries(a) THEN OldIndex(a)[o] ELSE -1]],
     pool |-> 0]

Init ==
    /\ Ledger!LedgerInit
    /\ row = NoRow /\ pc = "idle" /\ todo = {} /\ store = InitStore
    /\ cache = <<>> /\ loaded = {} /\ moving = NoMove /\ count = 0
    /\ torn = FALSE /\ rows = 0 /\ crashes = 0 /\ evicts = 0

Next ==
    \/ \E t \in Tx : TakeTx(t)
    \/ \E b \in Block : TakeCoinbase(b)
    \/ AcceptOutput \/ AcceptInput \/ RejectInput \/ RejectOutput \/ UnspentMissing
    \/ SetSpends \/ SetObject \/ SetUnconfirmed \/ CountUnconfirmed
    \/ AcceptList \/ SwitchTxNode \/ ConfirmList \/ UnconfirmList \/ RejectList \/ ListFails
    \/ FlushAddressInfo \/ SaveId \/ Crash \/ Restart

Spec == Init /\ [][Next]_vars

-----------------------------------------------------------------------------
(* What holds between two rows, unless a crash fell where a row cannot be    *)
(* repeated.                                                                 *)

AtRest == pc = "idle" /\ ~torn

\* The place of a confirmed transaction in the chain: block, then position.
ChainPos(x) ==
    IF x \in Block THEN <<Height[x], 0>>
    ELSE LET b == CHOOSE c \in {Chain[tip][i] : i \in 2..Len(Chain[tip])} : x \in BlockTxs(c)
         IN  <<Height[b], CHOOSE i \in 1..Len(Vtx[b]) : Vtx[b][i] = x>>
Before(p, q) == p[1] < q[1] \/ (p[1] = q[1] /\ p[2] < q[2])

\* The present transactions that concern address a.
History(a) == {x \in Item : Ledger!Present(x) /\ a \in Affected(x)}
Unconfirmed(a) == {x \in History(a) : state[x] = "unconfirmed"}

TypeOK ==
    /\ row \in [type : DOMAIN Program, tx : Item] \cup {NoRow}
    /\ DOMAIN cache \subseteq Address /\ loaded \subseteq DOMAIN cache
    /\ \A a \in Address : DOMAIN store.list[a] \subseteq Nat /\ DOMAIN store.unspent[a] \subseteq Nat
    /\ moving.step \in 0..3 /\ (moving # NoMove => In("list", {"confirm", "reject"}))
    /\ row = NoRow => pc \in {"idle", "down"}

\* The list of an address (21_) holds its present transactions, each once and
\* without a gap, and the index (22_) finds each one.
ListsExact ==
    AtRest => \A a \in Address :
        /\ DOMAIN store.list[a] = 0..(Cardinality(History(a)) - 1)
        /\ \A x \in History(a) : \E n \in DOMAIN store.list[a] :
              store.list[a][n].tx = x /\ store.idx[a][x] = n

\* confirmTx() and unconfirmTx() keep the confirmed transactions of an address
\* in front, up to last_confirmed_tx_index, in the order of the chain and with
\* the height of their block; the 01_ object has the same height.
ConfirmedFirst ==
    AtRest => \A a \in Address : \A n \in DOMAIN store.list[a] :
        LET x == store.list[a][n].tx
            confirmed == n <= store.addr[a].lastConfirmedTxIdx
        IN  /\ confirmed <=> state[x] = "confirmed"
            /\ store.list[a][n].height = (IF confirmed THEN ChainPos(x)[1] ELSE -1)
            /\ store.tx[x].height = store.list[a][n].height
            /\ (confirmed /\ n > 0) => Before(ChainPos(store.list[a][n - 1].tx), ChainPos(x))

\* The totals of an address object are the sums over its transactions, however
\* often these were confirmed, undone, rejected and accepted again; 03_ and its
\* counter are the unconfirmed transactions.
TotalsExact ==
    AtRest =>
      /\ store.unconfirmed = {x \in Item : state[x] = "unconfirmed"}
      /\ store.pool = Cardinality(store.unconfirmed)
      /\ \A a \in Address :
        LET received == [x \in Item |-> Received(x, a)]
            sent == [x \in Item |-> Sent(x, a)]
            info == store.addr[a]
        IN  /\ info.txCount = Cardinality(History(a))
            /\ info.unconfirmedTxCount = Cardinality(Unconfirmed(a))
            /\ info.received = SumOver(received, History(a))
            /\ info.sent = SumOver(sent, History(a))
            /\ info.unconfirmedReceived = SumOver(received, Unconfirmed(a))
            /\ info.unconfirmedSent = SumOver(sent, Unconfirmed(a))

\* The outputs that exist and that no present transaction spends.
UnspentOutputs ==
    (OldOut \cup UNION {Outs(x) : x \in {y \in Item : Ledger!Present(y)}})
        \ UNION {Ins(x) : x \in {y \in Item : Ledger!Present(y)}}

\* The unspent outputs of an address (23_) are exactly those, each in one node
\* that its index (24_) finds, and no node is above unspent_tx_max_index.
\* 02_ names the present spender of every other output.
\* unspent_tx_count is not less than their number: rejectTx() counts the outputs
\* it restores and not the ones it deletes, so the counter can only be too high.
UnspentListed ==
    AtRest =>
      /\ \A o \in Outpoint, x \in Tx :
            store.spentBy[o] = x <=> (Ledger!Present(x) /\ o \in Vin[x])
      /\ \A a \in Address :
        /\ \A o \in Outpoint : store.unspentIdx[a][o] # -1 <=>
              (o \in UnspentOutputs /\ <<o, a>> \in {<<e[1], AddressOf(e)>> : e \in Entries({o})})
        /\ DOMAIN store.unspent[a] = {store.unspentIdx[a][o] : o \in Outpoint} \ {-1}
        /\ \A n \in DOMAIN store.unspent[a] :
              store.unspentIdx[a][store.unspent[a][n]] = n /\ n <= store.addr[a].unspentTxIndex
        /\ store.addr[a].unspentTxCount >= Cardinality(DOMAIN store.unspent[a])

\* The cache of address objects holds nothing that the 20_ keys do not: it may
\* be cleaned, or lost with the process, between two rows.
CacheMatchesStore ==
    AtRest => /\ \A a \in DOMAIN cache : cache[a] = store.addr[a]
              /\ count = store.pool

\* No kvdb.get() of a missing key and no assert stops tparser on the rows that
\* log2producer writes, also when a row is repeated after a crash.  Nor do the
\* loops of confirmTx() and rejectTx() go on for ever: an exchange is one of the
\* node of the row, which the index then finds, so a second one ends the loop.
NeverFails ==
    ~torn => /\ pc # "aborted"
             /\ moving # NoMove => row.tx \in {moving.first.tx, moving.second.tx}
=============================================================================
