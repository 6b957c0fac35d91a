------------------------- MODULE AddressInvariants -------------------------
(***************************************************************************)
(* The inductive invariant of AddressIndex, part by part: control and      *)
(* types, the cache of address objects, the ledger, the lists with their   *)
(* order and totals, the keys, and the unspent outputs.                    *)
(*                                                                         *)
(* A row is many puts, a crash may come between any two, and the row is    *)
(* then applied again from its start.  Every part therefore says two       *)
(* things: what the keys are in the middle of the row, given the rounds    *)
(* that are still to come, and what they would be were the row to begin    *)
(* again, up to the phase from which it cannot be repeated.                *)
(*                                                                         *)
(* The cache is changed phase by phase and written only near the end of a  *)
(* row, a cleaning may drop objects at any load, and a crash loses all of  *)
(* them.  Its part says of every cached object that it is the one in the   *)
(* store, or that the row has changed it and has its flush still to come.  *)
(*                                                                         *)
(* The exchange of two list nodes is four writes.  Its part sees the list  *)
(* with both nodes, the one that the first write has taken away included   *)
(* (ListView), and allows the 22_ index of a confirm row to lag behind the *)
(* exchange that a crash has interrupted (Linked).                         *)
(***************************************************************************)
EXTENDS AddressIndex, BlockTreeProofs

-----------------------------------------------------------------------------
(* The phases of the handlers. *)

\* The rows, the phases of their handlers, and those before the 20_ keys are flushed.
Types == {"accept", "confirm", "unconfirm", "reject"}
Phases == {"outputs", "object", "inputs", "spends", "list", "mempool", "flush", "pool", "save"}
BeforeFlush == {"outputs", "object", "inputs", "spends", "list", "mempool"}

\* The numbers of the phases "list" and "flush" in the program of a row, and the
\* phases from behind the first to the second.
ListNo(t) == IF t \in {"accept", "reject"} THEN 5 ELSE 1
FlushNo(t) == IF t = "accept" THEN 7 ELSE IF t = "reject" THEN 6 ELSE 3
Listed(t) == IF t = "accept" THEN {"mempool", "flush"}
             ELSE IF t = "reject" THEN {"flush"} ELSE {"object", "flush"}

\* The rows of log2.
Rows == [type : DOMAIN Program, tx : Item]

-----------------------------------------------------------------------------
(* Where the handler of a row is. *)

\* Phase p is one of the handler of row r.
PhaseOf(r, p) == \E i \in 1..Len(Program[r.type]) : Program[r.type][i] = p

\* The handler of a row is in a phase of its program, with rounds left.
InPhase == /\ row \in Rows /\ PhaseOf(row, pc)
           /\ todo # {} /\ todo \subseteq Work(pc, row.tx)

\* The handler is in a phase of the row, or there is no row, or none is handled.
Control ==
    /\ row \in Rows \cup {NoRow}
    /\ pc \in Phases \cup {"idle", "down", "aborted"}
    /\ pc \in Phases => InPhase
    /\ pc = "idle" => row = NoRow
    /\ pc = "aborted" => row \in Rows

\* The address a of the row is not flushed yet; its list has the row already.
Unflushed(a) ==
    a \in Affected(row.tx) /\ (pc \in BeforeFlush \/ (pc = "flush" /\ a \in todo))
Recorded(a) ==
    a \in Affected(row.tx) /\ ((pc = "list" /\ a \notin todo) \/ pc \in Listed(row.type))

-----------------------------------------------------------------------------
(* The types of the store and of the cache. *)

\* An address object has its counters.
InfoOK(i) ==
    /\ DOMAIN i = {"txCount", "received", "sent", "unconfirmedTxCount",
                   "unconfirmedReceived", "unconfirmedSent", "unspentTxCount",
                   "unspentTxIndex", "lastConfirmedTxIdx"}
    /\ i.txCount \in Nat /\ i.unspentTxIndex \in Nat \cup {-1}
    /\ i.unspentTxCount \in Int /\ i.unconfirmedTxCount \in Int
    /\ i.lastConfirmedTxIdx \in Int

\* The 20_ to 24_ keys are those of addresses.
StoreOK(st) ==
    /\ DOMAIN st = {"tx", "spentBy", "unconfirmed", "addr", "list", "idx", "unspent",
                    "unspentIdx", "pool"}
    /\ DOMAIN st.addr = Address /\ DOMAIN st.list = Address /\ DOMAIN st.unspent = Address
    /\ \A a \in Address : /\ InfoOK(st.addr[a])
                          /\ DOMAIN st.list[a] \subseteq Nat
                          /\ DOMAIN st.unspent[a] \subseteq Nat

\* What a row of type t has done to the object of an address, from s in the store
\* to c in the cache, always shows.
Changed(t, c, s) ==
    /\ t = "accept" =>
        /\ c.unspentTxIndex >= s.unspentTxIndex /\ c.txCount >= s.txCount
        /\ \/ c.unspentTxIndex > s.unspentTxIndex \/ c.txCount > s.txCount
           \/ c.unspentTxCount < s.unspentTxCount
    /\ t = "confirm" => c.unconfirmedTxCount < s.unconfirmedTxCount
    /\ t = "unconfirm" => c.unconfirmedTxCount > s.unconfirmedTxCount
    /\ t = "reject" =>
        /\ c.unspentTxIndex >= s.unspentTxIndex /\ c.txCount <= s.txCount
        /\ c.unspentTxIndex > s.unspentTxIndex \/ c.txCount < s.txCount

-----------------------------------------------------------------------------
(* The cache of address objects. *)

\* An object in the cache is that of the store, or the row has changed it and
\* will flush it.
Explained(a) ==
    \/ cache[a] = store.addr[a]
    \/ Unflushed(a) /\ Changed(row.type, cache[a], store.addr[a])

\* The cached objects.
CacheTyped == DOMAIN cache \subseteq Address /\ \A a \in DOMAIN cache : InfoOK(cache[a])
CacheExplained == pc \in Phases \cup {"idle"} => \A a \in DOMAIN cache : Explained(a)

\* What the row has loaded it has also changed, so that a cleaning which drops
\* only unchanged objects keeps it.
LoadedKept ==
    /\ loaded \subseteq DOMAIN cache
    /\ pc \in BeforeFlush => \A a \in loaded : Changed(row.type, cache[a], store.addr[a])
RecordedKept ==
    ~EvictDirty /\ pc \in Phases =>
        \A a \in Affected(row.tx) : Recorded(a) =>
            /\ a \in DOMAIN cache
            /\ Unflushed(a) => Changed(row.type, cache[a], store.addr[a])

\* The counter is that of the store; a killed process leaves no memory.
CountSaved == IF pc = "down" THEN DOMAIN cache = {} /\ loaded = {} ELSE count = store.pool

\* The cache, all of it.
CacheInv ==
    /\ Control /\ StoreOK(store) /\ CacheTyped
    /\ CacheExplained /\ LoadedKept /\ RecordedKept /\ CountSaved

-----------------------------------------------------------------------------
(* The exchange of two nodes. *)

\* An exchange is under way in the phase "list" of a row that moves a node.
MoveTyped ==
    /\ DOMAIN moving = {"step", "place", "from", "first", "second"}
    /\ moving.step \in 0..3 /\ (moving.step = 0 => moving = NoMove)
    /\ moving # NoMove => pc = "list" /\ row.type \in {"confirm", "reject"}

-----------------------------------------------------------------------------
(* What a row has still to do. *)

\* In the program of the row, phase p comes behind phase q.
Ahead(q, p) ==
    \E i, j \in 1..Len(Program[row.type]) :
        i < j /\ Program[row.type][i] = q /\ Program[row.type][j] = p

\* All rounds of phase p of the row, and those that are not done.  After a crash
\* the row comes again from its beginning.
Full(p) == IF row = NoRow \/ ~PhaseOf(row, p) THEN {} ELSE Work(p, row.tx)
Rest(p) ==
    IF pc = "down" THEN Full(p)
    ELSE IF pc \notin Phases THEN {}
    ELSE IF pc = p THEN todo
    ELSE IF Ahead(pc, p) THEN Work(p, row.tx) ELSE {}

\* A row that can be repeated, or will be after the next write of an exchange.
Resumable ==
    LET fresh == todo = Work(pc, row.tx) IN
    \/ pc = "idle"
    \/ row.type = "accept" /\ (pc \in {"outputs", "object"} \/ (pc = "inputs" /\ fresh))
    \/ row.type = "reject" /\ (pc \in {"spends", "inputs"} \/ (pc = "outputs" /\ fresh))
    \/ row.type \in {"confirm", "unconfirm"} /\ (pc \in {"list", "object"} \/ (pc = "flush" /\ fresh))

-----------------------------------------------------------------------------
(* What the invariant asks of the cache. *)

\* No change of an address object is lost: a cleaning drops unchanged objects only,
\* or the cache has not yet reached its limit.
Whole == ~EvictDirty \/ evicts = 0
StillWhole == Whole /\ Whole'

-----------------------------------------------------------------------------
(* The chain, and the place of a transaction in it. *)

\* The place of a transaction in the chain up to b.
Pos(b, x) ==
    IF x \in Block THEN <<Height[x], 0>>
    ELSE LET d == CHOOSE c \in On(b) : x \in BlockTxs(c)
         IN  <<Height[d], CHOOSE i \in 1..Len(Vtx[d]) : Vtx[d][i] = x>>

-----------------------------------------------------------------------------
(* The ledger: what holds of the states s of the transactions and the tip b.   *)

\* The states of a transaction, and the transactions that the ledger has.
States == {"absent", "unconfirmed", "confirmed"}
PresentIn(s) == {x \in Item : s[x] # "absent"}

\* The ledger has finitely many transactions.
LedgerTyped(s, b) == s \in [Item -> States] /\ b \in Block \cup {Begin} /\ IsFiniteSet(PresentIn(s))

\* What is confirmed is on the chain, a block before its transactions, and these
\* in the order of the block.
BlocksOnChain(s, b) == \A c \in Block : s[c] = "confirmed" => c \in On(b)
TxsOnChain(s, b) == \A t \in Tx : s[t] = "confirmed" => \E c \in On(b) : t \in BlockTxs(c)
BlockFirst(s, b) ==
    \A c \in On(b) : s[c] # "confirmed" => \A t \in BlockTxs(c) : s[t] # "confirmed"
InBlockOrder(s, b) ==
    \A c \in On(b) : \A i, j \in 1..Len(Vtx[c]) :
        i < j /\ s[Vtx[c][j]] = "confirmed" => s[Vtx[c][i]] = "confirmed"

\* What is present has no conflict and no missing parent.
NoConflicts(s) ==
    \A t, u \in Tx : t # u /\ s[t] # "absent" /\ s[u] # "absent" => Vin[t] \cap Vin[u] = {}
ParentsPresent(s) == \A t, u \in Tx : t \in Parents(u) /\ s[u] # "absent" => s[t] # "absent"

\* The ledger, all of it.
LedgerOK(s, b) ==
    /\ LedgerTyped(s, b)
    /\ BlocksOnChain(s, b) /\ TxsOnChain(s, b) /\ BlockFirst(s, b) /\ InBlockOrder(s, b)
    /\ NoConflicts(s) /\ ParentsPresent(s)

\* Every other confirmed transaction is before x in the chain up to b.
OnTop(s, b, x) == \A c \in Item : s[c] = "confirmed" /\ c # x => Before(Pos(b, c), Pos(b, x))

-----------------------------------------------------------------------------
(* The rows and the ledger. *)

\* The state of the transaction of a row, before and after the row.
StateBefore(type) ==
    IF type = "accept" THEN "absent" ELSE IF type = "unconfirm" THEN "confirmed" ELSE "unconfirmed"
StateAfter(type) ==
    IF type = "reject" THEN "absent" ELSE IF type = "confirm" THEN "confirmed" ELSE "unconfirmed"

\* A row that is being applied: the ledger has it already, and a transaction that
\* is confirmed or unconfirmed is behind all the others.
RowOK(s, b, r) ==
    r # NoRow =>
        /\ s[r.tx] = StateAfter(r.type)
        /\ r.type \in {"confirm", "unconfirm"} => OnTop(s, b, r.tx)
        /\ r.type = "confirm" => Pos(b, r.tx)[1] = Height[b]

\* ... and the row that is being applied.
LedgerInv == LedgerOK(state, tip) /\ RowOK(state, tip, row)

-----------------------------------------------------------------------------
(* The list of one address: nodes L, index ix, T transactions, the last        *)
(* confirmed node k.  It holds the members M in the places 0..T-1, first the   *)
(* confirmed ones C in the order of the chain up to b, and every node but      *)
(* those of X has the height of its transaction.                               *)

NodesOK(L, ix, T, M) ==
    /\ T \in Nat /\ DOMAIN L = 0..(T - 1) /\ M \subseteq Item /\ DOMAIN ix = Item
    /\ \A n \in DOMAIN L : DOMAIN L[n] = {"tx", "height"} /\ L[n].tx \in M /\ ix[L[n].tx] = n
    /\ \A y \in M : ix[y] \in DOMAIN L /\ L[ix[y]].tx = y
OrderOK(L, T, k, C, b) ==
    /\ k \in -1..(T - 1)
    /\ \A n \in DOMAIN L : n <= k <=> L[n].tx \in C
    /\ \A m, n \in DOMAIN L : m < n /\ n <= k => Before(Pos(b, L[m].tx), Pos(b, L[n].tx))
HeightOf(C, b, y) == IF y \in C THEN Pos(b, y)[1] ELSE -1
HeightsOK(L, C, b, X) ==
    \A n \in DOMAIN L : L[n].tx \notin X => L[n].height = HeightOf(C, b, L[n].tx)
ListAt(L, ix, T, k, M, C, b, X) ==
    NodesOK(L, ix, T, M) /\ OrderOK(L, T, k, C, b) /\ HeightsOK(L, C, b, X)

\* The nodes alone: every member has one.  Where they are, and an index that finds
\* them all.
NodesFree(L, T, M) ==
    /\ T \in Nat /\ DOMAIN L = 0..(T - 1) /\ M \subseteq Item
    /\ \A n \in DOMAIN L : DOMAIN L[n] = {"tx", "height"} /\ L[n].tx \in M
    /\ \A m, n \in DOMAIN L : L[m].tx = L[n].tx => m = n
    /\ \A y \in M : \E n \in DOMAIN L : L[n].tx = y
Where(L) == [y \in Item |-> CHOOSE n \in DOMAIN L : L[n].tx = y]
Settled(L, ix) == \A n \in DOMAIN L : ix[L[n].tx] = n

\* What an exchange of places p and m leaves of the index while it is under way:
\* all other nodes are found, x would be found in m, and the two are there in one
\* order or the other.
Near(L, ix, x, p, m) ==
    /\ p \in DOMAIN L /\ m \in DOMAIN L /\ p # m /\ ix[x] = m
    /\ L[p].tx = x \/ L[m].tx = x
    /\ ix[L[p].tx] \in {p, m} /\ ix[L[m].tx] \in {p, m}
    /\ \A i \in DOMAIN L : i \notin {p, m} => ix[L[i].tx] = i

\* p is the first unconfirmed place, and m another one.
Front(L, C, p, m) ==
    L[p].tx \notin C /\ L[m].tx \notin C /\ \A i \in DOMAIN L : i < p => L[i].tx \in C

\* The index finds every node, or lags behind an exchange that a crash has ended.
Linked(L, ix, x, C, lag) ==
    Settled(L, ix) \/ (lag /\ \E p, m : Near(L, ix, x, p, m) /\ Front(L, C, p, m))

-----------------------------------------------------------------------------
(* The totals of an address. *)

\* What the transactions receive and send for an address.
Rcv(a) == [x \in Item |-> Received(x, a)]
Snt(a) == [x \in Item |-> Sent(x, a)]

\* The object i has the totals of the transactions M of a, of which C are confirmed.
TotalsAt(i, a, M, C) ==
    /\ i.unconfirmedTxCount = Cardinality(M \ C)
    /\ i.received = SumOver(Rcv(a), M) /\ i.sent = SumOver(Snt(a), M)
    /\ i.unconfirmedReceived = SumOver(Rcv(a), M \ C)
    /\ i.unconfirmedSent = SumOver(Snt(a), M \ C)

-----------------------------------------------------------------------------
(* The domains of the keys. *)

\* Every transaction, output and address has its entry.
ShapeOK(st) ==
    /\ DOMAIN st.tx = Item /\ \A x \in Item : DOMAIN st.tx[x] = {"height", "doubleSpend"}
    /\ DOMAIN st.spentBy = Outpoint
    /\ DOMAIN st.idx = Address /\ \A a \in Address : DOMAIN st.idx[a] = Item
    /\ DOMAIN st.unspentIdx = Address /\ \A a \in Address : DOMAIN st.unspentIdx[a] = Outpoint

-----------------------------------------------------------------------------
(* The book of an address: its list and its totals, while a row is applied. *)

\* The transactions of a in states s, and the confirmed ones.
HistoryOf(s, a) == {x \in Item : s[x] # "absent" /\ a \in Affected(x)}
ConfirmedOf(s, a) == {x \in Item : s[x] = "confirmed" /\ a \in Affected(x)}

\* What the list of a has while P are the addresses whose list the row r has still
\* to reach: its members, the confirmed ones, and the nodes whose height may be
\* the old or the new one.
MembersAt(s, r, a, P) ==
    IF a \in P /\ r.type = "accept" THEN HistoryOf(s, a) \ {r.tx}
    ELSE IF a \in P /\ r.type = "reject" THEN HistoryOf(s, a) \cup {r.tx}
    ELSE HistoryOf(s, a)
ConfAt(s, r, a, P) ==
    IF a \in P /\ r.type = "confirm" THEN ConfirmedOf(s, a) \ {r.tx}
    ELSE IF a \in P /\ r.type = "unconfirm" THEN ConfirmedOf(s, a) \cup {r.tx}
    ELSE ConfirmedOf(s, a)
ExemptAt(r, a, P) == IF a \in P /\ r.type \in {"confirm", "unconfirm"} THEN {r.tx} ELSE {}

\* List and totals of address a.
BookAt(L, ix, i, a, M, C, b, X) ==
    ListAt(L, ix, i.txCount, i.lastConfirmedTxIdx, M, C, b, X) /\ TotalsAt(i, a, M, C)

\* Seen with the object i, the list L with index ix is the book of address a, states
\* s and tip b.
BookBy(L, ix, s, b, r, i, a, P) ==
    BookAt(L, ix, i, a, MembersAt(s, r, a, P), ConfAt(s, r, a, P), b, ExemptAt(r, a, P))

\* The list of a with both nodes of an exchange, which are apart after its second
\* write.
ListView(a) ==
    IF moving.step = 1 /\ a = Round THEN [store.list[a] EXCEPT ![moving.place] = moving.first]
    ELSE store.list[a]

\* How far the index of a list may be from its nodes while P are the addresses whose
\* list the row r has still to reach.
Links(L, ix, s, r, a, P) ==
    Linked(L, ix, r.tx, ConfAt(s, r, a, P), a \in P /\ r.type = "confirm")

\* The exchange mv on the list L, seen as V.
MoveAt(V, L, ix, r, C, mv) ==
    /\ Near(V, ix, r.tx, mv.place, mv.from)
    /\ V[mv.place].tx \notin C /\ V[mv.from].tx \notin C
    /\ r.type = "confirm" => Front(V, C, mv.place, mv.from)
    /\ mv.step = 1 => /\ V[mv.place] = mv.first /\ V[mv.from] = mv.second
                      /\ L[mv.place] = mv.second
    /\ mv.step # 1 => V[mv.from] = mv.first /\ V[mv.place] = mv.second
    /\ mv.step = 3 => ix[mv.first.tx] = mv.from

\* Whatever is seen of the objects now, and whatever would be seen after a crash
\* that the row survives: every address has its book.  The index of a list finds its
\* nodes but for those of an exchange that is under way or was interrupted.
Seen(a, i, P) == BookBy(ListView(a), Where(ListView(a)), state, tip, row, i, a, P)
BooksNow == \A a \in Address : Seen(a, GetAddressInfo(a), Rest("list"))
BooksAgain == \A a \in Address : Seen(a, store.addr[a], Full("list"))
LinksOK ==
    \A a \in Address : moving = NoMove \/ a # Round =>
        Links(store.list[a], store.idx[a], state, row, a, Rest("list"))
MoveOK ==
    moving # NoMove =>
        MoveAt(ListView(Round), store.list[Round], store.idx[Round], row,
               ConfAt(state, row, Round, Rest("list")), moving)

\* The books, unless a row could not be repeated.
Books ==
    ~torn /\ pc # "aborted" =>
        /\ ShapeOK(store) /\ BooksNow /\ (pc \in Phases /\ Resumable => BooksAgain)
        /\ LinksOK /\ MoveOK
BookInv == MoveTyped /\ Books

-----------------------------------------------------------------------------
(* The 01_, 02_ and 03_ keys and the counter. *)

\* P are the rounds that the row r has still to do: the object of a transaction
\* has the height of its block, ...
TxKeys(st, s, b, r, P) ==
    \A y \in Item : s[y] # "absent" /\ ~(y = r.tx /\ P # {}) =>
        st.tx[y].height = IF s[y] = "confirmed" THEN Pos(b, y)[1] ELSE -1

\* ... the 03_ keys are the unconfirmed transactions, ...
UnconfirmedIn(s) == {y \in Item : s[y] = "unconfirmed"}
PoolPhase(r) == IF r.type = "accept" THEN "mempool" ELSE "object"
PoolKeys(st, s, r, P) ==
    /\ st.unconfirmed \subseteq Item
    /\ \A y \in Item : ~(y = r.tx /\ P # {}) => (y \in st.unconfirmed <=> s[y] = "unconfirmed")

\* ... the counter counts them, ...
PoolCount(st, s, r, P) ==
    st.pool = Cardinality(UnconfirmedIn(s)) -
        (IF P = {} THEN 0 ELSE IF r.type \in {"accept", "unconfirm"} THEN 1 ELSE -1)

\* ... and a 02_ key is there for every output that is spent.
SpendKeys(st, s, r, P) ==
    \A o \in Outpoint : ~(P # {} /\ o \in Ins(r.tx)) =>
        \A x \in Tx : st.spentBy[o] = x <=> (s[x] # "absent" /\ o \in Vin[x])

\* All of them, unless a row could not be repeated.
KeysInv ==
    ~torn /\ pc # "aborted" =>
        /\ TxKeys(store, state, tip, row, Rest("object"))
        /\ PoolKeys(store, state, row, Rest(PoolPhase(row)))
        /\ PoolCount(store, state, row, Rest("pool"))
        /\ SpendKeys(store, state, row, Rest("spends"))

\* The outputs that exist and are not spent.
Created(s) == OldOut \cup UNION {Outs(x) : x \in {y \in Item : s[y] # "absent"}}
SpentIn(s) == UNION {Ins(x) : x \in {y \in Item : s[y] # "absent"}}
UnspentIn(s) == Created(s) \ SpentIn(s)

\* The outputs of the row that is being applied are unspent, or the ones it spent.
SpentOK(s, r) ==
    /\ r.type = "accept" =>
         /\ \A o \in Outs(r.tx) : o \in UnspentIn(s)
         /\ \A o \in Ins(r.tx) : o \notin UnspentIn(s)
    /\ r.type = "reject" =>
         /\ \A o \in Ins(r.tx) : o \in UnspentIn(s)
         /\ \A o \in Outs(r.tx) : o \notin UnspentIn(s)

\* The outputs of the row, in the ledger of its row.
SpentInv == SpentOK(state, row)

-----------------------------------------------------------------------------
(* The unspent outputs of an address. *)

\* The keys K (index to output) and X (output to index) of an address, seen with
\* the index m and the counter c of its object, while the outputs I have still to
\* be inserted and the outputs D to be deleted; U are the unspent ones in the end,
\* and d is the number of deletions that will lower the counter.  A node above m
\* is one that a repeated row has written before; it will be written again.
UnspentAt(K, X, m, I, D, U) ==
    /\ DOMAIN K \subseteq Nat /\ m \in Nat \cup {-1}
    /\ \A o \in Outpoint \ I :
         IF o \in U \cup D THEN X[o] \in DOMAIN K /\ X[o] <= m /\ K[X[o]] = o ELSE X[o] = -1
    /\ \A n \in DOMAIN K : n <= m => K[n] \in Outpoint \ I /\ X[K[n]] = n
    /\ \A n \in DOMAIN K : n <= m + Cardinality(I)
CountedAt(c, I, d, U) == c \in Int /\ c + Cardinality(I) - d >= Cardinality(U)
PendingOK(I, D, U) == I \subseteq U /\ U \subseteq Outpoint /\ D \subseteq Outpoint /\ D \cap U = {}

\* No output names an address twice.  (The code does not see to it: the second of
\* two equal entries would overwrite the 24_ key of the first.)
PaysOnce == \A o \in Outpoint : \A i, j \in 1..Len(PayTo[o]) : PayTo[o][i] = PayTo[o][j] => i = j

\* The outputs that are paid to an address: of a set of entries, of all.
OutsOf(E, a) == {o \in Outpoint : \E e \in E : e[1] = o /\ AddressOf(e) = a}
Pays(o, a) == \E j \in 1..Len(PayTo[o]) : PayTo[o][j] = a
UnspentOf(s, a) == {o \in Outpoint : o \in UnspentIn(s) /\ Pays(o, a)}

\* The phases that insert unspent outputs and that delete them.
Gain(r) == IF r.type = "reject" THEN "inputs" ELSE "outputs"
Loss(r) == IF r.type = "reject" THEN "outputs" ELSE "inputs"

\* The keys and the counter of the unspent outputs of a, seen with object i, while
\* the rounds G insert and the rounds L delete; acceptTx() counts the deletions.
UnspentBy(st, s, i, a, G, L, type) ==
    /\ UnspentAt(st.unspent[a], st.unspentIdx[a], i.unspentTxIndex, OutsOf(G, a), OutsOf(L, a),
                 UnspentOf(s, a))
    /\ CountedAt(i.unspentTxCount, OutsOf(G, a),
                 IF type = "accept" THEN Cardinality(OutsOf(L, a)) ELSE 0, UnspentOf(s, a))

\* Whatever is seen of the objects now, and whatever would be seen after a crash
\* that the row survives.  In the second case the nodes that the row has written
\* so far are above the index of the object in the store, and are written again.
UnspentNow == \A a \in Address :
    UnspentBy(store, state, GetAddressInfo(a), a, Rest(Gain(row)), Rest(Loss(row)), row.type)
UnspentAgain == \A a \in Address :
    /\ UnspentBy(store, state, store.addr[a], a, Full(Gain(row)), Full(Loss(row)), row.type)
    /\ GetAddressInfo(a).unspentTxIndex + Cardinality(OutsOf(Rest(Gain(row)), a)) =
         store.addr[a].unspentTxIndex + Cardinality(OutsOf(Full(Gain(row)), a))

\* The unspent outputs, unless a row could not be repeated.
UnspentInv ==
    ~torn /\ pc # "aborted" => UnspentNow /\ (pc \in Phases /\ Resumable => UnspentAgain)

-----------------------------------------------------------------------------
(* The whole invariant. *)

\* The transaction of an unconfirm row has a place in the chain: it was confirmed.
PlacedInv ==
    row.type = "unconfirm" => Pos(tip, row.tx)[1] \in Nat /\ Pos(tip, row.tx)[2] \in Nat

\* The inductive invariant: the cache, the ledger, the outputs of the row, and, as
\* long as no change of an address is lost, the lists, totals and keys.
IndexInv ==
    /\ evicts \in Nat /\ CacheInv /\ LedgerInv /\ SpentInv
    /\ Whole => BookInv /\ KeysInv

\* With the unspent outputs, and the reasons why nothing is missing.
OutputsInv == IndexInv /\ PlacedInv /\ (Whole => UnspentInv /\ NeverFails)
=============================================================================
