------------------------------ MODULE Bitcoind ------------------------------
(***************************************************************************)
(* The patched bitcoind, and log1producer as far as log2producer can tell: *)
(* the node keeps a chain and a memory pool and writes a line whenever one *)
(* of them changes; log1producer copies the lines, and after a restart of  *)
(* the node writes a "clear" line and walks its chain to the node's.       *)
(*                                                                         *)
(* The order of lines is the order in which the node writes them under its *)
(* global lock: removals caused by a block come before the line of that    *)
(* block, the transactions of a connected block are removed silently, and  *)
(* those of a disconnected block come back silently.                       *)
(***************************************************************************)
EXTENDS TxGraph

CONSTANT MaxLines \* bound: lines ever written to log1

VARIABLES
    log1,         \* the lines of log1
    nodeTip,      \* chainActive.Tip()
    nodePool,     \* the memory pool of the node
    forgot        \* history: the node did not take back every transaction of
                  \* a block that it undid

nodeVars == <<nodeTip, nodePool, forgot>>

NodeInit ==
    /\ log1 = <<>>
    /\ nodeTip = Begin
    /\ nodePool = {}
    /\ forgot = FALSE

NodeTypeOK ==
    /\ nodeTip \in Block \cup {Begin}
    /\ nodePool \subseteq Tx
    /\ forgot \in BOOLEAN

LineOf(type, x) == [type |-> type, item |-> x]
RemoveLines(q) == [i \in 1..Len(q) |-> LineOf("remove", q[i])]
BlockLines(q) == [i \in 1..Len(q) |-> LineOf("block", q[i])]

Emit(lines) ==
    /\ Len(log1) + Len(lines) <= MaxLines
    /\ log1' = log1 \o lines

\* The members of the pool that are in S or depend on it (CalculateDescendants).
PoolDescendants(S) ==
    {t \in nodePool : \A D \in SUBSET nodePool :
        ((S \cap nodePool) \subseteq D /\ \A u \in nodePool :
            (Parents(u) \cap (D \cup S) # {} => u \in D)) => t \in D}

\* Any order: the node iterates over a set.
Orders(S) == {q \in [1..Cardinality(S) -> S] : \A t \in S : \E i \in 1..Cardinality(S) : q[i] = t}

\* t is valid on top of a chain and a pool: its parents are there, and nothing
\* there conflicts with it.
ValidOn(t, confirmed, pool) ==
    /\ t \notin confirmed \cup pool
    /\ Parents(t) \subseteq confirmed \cup pool
    /\ Conflicts(t) \cap (confirmed \cup pool) = {}

\* A block extends the tip if its transactions are valid one after the other.
ValidBlock(b) ==
    /\ Prev[b] = nodeTip
    /\ \A i \in 1..Len(Vtx[b]) :
          ValidOn(Vtx[b][i], ChainTxs(nodeTip), {Vtx[b][j] : j \in 1..(i - 1)})

\* addUnchecked(): a transaction enters the pool.
NodeAcceptTx(t) ==
    /\ ValidOn(t, ChainTxs(nodeTip), nodePool)
    /\ Emit(<<LineOf("accept", t)>>)
    /\ nodePool' = nodePool \cup {t}
    /\ UNCHANGED <<nodeTip, forgot>>

\* Expiry and size limiting: a transaction leaves with its descendants.
NodeRemoveTx(t) ==
    /\ t \in nodePool
    /\ \E q \in Orders(PoolDescendants({t})) : Emit(RemoveLines(q))
    /\ nodePool' = nodePool \ PoolDescendants({t})
    /\ UNCHANGED <<nodeTip, forgot>>

\* ConnectTip(): conflicting transactions leave with a line, those of the block
\* without one, then UpdateTip() writes the block.
NodeConnect(b) ==
    /\ ValidBlock(b)
    /\ LET out == PoolDescendants(UNION {Conflicts(t) : t \in BlockTxs(b)}) IN
       /\ \E q \in Orders(out) : Emit(RemoveLines(q) \o <<LineOf("block", b)>>)
       /\ nodePool' = nodePool \ (out \cup BlockTxs(b))
    /\ nodeTip' = b
    /\ UNCHANGED forgot

\* DisconnectTip(): the transactions of the block re-enter the pool without a
\* line, except those that are no longer accepted, whose descendants leave with
\* one; then UpdateTip() writes the block below.
NodeDisconnect ==
    /\ nodeTip # Begin
    /\ \E back \in SUBSET BlockTxs(nodeTip) :
          LET lost == BlockTxs(nodeTip) \ back
              out == PoolDescendants(lost) IN
          /\ forgot' = (forgot \/ lost # {})
          /\ \A t \in back : Parents(t) \cap lost = {}
          /\ \E q \in Orders(out) :
                Emit(RemoveLines(q) \o <<LineOf("block", Prev[nodeTip])>>)
          /\ nodePool' = (nodePool \ out) \cup back
    /\ nodeTip' = Prev[nodeTip]

\* The node restarts with an empty pool, possibly on another branch.
\* log1producer writes "clear" and then the way from its tip to the node's.
NodeRestart(b) ==
    /\ forgot' = (forgot \/ CommonLen(Chain[nodeTip], Chain[b]) < Len(Chain[nodeTip]))
    /\ Emit(<<LineOf("clear", NoTx)>> \o BlockLines(Way(nodeTip, b)))
    /\ nodePool' = {}
    /\ nodeTip' = b

NodeNext ==
    \/ \E t \in Tx : NodeAcceptTx(t) \/ NodeRemoveTx(t)
    \/ \E b \in Block : NodeConnect(b)
    \/ NodeDisconnect
    \/ \E b \in Block \cup {Begin} : NodeRestart(b)
=============================================================================
