------------------------------ MODULE TxGraph ------------------------------
(***************************************************************************)
(* The static data every component of the explorer works on: transactions, *)
(* the outputs they create and spend, and the blocks they are in.          *)
(*                                                                         *)
(* A block stands for itself and for its coinbase transaction: a coinbase  *)
(* is in exactly one block and never in the memory pool, so the rows the   *)
(* code writes for blk.vtx[0] are rows whose "tx" is the block.            *)
(***************************************************************************)
EXTENDS BlockTree, FiniteSets

CONSTANTS
    Tx,        \* the non-coinbase transactions
    Outpoint,  \* transaction outputs (TxOutputKey: hash and index)
    Vin,       \* Vin[t]: the outputs transaction t spends
    Vout,      \* Vout[t]: the outputs transaction t creates
    Vtx,       \* Vtx[b]: the non-coinbase transactions of b, in block order
    NoTx       \* "no transaction": an output nobody in memory spends

ASSUME TxGraphAssumption ==
    /\ IsFiniteSet(Tx)
    /\ NoTx \notin Tx \cup Block
    /\ Tx \cap Block = {}
    /\ Vin \in [Tx -> SUBSET Outpoint]
    /\ Vout \in [Tx -> SUBSET Outpoint]
    /\ Vtx \in [Block -> Seq(Tx)]

\* A consensus rule that every block of a running bitcoind satisfies: no
\* transaction occurs twice in a block or spends an output that another one of
\* the same block spends.
ASSUME BlockAssumption ==
    \A b \in Block : \A i, j \in 1..Len(Vtx[b]) :
        i # j => Vin[Vtx[b][i]] \cap Vin[Vtx[b][j]] = {} /\ Vtx[b][i] # Vtx[b][j]

\* The non-coinbase transactions of block b, and the outputs a set of
\* transactions spends.
BlockTxs(b) == {Vtx[b][i] : i \in 1..Len(Vtx[b])}
Inputs(S) == UNION {Vin[t] : t \in S}

\* p is a transaction whose output c spends.
Parents(c) == {p \in Tx : Vout[p] \cap Vin[c] # {}}
Conflicts(t) == {u \in Tx \ {t} : Vin[u] \cap Vin[t] # {}}

\* The non-coinbase transactions confirmed by the chain up to b.
ChainTxs(b) == UNION {BlockTxs(Chain[b][i]) : i \in 2..Len(Chain[b])}
=============================================================================
