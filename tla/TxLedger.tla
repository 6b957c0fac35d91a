------------------------------ MODULE TxLedger ------------------------------
(***************************************************************************)
(* What the rows of 0_txlogs2 promise to their consumer, tparser: applied  *)
(* one by one they are a run of this ledger.  A transaction goes           *)
(* accept -> confirm -> unconfirm -> reject (docs/TXLOGS.md), where        *)
(*  - it is accepted only while nothing it conflicts with is present,      *)
(*  - confirmed only after its parents, unconfirmed only before them,      *)
(*  - rejected only when nothing present spends its outputs,               *)
(* the coinbase rows move the tip along the block tree, and the confirmed  *)
(* transactions are a stack: a block's are confirmed in block order and    *)
(* unconfirmed in the reverse order.                                       *)
(***************************************************************************)
EXTENDS TxGraph

VARIABLES
    state,   \* state[x] of a transaction or a coinbase
    tip      \* the block the confirmed transactions belong to

ledgerVars == <<state, tip>>

Present(t) == state[t] # "absent"
Move(x, s) == state' = [state EXCEPT ![x] = s]

LedgerInit ==
    /\ state = [x \in Tx \cup Block |-> "absent"]
    /\ tip = Begin

AcceptTx(t) ==
    /\ state[t] = "absent"
    /\ \A u \in Conflicts(t) : ~Present(u)
    /\ Move(t, "unconfirmed") /\ UNCHANGED tip

\* Where t stands in the block at the tip; the transactions before and after it.
AtTip(t, i) ==
    tip \in Block /\ state[tip] = "confirmed" /\ i \in 1..Len(Vtx[tip]) /\ Vtx[tip][i] = t
Earlier(i) == {Vtx[tip][j] : j \in 1..(i - 1)}
Later(i) == {Vtx[tip][j] : j \in (i + 1)..Len(Vtx[tip])}

ConfirmTx(t) ==
    /\ state[t] = "unconfirmed"
    /\ \A p \in Parents(t) : state[p] = "confirmed"
    /\ \E i \in 1..Cardinality(Tx) : AtTip(t, i) /\ \A u \in Earlier(i) : state[u] = "confirmed"
    /\ Move(t, "confirmed") /\ UNCHANGED tip

UnconfirmTx(t) ==
    /\ state[t] = "confirmed"
    /\ \A c \in Tx : t \in Parents(c) => state[c] # "confirmed"
    /\ \E i \in 1..Cardinality(Tx) : AtTip(t, i) /\ \A u \in Later(i) : state[u] # "confirmed"
    /\ Move(t, "unconfirmed") /\ UNCHANGED tip

RejectTx(t) ==
    /\ state[t] = "unconfirmed"
    /\ \A c \in Tx : t \in Parents(c) => ~Present(c)
    /\ Move(t, "absent") /\ UNCHANGED tip

\* The coinbase of b: a block is applied on its predecessor, once that one is
\* complete, and taken off the tip.
AcceptCoinbase(b) ==
    /\ state[b] = "absent" /\ tip = Prev[b]
    /\ \A c \in Block : state[c] # "unconfirmed"
    /\ tip \in Block => \A t \in BlockTxs(tip) : state[t] = "confirmed"
    /\ Move(b, "unconfirmed") /\ UNCHANGED tip

ConfirmBlock(b) ==
    /\ state[b] = "unconfirmed" /\ tip = Prev[b]
    /\ Move(b, "confirmed") /\ tip' = b

UnconfirmCoinbase(b) ==
    /\ state[b] = "confirmed" /\ tip = b
    /\ \A t \in BlockTxs(b) : state[t] # "confirmed"
    /\ Move(b, "unconfirmed") /\ UNCHANGED tip

RejectBlock(b) ==
    /\ state[b] = "unconfirmed" /\ tip = b
    /\ Move(b, "absent") /\ tip' = Prev[b]

LedgerNext ==
    \/ \E t \in Tx : AcceptTx(t) \/ ConfirmTx(t) \/ UnconfirmTx(t) \/ RejectTx(t)
    \/ \E b \in Block : \/ AcceptCoinbase(b) \/ ConfirmBlock(b)
                        \/ UnconfirmCoinbase(b) \/ RejectBlock(b)

LedgerSpec == LedgerInit /\ [][LedgerNext]_ledgerVars
=============================================================================
