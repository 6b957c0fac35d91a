-------------------------- MODULE MemTxRepository --------------------------
(***************************************************************************)
(* The memory repository of unconfirmed transactions of log2producer.      *)
(*                                                                         *)
(* spentOutputs_ is a map from outputs to the transaction that spends them *)
(* here it is total, NoTx where the map of the code has no entry.          *)
(***************************************************************************)
EXTENDS TxGraph

VARIABLES
    txs,           \* txs_: the hashes in memory
    spentOutputs,  \* spentOutputs_
    unSyncInsert,  \* unSyncTxsInsert_: added since the last syncToDB()
    unSyncDelete   \* unSyncTxsDelete_: removed since the last syncToDB()

memVars == <<txs, spentOutputs, unSyncInsert, unSyncDelete>>

MemTypeOK ==
    /\ txs \subseteq Tx
    /\ spentOutputs \in [Outpoint -> Tx \cup {NoTx}]
    /\ unSyncInsert \subseteq Tx
    /\ unSyncDelete \subseteq Tx

NothingSpent == [o \in Outpoint |-> NoTx]

MemInit ==
    /\ txs = {}
    /\ spentOutputs = NothingSpent
    /\ unSyncInsert = {}
    /\ unSyncDelete = {}

\* The memory is gone with the process.
MemLost ==
    /\ txs' = {}
    /\ spentOutputs' = NothingSpent
    /\ unSyncInsert' = {}
    /\ unSyncDelete' = {}

-----------------------------------------------------------------------------
\* addTx() succeeds iff t is not in memory and none of its inputs is spent there.
IsExist(t) == t \in txs
\* Mutant of CanAdd: the inputs are not looked up.
CanAddUnchecked(t) == ~IsExist(t)
CanAdd(t) == ~IsExist(t) /\ \A o \in Vin[t] : spentOutputs[o] = NoTx

\* spentOutputs_ once the entries of the transactions in S are inserted into s,
\* and once they are erased from s.
Insert(s, S) ==
    [o \in Outpoint |-> IF o \in Inputs(S) THEN CHOOSE t \in S : o \in Vin[t] ELSE s[o]]
\* Mutant of Erase: the entries of a removed transaction stay.
EraseNothing(s, S) == s
Erase(s, S) == [o \in Outpoint |-> IF o \in Inputs(S) THEN NoTx ELSE s[o]]

\* The transactions of S and everything in memory that spends their outputs,
\* directly or through others: the part of the memory pool that getSpentEndTx()
\* can walk into from S.
Spenders(t) == {spentOutputs[o] : o \in Vout[t]} \ {NoTx}
\* Mutant of Descendants: the spenders of S are not followed.
DescendantsSelf(S) == S \cap txs
Descendants(S) ==
    {t \in txs : \A D \in SUBSET txs :
        (S \subseteq D /\ \A u \in D : Spenders(u) \subseteq D) => t \in D}

\* The orders in which a loop around getSpentEndTx() and removeTx() can remove
\* the set S: each removed transaction has no spender left.  The code walks to
\* the first spent output at every level, the model leaves the choice open.
LeafFirst(S) ==
    {q \in [1..Cardinality(S) -> S] :
        /\ \A t \in S : \E i \in 1..Cardinality(S) : q[i] = t
        /\ \A i, j \in 1..Cardinality(S) : i < j => Vout[q[i]] \cap Vin[q[j]] = {}}

\* addTx() of every transaction in S, all of which CanAdd.
AddTxs(S) ==
    /\ txs' = txs \cup S
    /\ spentOutputs' = Insert(spentOutputs, S)
    /\ unSyncInsert' = unSyncInsert \cup S
    /\ UNCHANGED unSyncDelete

\* Mutant of RemoveTxs: the removal is not recorded for syncToDB().
RemoveTxsUnrecorded(S) ==
    /\ txs' = txs \ S
    /\ spentOutputs' = Erase(spentOutputs, S)
    /\ UNCHANGED <<unSyncInsert, unSyncDelete>>

\* removeTx() of every transaction in S, all of which are in memory.
RemoveTxs(S) ==
    /\ txs' = txs \ S
    /\ spentOutputs' = Erase(spentOutputs, S)
    /\ unSyncDelete' = unSyncDelete \cup S
    /\ UNCHANGED unSyncInsert

\* What the addTx() loop of a new block removes to make room for t: the spenders
\* of t's inputs and their descendants (getConflictTx(), one leaf at a time).
ConflictSet(t) == Descendants({spentOutputs[o] : o \in Vin[t]} \ {NoTx})

\* Mutant of ReplaceBy: the conflicting transactions leave txs_ only.
ReplaceByKeepingSpent(t) ==
    LET D == ConflictSet(t) IN
    /\ txs' = (txs \ D) \cup {t}
    /\ spentOutputs' = Insert(spentOutputs, {t})
    /\ unSyncInsert' = unSyncInsert \cup {t}
    /\ unSyncDelete' = unSyncDelete \cup D

\* The removal of ConflictSet(t) followed by addTx(t).
ReplaceBy(t) ==
    LET D == ConflictSet(t) IN
    /\ txs' = (txs \ D) \cup {t}
    /\ spentOutputs' = Insert(Erase(spentOutputs, D), {t})
    /\ unSyncInsert' = unSyncInsert \cup {t}
    /\ unSyncDelete' = unSyncDelete \cup D

-----------------------------------------------------------------------------
\* spentOutputs_ holds exactly the inputs of the transactions in memory: no
\* entry survives its transaction, none is missing, and so no two transactions
\* in memory spend the same output.
SpentExact ==
    \A o \in Outpoint, t \in Tx : spentOutputs[o] = t <=> (t \in txs /\ o \in Vin[t])
=============================================================================
