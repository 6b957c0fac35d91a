----------------------------- MODULE Log2System -----------------------------
(***************************************************************************)
(* log2producer fed by a node: Bitcoind writes log1, Log2Producer reads    *)
(* it, tparser consumes the rows.                                          *)
(***************************************************************************)
EXTENDS Log2Producer

\* The node waits until log2producer has handled every line.  The node never
\* looks at log2producer and log2producer never reads ahead, so this leaves out
\* orders of independent steps only, and longer histories fit.
CONSTANT Lockstep

\* Consensus rules that every block of a running bitcoind satisfies: its
\* transactions are new to its chain, their parents are on the chain or before
\* them in the block, and nothing there spends the same outputs.  No transaction
\* spends an output of its own, since its hash would have to contain itself.
ASSUME ConsensusAssumption ==
    /\ \A b \in Block : \A i \in 1..Len(Vtx[b]) :
          LET before == ChainTxs(Prev[b]) \cup {Vtx[b][j] : j \in 1..(i - 1)}
          IN  /\ Vtx[b][i] \notin before
              /\ Parents(Vtx[b][i]) \subseteq before
              /\ Conflicts(Vtx[b][i]) \cap before = {}
    /\ \A t \in Tx : t \notin Parents(t)

VARIABLES nodeTip, nodePool, forgot

Node == INSTANCE Bitcoind
Ledger == INSTANCE TxLedger WITH state <- kv, tip <- kvTip

sysVars == <<vars, nodeTip, nodePool, forgot>>

SysInit == Init /\ Node!NodeInit

NodeStep ==
    /\ Node!NodeNext
    /\ Lockstep => (pc = "idle" /\ pos = Len(log1))
    /\ UNCHANGED <<memVars, procVars, dbVars, kvVars, boundVars>>

ProducerStep == ProducerNext /\ UNCHANGED <<nodeTip, nodePool, forgot>>

SysNext == NodeStep \/ ProducerStep

SysSpec == SysInit /\ [][SysNext]_sysVars

\* The supervisor restarts a dead log2producer, and both programs keep taking
\* steps (a failed check is one) while there is work; crashes are bounded by
\* MaxCrash, lost answers by MaxRepeat.
Fairness ==
    /\ WF_sysVars((Handler \/ Statement \/ Failure \/ InitLog2)
                   /\ UNCHANGED <<nodeTip, nodePool, forgot>>)
    /\ WF_sysVars(HandleTxlog /\ UNCHANGED <<nodeTip, nodePool, forgot>>)

FairSysSpec == SysSpec /\ Fairness

-----------------------------------------------------------------------------
SysTypeOK == TypeOK /\ Node!NodeTypeOK

\* Whatever the node does and wherever log2producer crashes, the rows tparser
\* consumes are a run of the ledger: no row is lost, repeated or out of order.
RowsFollowLedger == Ledger!LedgerSpec

\* No assert, exception or row-count check of the handlers, of the batch
\* statements and of the load in initLog2() fires on lines that a node writes,
\* unless MySQL ran an INSERT twice.
NeverAborts ==
    /\ repeats = 0 => pc # "aborted"
    /\ pc = "block" /\ vpos > Len(Vtx[log1[pos].item]) => BlockTxsOK

\* Between two lines, once tparser has caught up, its store holds exactly the
\* chain up to log2producer's tip as confirmed and exactly the memory
\* repository as unconfirmed.
StoreMatchesRepo ==
    (pc = "idle" /\ consumed = Len(disk.txlogs2)) =>
        /\ kvTip = cur
        /\ {t \in Tx : kv[t] = "confirmed"} = ChainTxs(cur)
        /\ {t \in Tx : kv[t] = "unconfirmed"} = txs

\* Once every line is handled, log2producer is where the node is, as long as the
\* node takes the transactions of undone blocks back.
RepoMatchesNode ==
    (pc = "idle" /\ pos = Len(log1)) => cur = nodeTip /\ (forgot \/ txs = nodePool)

\* "使用事务提交 ... 有差错则异常，DB事务无法提交": when a handler returns, its whole
\* batch is committed: rows, memory table and offset.
BatchIsAtomic == pc = "idle" => (TablesMatch /\ disk.memrepo = txs)

\* A present transaction's parents are present too: tparser can find the outputs
\* it spends, as long as the node takes the transactions of undone blocks back.
ParentsPresent ==
    ~forgot => \A c \in Tx : kv[c] # "absent" => \A p \in Parents(c) : kv[p] # "absent"

\* A crashed log2producer comes back and every line reaches tparser's store.
CatchesUp ==
    []<>(pc = "idle" /\ pos = Len(log1) /\ consumed = Len(disk.txlogs2))
=============================================================================
