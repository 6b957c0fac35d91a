------------------------------ MODULE Log0Node ------------------------------
(***************************************************************************)
(* The patched bitcoind as log1producer sees it: the files of log0, the    *)
(* file BEGIN and the active chain that the RPC interface answers from.    *)
(*                                                                         *)
(* log0 is the sequence of complete lines of the files 0.log, 1.log, ...   *)
(* since the node started; BEGIN is the number of that start.  A line that *)
(* is not complete yet is not in log0: the reader skips it.                *)
(***************************************************************************)
EXTENDS BlockTree

CONSTANTS
    Tx,           \* transactions
    MaxLog0,      \* bound: lines of log0 per start of the node
    MaxEpoch,     \* bound: starts of the node
    StartTips,    \* the tips the node may have at its first start
    MayLag        \* the node may restart lower than it was (its chain state
                  \* was not flushed when it died)

ASSUME Log0Assumption ==
    /\ MaxLog0 \in Nat /\ MaxEpoch \in Nat \ {0}
    /\ StartTips \subseteq Block
    /\ MayLag \in BOOLEAN

VARIABLES
    log0,         \* the lines of log0
    epoch,        \* the content and the modification time of BEGIN
    nodeTip       \* chainActive.Tip()

log0Vars == <<log0, epoch, nodeTip>>

BlockLine(b) == [type |-> "block", item |-> b]
TxLine(t) == [type |-> "tx", item |-> t]
Line == {BlockLine(b) : b \in Block \cup {Begin}} \cup {TxLine(t) : t \in Tx}
Lines(q) == [i \in 1..Len(q) |-> BlockLine(q[i])]

Log0Init ==
    /\ nodeTip \in StartTips
    /\ epoch = 1
    /\ log0 = <<BlockLine(nodeTip)>>

\* CustomLog::init(): the old files are removed, BEGIN is rewritten and the
\* current tip is the first line.
NodeRestart(b) ==
    /\ epoch < MaxEpoch
    /\ MayLag \/ Height[b] >= Height[nodeTip]
    /\ nodeTip' = b
    /\ epoch' = epoch + 1
    /\ log0' = <<BlockLine(b)>>

\* addUnchecked() and removeUnchecked() of the memory pool.
NodeTx(t) ==
    /\ Len(log0) < MaxLog0
    /\ log0' = Append(log0, TxLine(t))
    /\ UNCHANGED <<epoch, nodeTip>>

\* ActivateBestChainStep(): the node moves to a block with more work, with one
\* line per call of UpdateTip().  RPC calls wait for the global lock, so they see
\* the chain before or after all of it.
NodeActivate(b) ==
    /\ Height[b] = Height[nodeTip] + 1
    /\ Len(log0) + Len(Way(nodeTip, b)) <= MaxLog0
    /\ nodeTip' = b
    /\ log0' = log0 \o Lines(Way(nodeTip, b))
    /\ UNCHANGED epoch

\* getblockhash: the block of the active chain at height h, if there is one.
HasHeight(h) == h \in Height[Begin]..Height[nodeTip]
BlockAt(h) == Chain[nodeTip][h - Height[Begin] + 1]
=============================================================================
