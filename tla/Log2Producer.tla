---------------------------- MODULE Log2Producer ----------------------------
(***************************************************************************)
(* log2producer: reads the lines of log1, keeps the memory repository, and *)
(* turns every line into rows of the table 0_txlogs2 that tparser consumes *)
(* one by one.                                                             *)
(*                                                                         *)
(* A batch is written in two phases: its rows are inserted with batch_id   *)
(* -1 (multiInsert(), autocommitted), then one transaction gives them a    *)
(* batch id, writes the changes of the memory repository to 0_memrepo_txs  *)
(* and stores the offset of the log1 line in 0_explorer_meta.  Every SQL   *)
(* statement is a step, so that a crash or a lost connection can fall      *)
(* between any two of them.                                                *)
(*                                                                         *)
(* Abstractions: log1 is one sequence of lines, and an offset is an index  *)
(* into it (files are read in order and never shrink); 0_txlogs2 is the    *)
(* sequence of its rows in the order of their ids; raw_txs, 0_raw_blocks   *)
(* and the block timestamps carry no control and are left out.             *)
(***************************************************************************)
EXTENDS MemTxRepository

CONSTANTS
    MaxLines,   \* bound: lines ever written to log1
    MaxCrash,   \* bound: crashes of log2producer
    MaxDrop,    \* bound: MySQL connections lost inside a transaction
    MaxRepeat   \* bound: answers of MySQL lost outside a transaction

ASSUME BoundAssumption ==
    MaxLines \in Nat /\ MaxCrash \in Nat /\ MaxDrop \in Nat /\ MaxRepeat \in Nat

VARIABLES
    log1,       \* the lines of log1
    pc,         \* what log2producer does next
    pos,        \* currLog1FileOffset_: the lines handled or being handled
    cur,        \* currBlockHash_ (its height is currBlockHeight_)
    vpos,       \* the loop index of handleBlockAccept() over blk.vtx
    rejects,    \* conflictTxs of handleBlockAccept(), as rows
    confirms,   \* the accept/confirm rows of the block, in order
    values,     \* rows of the batch that no statement has written yet
    expect,     \* expectAffectedRows of commitBatch()
    db,         \* the tables as log2producer's connection sees them
    disk,       \* the tables as committed: what others, and a restart, see
    inTxn,      \* a transaction is open on the connection
    consumed,   \* 90_tparser_txlogs_offset_id
    kv,         \* kv[x]: the state of a transaction in tparser's store
    kvTip,      \* the highest block of the 10_ keys
    crashes,    \* crashes so far
    drops,      \* lost connections so far
    repeats     \* lost answers so far

envVars == <<log1>>
procVars == <<pc, pos, cur, vpos, rejects, confirms, values, expect>>
dbVars == <<db, disk, inTxn>>
kvVars == <<consumed, kv, kvTip>>
boundVars == <<crashes, drops, repeats>>
vars == <<envVars, memVars, procVars, dbVars, kvVars, boundVars>>

Item == Tx \cup Block \cup {Begin, NoTx}
Line ==
    [type : {"accept", "remove"}, item : Tx]
    \cup [type : {"block"}, item : Block \cup {Begin}]
    \cup [type : {"clear"}, item : {NoTx}]

Row == [type : {"accept", "confirm", "unconfirm", "reject"}, tx : Tx \cup Block]
Tables == [txlogs2 : Seq(Row), tmp : Seq(Row), memrepo : SUBSET Tx, offset : Nat]
PCs == {"down", "aborted", "idle", "block", "insert", "begin", "rows",
        "memInsert", "memDelete", "status", "commit"}

TypeOK ==
    /\ MemTypeOK
    /\ log1 \in Seq(Line)
    /\ pc \in PCs
    /\ pos \in Nat
    /\ cur \in Block \cup {Begin}
    /\ vpos \in Nat \ {0}
    /\ rejects \in Seq(Row) /\ confirms \in Seq(Row) /\ values \in Seq(Row)
    /\ expect \in Nat
    /\ db \in Tables /\ disk \in Tables
    /\ inTxn \in BOOLEAN
    /\ consumed \in Nat
    /\ kv \in [Tx \cup Block -> {"absent", "unconfirmed", "confirmed"}]
    /\ kvTip \in Block \cup {Begin}
    /\ crashes \in Nat /\ drops \in Nat /\ repeats \in Nat

EmptyTables == [txlogs2 |-> <<>>, tmp |-> <<>>, memrepo |-> {}, offset |-> 0]

\* The first start of an installation whose key-value store was loaded up to the
\* begin block.
Init ==
    /\ MemInit
    /\ log1 = <<>>
    /\ pc = "idle" /\ pos = 0 /\ cur = Begin
    /\ vpos = 1 /\ rejects = <<>> /\ confirms = <<>> /\ values = <<>> /\ expect = 0
    /\ db = EmptyTables /\ disk = EmptyTables /\ inTxn = FALSE
    /\ consumed = 0 /\ kv = [x \in Tx \cup Block |-> "absent"] /\ kvTip = Begin
    /\ crashes = 0 /\ drops = 0 /\ repeats = 0

-----------------------------------------------------------------------------
TxRow(type, x) == [type |-> type, tx |-> x]
RejectRows(q) == [i \in 1..Len(q) |-> TxRow("reject", q[i])]

\* run() takes the next line of log1; its handler sees the offset behind it.
NextLine(type) ==
    /\ pc = "idle"
    /\ pos < Len(log1)
    /\ log1[pos + 1].type = type
    /\ pos' = pos + 1
    /\ UNCHANGED <<envVars, dbVars, kvVars, boundVars>>

\* The handler returns before it writes anything: the offset in the database
\* stays where it is.
IgnoreLine ==
    UNCHANGED <<memVars, pc, cur, vpos, rejects, confirms, values, expect>>

\* The handler has built its rows v and goes on to write them.
WriteBatch(v, next) ==
    /\ values' = v
    /\ expect' = Len(v)
    /\ pc' = next
    /\ UNCHANGED <<cur, vpos, rejects, confirms>>

\* The process ends, and its memory is lost.
Exit(next) ==
    /\ MemLost
    /\ pc' = next
    /\ pos' = 0 /\ cur' = Begin
    /\ vpos' = 1 /\ rejects' = <<>> /\ confirms' = <<>> /\ values' = <<>> /\ expect' = 0
    /\ inTxn' = FALSE
    /\ UNCHANGED <<envVars, kvVars, drops, repeats>>

\* An exception or a failed assert: the server rolls back an open transaction.
Die ==
    /\ Exit("aborted")
    /\ db' = disk
    /\ UNCHANGED <<disk, crashes>>

-----------------------------------------------------------------------------
(* The handlers of the four kinds of lines. *)

HandleTxAccept ==
    /\ NextLine("accept")
    /\ LET t == log1[pos + 1].item IN
       \/ /\ CanAdd(t)
          /\ AddTxs({t})
          /\ WriteBatch(<<TxRow("accept", t)>>, "begin")
       \/ /\ ~CanAdd(t)
          /\ IgnoreLine

HandleTxReject ==
    /\ NextLine("remove")
    /\ LET t == log1[pos + 1].item
           D == Descendants({t}) IN
       \/ /\ IsExist(t)
          /\ RemoveTxs(D)
          /\ \E q \in LeafFirst(D) : WriteBatch(RejectRows(q), "insert")
       \/ /\ ~IsExist(t)
          /\ IgnoreLine

\* Without rows multiInsert() does nothing and commitBatch() only moves the offset.
ClearMempoolTxs ==
    /\ NextLine("clear")
    /\ RemoveTxs(txs)
    /\ \E q \in LeafFirst(txs) :
          WriteBatch(RejectRows(q), IF txs = {} THEN "begin" ELSE "insert")

\* handleBlock(): the height goes up by one.  The code compares heights only.
HandleBlockAccept ==
    /\ NextLine("block")
    /\ Height[log1[pos + 1].item] = Height[cur] + 1
    /\ LET b == log1[pos + 1].item IN
          confirms' = <<TxRow("accept", b), TxRow("confirm", b)>>
    /\ rejects' = <<>>
    /\ vpos' = 1
    /\ pc' = "block"
    /\ UNCHANGED <<memVars, cur, values, expect>>

\* One round of the loop of handleBlockAccept() over the non-coinbase transactions.
BlockTx ==
    /\ pc = "block"
    /\ vpos <= Len(Vtx[log1[pos].item])
    /\ LET t == Vtx[log1[pos].item][vpos] IN
       \/ /\ IsExist(t)
          /\ confirms' = confirms \o <<TxRow("confirm", t)>>
          /\ UNCHANGED <<memVars, rejects>>
       \/ /\ ~IsExist(t)
          /\ \E q \in LeafFirst(ConflictSet(t)) : rejects' = rejects \o RejectRows(q)
          /\ ReplaceBy(t)
          /\ confirms' = confirms \o <<TxRow("accept", t), TxRow("confirm", t)>>
    /\ vpos' = vpos + 1
    /\ UNCHANGED <<envVars, pc, pos, cur, values, expect, dbVars, kvVars, boundVars>>

\* The rest of handleBlockAccept(): removeTxs() asserts that the block's
\* transactions are all in memory, and no row is made twice; then the rows.
BlockTxsOK ==
    /\ BlockTxs(log1[pos].item) \subseteq txs
    /\ \A i, j \in 1..Len(rejects) : i # j => rejects[i] # rejects[j]

BlockTxsDone ==
    /\ pc = "block"
    /\ vpos > Len(Vtx[log1[pos].item])
    /\ BlockTxsOK
    /\ RemoveTxs(BlockTxs(log1[pos].item))
    /\ WriteBatch(rejects \o confirms, "insert")
    /\ UNCHANGED <<envVars, pos, dbVars, kvVars, boundVars>>

\* handleBlock(): the height goes down by one, the current block is undone.
UnconfirmRows(b) ==
    [i \in 1..Len(Vtx[b]) |-> TxRow("unconfirm", Vtx[b][Len(Vtx[b]) + 1 - i])]
        \o <<TxRow("unconfirm", b), TxRow("reject", b)>>

RollbackOK(b) ==
    /\ cur # Begin
    /\ Prev[cur] = b
    /\ \A t \in BlockTxs(cur) : CanAdd(t)

\* Mutant of HandleBlockRollback: the transactions do not return to memory.
HandleBlockRollbackForgets ==
    /\ NextLine("block")
    /\ Height[log1[pos + 1].item] + 1 = Height[cur]
    /\ RollbackOK(log1[pos + 1].item)
    /\ UNCHANGED memVars
    /\ WriteBatch(UnconfirmRows(cur), "insert")

HandleBlockRollback ==
    /\ NextLine("block")
    /\ Height[log1[pos + 1].item] + 1 = Height[cur]
    /\ RollbackOK(log1[pos + 1].item)
    /\ AddTxs(BlockTxs(cur))
    /\ WriteBatch(UnconfirmRows(cur), "insert")

\* The exceptions of handleBlock() and handleBlockRollback().
BlockFails ==
    /\ pc = "idle"
    /\ pos < Len(log1)
    /\ log1[pos + 1].type = "block"
    /\ LET b == log1[pos + 1].item IN
       /\ Height[b] # Height[cur] + 1
       /\ ~(Height[b] + 1 = Height[cur] /\ RollbackOK(b))
    /\ Die

-----------------------------------------------------------------------------
(* The statements of a batch. *)

Write(tables) ==
    /\ db' = tables
    /\ disk' = IF inTxn THEN disk ELSE tables
    /\ UNCHANGED inTxn

Goto(next) ==
    /\ pc' = next
    /\ UNCHANGED <<envVars, pos, cur, vpos, rejects, confirms, expect, kvVars, boundVars>>

\* multiInsert() splits the rows into statements of limited length.
MultiInsert ==
    /\ pc = "insert"
    /\ \E n \in 1..Len(values) :
          /\ Write([db EXCEPT !.tmp = db.tmp \o SubSeq(values, 1, n)])
          /\ values' = SubSeq(values, n + 1, Len(values))
          /\ Goto(IF n = Len(values) THEN "begin" ELSE "insert")
    /\ UNCHANGED memVars

StartTransaction ==
    /\ pc = "begin"
    /\ inTxn' = TRUE
    /\ Goto("rows")
    /\ UNCHANGED <<memVars, values, db, disk>>

\* handleTxAccept() inserts its one row with a batch id of its own.
InsertAccept ==
    /\ pc = "rows"
    /\ values # <<>>
    /\ Write([db EXCEPT !.txlogs2 = db.txlogs2 \o values])
    /\ values' = <<>>
    /\ Goto("memInsert")
    /\ UNCHANGED memVars

\* Mutant of UpdateCountOK: the number of updated rows is not checked.
UpdateCountUnchecked == TRUE

\* commitBatch(): UPDATE ... WHERE batch_id = -1, with the number of rows checked
\* unless it is 0.
UpdateCountOK == expect = 0 \/ Len(db.tmp) = expect

UpdateBatchId ==
    /\ pc = "rows"
    /\ values = <<>>
    /\ UpdateCountOK
    /\ Write([db EXCEPT !.txlogs2 = db.txlogs2 \o db.tmp, !.tmp = <<>>])
    /\ Goto("memInsert")
    /\ UNCHANGED <<memVars, values>>

\* syncToDB(): the inserted rows first (tx_hash is a unique key) ...
SyncInsert ==
    /\ pc = "memInsert"
    /\ unSyncInsert \cap db.memrepo = {}
    /\ Write([db EXCEPT !.memrepo = db.memrepo \cup unSyncInsert])
    /\ unSyncInsert' = {}
    /\ Goto("memDelete")
    /\ UNCHANGED <<txs, spentOutputs, unSyncDelete, values>>

\* Mutant of SyncDelete: the deleted transactions stay in 0_memrepo_txs.
SyncDeleteNothing ==
    /\ pc = "memDelete"
    /\ Write(db)
    /\ unSyncDelete' = {}
    /\ Goto("status")
    /\ UNCHANGED <<txs, spentOutputs, unSyncInsert, values>>

\* ... then the deleted ones, with the number of rows checked.
SyncDelete ==
    /\ pc = "memDelete"
    /\ unSyncDelete \subseteq db.memrepo
    /\ Write([db EXCEPT !.memrepo = db.memrepo \ unSyncDelete])
    /\ unSyncDelete' = {}
    /\ Goto("status")
    /\ UNCHANGED <<txs, spentOutputs, unSyncInsert, values>>

\* Mutant of UpdateLog1FileStatus: the offset of the line before is saved.
UpdateLog1FileStatusBehind ==
    /\ pc = "status"
    /\ Write([db EXCEPT !.offset = pos - 1])
    /\ Goto("commit")
    /\ UNCHANGED <<memVars, values>>

UpdateLog1FileStatus ==
    /\ pc = "status"
    /\ Write([db EXCEPT !.offset = pos])
    /\ Goto("commit")
    /\ UNCHANGED <<memVars, values>>

\* Mutant of Commit: every line moves the current block.
CommitMovesTip ==
    /\ pc = "commit"
    /\ db' = db /\ disk' = db /\ inTxn' = FALSE
    /\ cur' = log1[pos].item
    /\ log1[pos].type = "clear" => db.memrepo = {}
    /\ pc' = "idle"
    /\ vpos' = 1 /\ rejects' = <<>> /\ confirms' = <<>> /\ expect' = 0
    /\ UNCHANGED <<envVars, memVars, pos, values, kvVars, boundVars>>

\* COMMIT, and what is left of the handler: handleBlock() moves the tip,
\* clearMempoolTxs() checks that 0_memrepo_txs is empty.
Commit ==
    /\ pc = "commit"
    /\ db' = db /\ disk' = db /\ inTxn' = FALSE
    /\ cur' = IF log1[pos].type = "block" THEN log1[pos].item ELSE cur
    /\ log1[pos].type = "clear" => db.memrepo = {}
    /\ pc' = "idle"
    /\ vpos' = 1 /\ rejects' = <<>> /\ confirms' = <<>> /\ expect' = 0
    /\ UNCHANGED <<envVars, memVars, pos, values, kvVars, boundVars>>

\* A statement reports an unexpected number of rows or a duplicate key: exception.
StatementFails ==
    /\ \/ pc = "rows" /\ values = <<>> /\ ~UpdateCountOK
       \/ pc = "memInsert" /\ unSyncInsert \cap db.memrepo # {}
       \/ pc = "memDelete" /\ ~(unSyncDelete \subseteq db.memrepo)
    /\ Die

\* The last check of clearMempoolTxs() fails after its transaction is committed.
ClearFails ==
    /\ pc = "commit"
    /\ log1[pos].type = "clear"
    /\ db.memrepo # {}
    /\ disk' = db
    /\ Exit("aborted")
    /\ UNCHANGED <<db, crashes>>

\* MySQLConnection::execute() meets error 2006 or 2013 inside a transaction: the
\* server has rolled it back, the client reconnects and repeats the statement,
\* which now runs, like the ones after it, in no transaction.
ConnectionLost ==
    /\ inTxn
    /\ drops < MaxDrop
    /\ drops' = drops + 1
    /\ db' = disk /\ inTxn' = FALSE
    /\ UNCHANGED <<envVars, memVars, procVars, disk, kvVars, crashes, repeats>>

\* The same errors after the server has run an INSERT of multiInsert(): its rows
\* are there, and the statement is about to be repeated.
RepeatInsert ==
    /\ pc = "insert"
    /\ repeats < MaxRepeat
    /\ repeats' = repeats + 1
    /\ \E n \in 1..Len(values) :
          Write([db EXCEPT !.tmp = db.tmp \o SubSeq(values, 1, n)])
    /\ UNCHANGED <<envVars, memVars, procVars, kvVars, crashes, drops>>

-----------------------------------------------------------------------------
(* Crashes and restarts. *)

Crash ==
    /\ pc \notin {"down", "aborted"}
    /\ crashes < MaxCrash
    /\ crashes' = crashes + 1
    /\ Exit("down")
    /\ db' = disk
    /\ UNCHANGED disk

\* Mutant of DeleteTmp: the rows of an unfinished batch survive the restart.
KeepTmp(next) ==
    /\ pc \in {"down", "aborted"}
    /\ db' = disk
    /\ disk' = disk
    /\ pc' = next
    /\ UNCHANGED <<envVars, vpos, rejects, confirms, values, expect, inTxn, kvVars, boundVars>>

\* initLog2() deletes the rows of an unfinished batch, then insists that tparser
\* has consumed everything.
DeleteTmp(next) ==
    /\ pc \in {"down", "aborted"}
    /\ db' = [disk EXCEPT !.tmp = <<>>]
    /\ disk' = [disk EXCEPT !.tmp = <<>>]
    /\ pc' = next
    /\ UNCHANGED <<envVars, vpos, rejects, confirms, values, expect, inTxn, kvVars, boundVars>>

\* _initLog2_loadMemrepoTxs() adds the rows one by one and throws on a conflict.
LoadOK == \A t, u \in disk.memrepo : t # u => Vin[t] \cap Vin[u] = {}

\* Mutant of InitLog2: it does not wait for tparser.
InitLog2Early ==
    /\ DeleteTmp("idle")
    /\ LoadOK
    /\ cur' = IF Len(disk.txlogs2) > 0 THEN kvTip ELSE Begin
    /\ pos' = disk.offset
    /\ txs' = disk.memrepo
    /\ spentOutputs' = Insert(NothingSpent, disk.memrepo)
    /\ UNCHANGED <<unSyncInsert, unSyncDelete>>

InitLog2 ==
    /\ DeleteTmp("idle")
    /\ consumed = Len(disk.txlogs2)
    /\ LoadOK
    /\ cur' = IF Len(disk.txlogs2) > 0 THEN kvTip ELSE Begin
    /\ pos' = disk.offset
    /\ txs' = disk.memrepo
    /\ spentOutputs' = Insert(NothingSpent, disk.memrepo)
    /\ UNCHANGED <<unSyncInsert, unSyncDelete>>

\* "please wait util 'tparser' catch up latest txlogs2"
InitWaits ==
    /\ DeleteTmp("down")
    /\ consumed # Len(disk.txlogs2)
    /\ UNCHANGED <<memVars, pos, cur>>

LoadFails ==
    /\ DeleteTmp("aborted")
    /\ consumed = Len(disk.txlogs2)
    /\ ~LoadOK
    /\ UNCHANGED <<memVars, pos, cur>>

-----------------------------------------------------------------------------
(* tparser, as seen from here: it takes the committed rows one by one, and  *)
(* its 10_ keys follow the coinbase rows.                                   *)
NewState(type) ==
    CASE type = "accept" -> "unconfirmed"
      [] type = "confirm" -> "confirmed"
      [] type = "unconfirm" -> "unconfirmed"
      [] type = "reject" -> "absent"

HandleTxlog ==
    /\ consumed < Len(disk.txlogs2)
    /\ LET r == disk.txlogs2[consumed + 1] IN
       /\ kv' = [kv EXCEPT ![r.tx] = NewState(r.type)]
       /\ kvTip' = CASE r.tx \in Block /\ r.type = "confirm" -> r.tx
                     [] r.tx \in Block /\ r.type = "reject" -> Prev[r.tx]
                     [] OTHER -> kvTip
    /\ consumed' = consumed + 1
    /\ UNCHANGED <<envVars, memVars, procVars, dbVars, boundVars>>

-----------------------------------------------------------------------------
Handler ==
    \/ HandleTxAccept \/ HandleTxReject \/ ClearMempoolTxs
    \/ HandleBlockAccept \/ BlockTx \/ BlockTxsDone \/ HandleBlockRollback

Statement ==
    \/ MultiInsert \/ StartTransaction \/ InsertAccept \/ UpdateBatchId
    \/ SyncInsert \/ SyncDelete \/ UpdateLog1FileStatus \/ Commit

Failure == BlockFails \/ StatementFails \/ ClearFails

Restart == InitLog2 \/ InitWaits \/ LoadFails

ProducerNext ==
    \/ Handler \/ Statement \/ Failure \/ ConnectionLost \/ RepeatInsert
    \/ Crash \/ Restart \/ HandleTxlog

\* Any line may follow any other.
AppendLine ==
    /\ Len(log1) < MaxLines
    /\ \E l \in Line : log1' = Append(log1, l)
    /\ UNCHANGED <<memVars, procVars, dbVars, kvVars, boundVars>>

Next == ProducerNext \/ AppendLine

Spec == Init /\ [][Next]_vars

-----------------------------------------------------------------------------
\* The rows of x in a table 0_txlogs2, and whether the last one leaves it
\* accepted and unconfirmed.
RowsOf(rows, x) == {i \in 1..Len(rows) : rows[i].tx = x}
LeftUnconfirmed(rows, x) ==
    \E i \in RowsOf(rows, x) :
        /\ \A j \in RowsOf(rows, x) : j <= i
        /\ rows[i].type \in {"accept", "unconfirm"}

\* The transactions in 0_memrepo_txs are exactly those whose last row leaves
\* them unconfirmed.
TablesMatch ==
    \A t \in Tx : t \in disk.memrepo <=> LeftUnconfirmed(disk.txlogs2, t)

\* commitBatch() and handleTxAccept() commit the rows of a batch together with
\* the change of 0_memrepo_txs: in every committed state the two tables match, so
\* a restart loads what tparser was told, unless a connection was lost inside a
\* transaction.
TablesAgree == drops = 0 => TablesMatch

\* Between two lines 0_memrepo_txs holds exactly the memory repository, so a
\* restart finds the transactions that were in memory when the process ended,
\* unless a connection was lost inside a transaction.
RepoSynced == drops = 0 /\ pc = "idle" => disk.memrepo = txs

\* The table never holds a double spend: "数据库中的交易不会有双花冲突"
\* (_initLog2_loadMemrepoTxs), so initLog2() can load it in any order, unless a
\* connection was lost inside a transaction.
LoadNeverFails == drops = 0 => LoadOK

-----------------------------------------------------------------------------
(* The inductive invariant behind RepoSynced and LoadNeverFails; most of it *)
(* ends with the first connection that is lost inside a transaction.        *)

\* A transaction is open exactly while its statements run, and without one the
\* connection sees what is committed.
InBatch == {"rows", "memInsert", "memDelete", "status", "commit"}
TxnInv ==
    /\ inTxn <=> pc \in InBatch
    /\ ~inTxn => db = disk

\* How the memory repository, its unsynchronized changes and the table
\* 0_memrepo_txs relate while a batch is built and written.
BlockSync ==
    /\ unSyncInsert \subseteq {Vtx[log1[pos].item][i] : i \in 1..(vpos - 1)}
    /\ txs \cup unSyncDelete \subseteq db.memrepo \cup unSyncInsert
    /\ (db.memrepo \cup unSyncInsert) \ unSyncDelete \subseteq txs
    /\ txs \cap unSyncDelete \subseteq unSyncInsert \cap db.memrepo

BuiltSync ==
    unSyncInsert \cap db.memrepo = {} =>
        /\ txs = (db.memrepo \cup unSyncInsert) \ unSyncDelete
        /\ unSyncDelete \subseteq db.memrepo \cup unSyncInsert

Synced == unSyncInsert = {} /\ unSyncDelete = {} /\ db.memrepo = txs

SyncInv ==
    /\ pc \in {"idle", "status", "commit"} => Synced
    /\ pc = "block" => BlockSync
    /\ pc \in {"insert", "begin", "rows", "memInsert"} => BuiltSync
    /\ pc = "memDelete" => /\ unSyncInsert = {}
                           /\ txs = db.memrepo \ unSyncDelete
    /\ pc \in {"down", "aborted"} =>
          txs = {} /\ unSyncInsert = {} /\ unSyncDelete = {}

\* The line being handled exists, and a block line under way names a block.
LineInv ==
    /\ pos <= Len(log1)
    /\ pc \notin {"idle", "down", "aborted"} => pos > 0
    /\ pc = "block" => log1[pos].type = "block" /\ log1[pos].item \in Block
    /\ disk.offset <= Len(log1) /\ db.offset <= Len(log1)

RepoInv ==
    /\ SpentExact
    /\ LineInv
    /\ drops = 0 => TxnInv /\ SyncInv /\ LoadOK
=============================================================================
