------------------------- MODULE Log2ProducerProofs -------------------------
(***************************************************************************)
(* Theorems about Log2Producer for every transaction graph, every stream   *)
(* of log1 lines and every bound.                                          *)
(***************************************************************************)
EXTENDS Log2Producer, BlockTreeProofs, FiniteSetTheorems, SequenceTheorems, TLAPS

\* SpentExact as a relation between a map and a set of transactions.
Exact(s, T) == \A o \in Outpoint, t \in Tx : s[o] = t <=> (t \in T /\ o \in Vin[t])

SpentMap == [Outpoint -> Tx \cup {NoTx}]

\* Adding transactions that spend disjoint outputs, none of them spent before,
\* keeps the map exact (addTx()).
LEMMA InsertExact ==
    ASSUME NEW s \in SpentMap, NEW T \in SUBSET Tx, NEW S \in SUBSET Tx, Exact(s, T),
           \A t \in S : \A o \in Vin[t] : s[o] = NoTx,
           \A t, u \in S : t # u => Vin[t] \cap Vin[u] = {}
    PROVE  Insert(s, S) \in SpentMap /\ Exact(Insert(s, S), T \cup S)
<1>1. \A o \in Outpoint : o \in Inputs(S) =>
         /\ (CHOOSE t \in S : o \in Vin[t]) \in S
         /\ o \in Vin[CHOOSE t \in S : o \in Vin[t]]
  BY DEF Inputs
<1>2. Insert(s, S) \in SpentMap
  BY <1>1 DEF Insert, SpentMap
<1>3. ASSUME NEW o \in Outpoint, NEW t \in Tx
      PROVE  Insert(s, S)[o] = t <=> (t \in T \cup S /\ o \in Vin[t])
  <2>0. NoTx \notin Tx
    BY TxGraphAssumption
  <2>1. CASE o \in Inputs(S)
    <3>1. PICK u \in S : u = (CHOOSE v \in S : o \in Vin[v]) /\ o \in Vin[u]
      BY <1>1, <2>1
    <3>2. Insert(s, S)[o] = u
      BY <2>1, <3>1 DEF Insert
    <3>3. s[o] = NoTx
      BY <3>1
    <3>4. ~(t \in T /\ o \in Vin[t])
      BY <3>3, <2>0 DEF Exact
    <3>5. t \in S /\ o \in Vin[t] => t = u
      BY <3>1
    <3> QED BY <3>1, <3>2, <3>4, <3>5
  <2>2. CASE o \notin Inputs(S)
    <3>1. Insert(s, S)[o] = s[o]
      BY <2>2 DEF Insert
    <3>2. ~(t \in S /\ o \in Vin[t])
      BY <2>2 DEF Inputs
    <3> QED BY <3>1, <3>2 DEF Exact
  <2> QED BY <2>1, <2>2
<1> QED BY <1>2, <1>3 DEF Exact

\* Removing transactions that are in memory keeps the map exact (removeTx()).
LEMMA EraseExact ==
    ASSUME NEW s \in SpentMap, NEW T \in SUBSET Tx, NEW S \in SUBSET T, Exact(s, T)
    PROVE  Erase(s, S) \in SpentMap /\ Exact(Erase(s, S), T \ S)
<1>1. Erase(s, S) \in SpentMap
  BY DEF Erase, SpentMap
<1>2. ASSUME NEW o \in Outpoint, NEW t \in Tx
      PROVE  Erase(s, S)[o] = t <=> (t \in T \ S /\ o \in Vin[t])
  <2>0. NoTx \notin Tx
    BY TxGraphAssumption
  <2>1. CASE o \in Inputs(S)
    <3>1. PICK u \in S : o \in Vin[u]
      BY <2>1 DEF Inputs
    <3>2. s[o] = u
      BY <3>1 DEF Exact
    <3>3. t \in T /\ o \in Vin[t] => t = u
      BY <3>2 DEF Exact
    <3>4. Erase(s, S)[o] = NoTx
      BY <2>1 DEF Erase
    <3> QED BY <2>0, <3>3, <3>4
  <2>2. CASE o \notin Inputs(S)
    <3>1. Erase(s, S)[o] = s[o] /\ ~(t \in S /\ o \in Vin[t])
      BY <2>2 DEF Erase, Inputs
    <3> QED BY <3>1 DEF Exact
  <2> QED BY <2>1, <2>2
<1> QED BY <1>1, <1>2 DEF Exact

-----------------------------------------------------------------------------
(* What the operators of the model return. *)

\* Only transactions in memory are descendants.
LEMMA DescendantsType == \A S : Descendants(S) \subseteq txs
  BY DEF Descendants

\* A removal order is a sequence over the set it removes.
LEMMA LeafFirstType ==
    ASSUME NEW S \in SUBSET Tx, NEW q \in LeafFirst(S)
    PROVE  q \in Seq(Tx)
<1>1. IsFiniteSet(S)
  BY FS_Subset, TxGraphAssumption
<1>2. Cardinality(S) \in Nat
  BY <1>1, FS_CardinalityType
<1>3. q \in [1..Cardinality(S) -> S]
  BY DEF LeafFirst
<1> QED BY <1>2, <1>3

\* One row, and the rows of a removal order or of an undone block.
LEMMA TxRowType ==
    ASSUME NEW x \in Tx \cup Block,
           NEW type \in {"accept", "confirm", "unconfirm", "reject"}
    PROVE  TxRow(type, x) \in Row
  BY DEF TxRow, Row

\* Rejecting a sequence of transactions yields rows.
LEMMA RejectRowsType ==
    ASSUME NEW q \in Seq(Tx)
    PROVE  RejectRows(q) \in Seq(Row)
  BY TxRowType DEF RejectRows

\* Rows followed by rows are rows.
LEMMA RowsConcat ==
    ASSUME NEW r \in Seq(Row), NEW s \in Seq(Row)
    PROVE  r \o s \in Seq(Row)
  OBVIOUS

\* Parts of rows are rows.
LEMMA SubRows ==
    ASSUME NEW v \in Seq(Row), NEW n \in 1..Len(v)
    PROVE  SubSeq(v, 1, n) \in Seq(Row) /\ SubSeq(v, n + 1, Len(v)) \in Seq(Row)
  OBVIOUS

\* No rows are rows.
LEMMA NoRows == <<>> \in Seq(Row)
  OBVIOUS

\* Undoing a block yields rows.
LEMMA UnconfirmRowsType ==
    ASSUME NEW b \in Block
    PROVE  UnconfirmRows(b) \in Seq(Row)
<1>1. Vtx[b] \in Seq(Tx)
  BY TxGraphAssumption
<1>2. [i \in 1..Len(Vtx[b]) |-> TxRow("unconfirm", Vtx[b][Len(Vtx[b]) + 1 - i])] \in Seq(Row)
  BY <1>1, TxRowType
<1>3. <<TxRow("unconfirm", b), TxRow("reject", b)>> \in Seq(Row)
  BY TxRowType
<1> QED BY <1>2, <1>3, RowsConcat DEF UnconfirmRows

\* A block holds transactions.
LEMMA BlockTxsType ==
    ASSUME NEW b \in Block
    PROVE  BlockTxs(b) \subseteq Tx
  BY TxGraphAssumption DEF BlockTxs

\* Inserting into, and erasing from, the map of spent outputs yields such a map.
LEMMA InsertType ==
    ASSUME NEW s \in SpentMap, NEW S \in SUBSET Tx
    PROVE  Insert(s, S) \in SpentMap
<1>1. \A o \in Outpoint : o \in Inputs(S) => (CHOOSE t \in S : o \in Vin[t]) \in S
  BY DEF Inputs
<1> QED BY <1>1 DEF Insert, SpentMap

\* The same for erasing.
LEMMA EraseType ==
    ASSUME NEW s \in SpentMap, NEW S
    PROVE  Erase(s, S) \in SpentMap
  BY DEF Erase, SpentMap

\* The four ways the repository changes keep its type.
LEMMA MemSteps ==
    ASSUME MemTypeOK, NEW S \in SUBSET Tx
    PROVE  /\ AddTxs(S) => MemTypeOK'
           /\ RemoveTxs(S) => MemTypeOK'
           /\ \A t \in Tx : ReplaceBy(t) => MemTypeOK'
           /\ UNCHANGED memVars => MemTypeOK'
           /\ MemLost => MemTypeOK'
<1> USE DEF MemTypeOK
<1>0. spentOutputs \in SpentMap
  BY DEF SpentMap
<1>1. AddTxs(S) => MemTypeOK'
  BY <1>0, InsertType DEF AddTxs, SpentMap
<1>2. RemoveTxs(S) => MemTypeOK'
  BY <1>0, EraseType DEF RemoveTxs, SpentMap
<1>3. ASSUME NEW t \in Tx, ReplaceBy(t) PROVE MemTypeOK'
  <2>1. ConflictSet(t) \subseteq txs
    BY DescendantsType DEF ConflictSet
  <2>2. Insert(Erase(spentOutputs, ConflictSet(t)), {t}) \in SpentMap
    BY <1>0, EraseType, InsertType
  <2> QED BY <1>3, <2>1, <2>2 DEF ReplaceBy, SpentMap
<1>4. UNCHANGED memVars => MemTypeOK'
  BY DEF memVars
<1>5. MemLost => MemTypeOK'
  BY DEF MemLost, NothingSpent
<1> QED BY <1>1, <1>2, <1>3, <1>4, <1>5


-----------------------------------------------------------------------------
(* Types. *)

TypeInv == TypeOK /\ LineInv

\* The line a handler reads, and the one it has read, are lines of log1.
LEMMA LineTypes ==
    ASSUME TypeInv
    PROVE  /\ pos < Len(log1) => /\ pos + 1 \in 1..Len(log1)
                                 /\ log1[pos + 1] \in Line
           /\ pos > 0 => log1[pos] \in Line
  BY DEF TypeInv, TypeOK, LineInv

\* What a line is about.
LEMMA LineItems ==
    ASSUME NEW l \in Line
    PROVE  /\ l.type \in {"accept", "remove"} => l.item \in Tx
           /\ l.type = "block" => l.item \in Block \cup {Begin}
  BY DEF Line

\* A block one above the current one is not the begin block.
LEMMA ForwardIsBlock ==
    ASSUME NEW b \in Block \cup {Begin}, NEW c \in Block \cup {Begin},
           Height[b] = Height[c] + 1
    PROVE  b \in Block
<1>1. Height[c] >= Height[Begin] /\ Height[c] \in Nat /\ Height[Begin] \in Nat
  BY BlockTreeAssumption
<1> QED BY <1>1

\* The loop over a block looks at a transaction.
LEMMA BlockTxType ==
    ASSUME TypeInv, BlockTx
    PROVE  Vtx[log1[pos].item][vpos] \in Tx
<1>1. log1[pos].item \in Block /\ vpos \in Nat \ {0} /\ vpos <= Len(Vtx[log1[pos].item])
  BY DEF TypeInv, TypeOK, LineInv, BlockTx
<1>2. Vtx[log1[pos].item] \in Seq(Tx)
  BY <1>1, TxGraphAssumption
<1> QED BY <1>1, <1>2

\* A batch of rows has a length.
LEMMA BatchType ==
    ASSUME NEW v \in Seq(Row), NEW next, WriteBatch(v, next)
    PROVE  values' \in Seq(Row) /\ expect' \in Nat /\ expect' = Len(values')
  BY DEF WriteBatch

\* The first start satisfies the type invariant.
LEMMA TypeInit == Init => TypeInv
<1> SUFFICES ASSUME Init PROVE TypeInv
  OBVIOUS
<1> USE DEF Init
<1>1. MemTypeOK
  BY DEF MemInit, MemTypeOK, NothingSpent
<1>2. /\ <<>> \in Seq(Row) /\ <<>> \in Seq(Line)
      /\ EmptyTables \in Tables /\ EmptyTables.offset = 0
  BY DEF EmptyTables, Tables
<1>a. log1 \in Seq(Line) /\ rejects \in Seq(Row) /\ confirms \in Seq(Row) /\ values \in Seq(Row)
  BY <1>2
<1>b. pc \in PCs /\ pos \in Nat /\ cur \in Block \cup {Begin} /\ vpos \in Nat \ {0} /\ expect \in Nat
  BY DEF PCs
<1>c. db \in Tables /\ disk \in Tables /\ inTxn \in BOOLEAN
  BY <1>2
<1>d. /\ consumed \in Nat /\ crashes \in Nat /\ drops \in Nat /\ repeats \in Nat
      /\ kv \in [Tx \cup Block -> {"absent", "unconfirmed", "confirmed"}]
      /\ kvTip \in Block \cup {Begin}
  OBVIOUS
<1>3. TypeOK
  BY <1>1, <1>a, <1>b, <1>c, <1>d DEF TypeOK
<1>4. LineInv
  BY <1>2 DEF LineInv
<1> QED BY <1>3, <1>4 DEF TypeInv

\* The handlers keep the types.
LEMMA TypeHandler == TypeInv /\ Handler => TypeInv'
<1> SUFFICES ASSUME TypeInv, Handler PROVE TypeInv'
  OBVIOUS
<1> USE DEF TypeInv, TypeOK, LineInv, PCs, envVars, dbVars, kvVars, boundVars
<1>m. MemTypeOK
  OBVIOUS
<1>1. CASE HandleTxAccept
  <2>1. log1[pos + 1] \in Line /\ log1[pos + 1].item \in Tx
    BY <1>1, LineTypes, LineItems DEF HandleTxAccept, NextLine
  <2>2. MemTypeOK'
    BY <1>1, <1>m, <2>1, MemSteps DEF HandleTxAccept, IgnoreLine
  <2>3. <<TxRow("accept", log1[pos + 1].item)>> \in Seq(Row)
    BY <2>1, TxRowType
  <2>4. values' \in Seq(Row) /\ expect' \in Nat
    <3>1. CASE CanAdd(log1[pos + 1].item)
      <4>1. WriteBatch(<<TxRow("accept", log1[pos + 1].item)>>, "begin")
        BY <1>1, <3>1 DEF HandleTxAccept
      <4> QED BY <2>3, <4>1, BatchType
    <3>2. CASE ~CanAdd(log1[pos + 1].item)
      BY <1>1, <3>2 DEF HandleTxAccept, IgnoreLine
    <3> QED BY <3>1, <3>2
  <2>5. /\ pc' \in {"idle", "begin"} /\ pos' = pos + 1 /\ pos < Len(log1)
        /\ UNCHANGED <<log1, cur, vpos, rejects, confirms, dbVars, kvVars, boundVars>>
    BY <1>1 DEF HandleTxAccept, NextLine, IgnoreLine, WriteBatch
  <2> QED BY <2>2, <2>4, <2>5
<1>2. CASE HandleTxReject
  <2> DEFINE D == Descendants({log1[pos + 1].item})
  <2>1. D \subseteq Tx
    BY DescendantsType DEF MemTypeOK
  <2>2. MemTypeOK'
    BY <1>2, <1>m, <2>1, MemSteps DEF HandleTxReject, IgnoreLine
  <2>3. \A q \in LeafFirst(D) : RejectRows(q) \in Seq(Row)
    BY <2>1, LeafFirstType, RejectRowsType
  <2>4. values' \in Seq(Row) /\ expect' \in Nat
    <3>1. CASE IsExist(log1[pos + 1].item)
      <4>1. PICK q \in LeafFirst(D) : WriteBatch(RejectRows(q), "insert")
        BY <1>2, <3>1 DEF HandleTxReject
      <4> QED BY <2>3, <4>1, BatchType
    <3>2. CASE ~IsExist(log1[pos + 1].item)
      BY <1>2, <3>2 DEF HandleTxReject, IgnoreLine
    <3> QED BY <3>1, <3>2
  <2>5. /\ pc' \in {"idle", "insert"} /\ pos' = pos + 1 /\ pos < Len(log1)
        /\ UNCHANGED <<log1, cur, vpos, rejects, confirms, dbVars, kvVars, boundVars>>
    BY <1>2 DEF HandleTxReject, NextLine, IgnoreLine, WriteBatch
  <2> QED BY <2>2, <2>4, <2>5
<1>3. CASE ClearMempoolTxs
  <2>1. txs \subseteq Tx
    BY DEF MemTypeOK
  <2>2. MemTypeOK'
    BY <1>3, <1>m, <2>1, MemSteps DEF ClearMempoolTxs
  <2>3. \A q \in LeafFirst(txs) : RejectRows(q) \in Seq(Row)
    BY <2>1, LeafFirstType, RejectRowsType
  <2> QED BY <1>3, <2>2, <2>3 DEF ClearMempoolTxs, NextLine, WriteBatch
<1>4. CASE HandleBlockAccept
  <2>1. log1[pos + 1].item \in Block
    BY <1>4, LineTypes, LineItems, ForwardIsBlock DEF HandleBlockAccept, NextLine
  <2>2. MemTypeOK'
    BY <1>4, <1>m, MemSteps DEF HandleBlockAccept
  <2>3. <<TxRow("accept", log1[pos + 1].item), TxRow("confirm", log1[pos + 1].item)>>
            \in Seq(Row)
    BY <2>1, TxRowType
  <2> QED BY <1>4, <2>1, <2>2, <2>3 DEF HandleBlockAccept, NextLine
<1>5. CASE BlockTx
  <2> DEFINE t == Vtx[log1[pos].item][vpos]
  <2>1. t \in Tx
    BY <1>5, BlockTxType
  <2>2. MemTypeOK'
    BY <1>5, <1>m, <2>1, MemSteps DEF BlockTx
  <2>3. ConflictSet(t) \subseteq Tx
    BY DescendantsType DEF ConflictSet, MemTypeOK
  <2>4. \A q \in LeafFirst(ConflictSet(t)) : RejectRows(q) \in Seq(Row)
    BY <2>3, LeafFirstType, RejectRowsType
  <2>5. rejects' \in Seq(Row)
    <3>1. CASE IsExist(t)
      BY <1>5, <3>1 DEF BlockTx
    <3>2. CASE ~IsExist(t)
      <4>1. PICK q \in LeafFirst(ConflictSet(t)) : rejects' = rejects \o RejectRows(q)
        BY <1>5, <3>2 DEF BlockTx
      <4> QED BY <2>4, <4>1, RowsConcat
    <3> QED BY <3>1, <3>2
  <2>6. <<TxRow("confirm", t)>> \in Seq(Row)
        /\ <<TxRow("accept", t), TxRow("confirm", t)>> \in Seq(Row)
    BY <2>1, TxRowType
  <2>7. confirms' \in Seq(Row)
    <3>1. CASE IsExist(t)
      <4>1. confirms' = confirms \o <<TxRow("confirm", t)>>
        BY <1>5, <3>1 DEF BlockTx
      <4> QED BY <2>6, <4>1, RowsConcat
    <3>2. CASE ~IsExist(t)
      <4>1. confirms' = confirms \o <<TxRow("accept", t), TxRow("confirm", t)>>
        BY <1>5, <3>2 DEF BlockTx
      <4> QED BY <2>6, <4>1, RowsConcat
    <3> QED BY <3>1, <3>2
  <2>8. /\ vpos' \in Nat \ {0}
        /\ UNCHANGED <<log1, pc, pos, cur, values, expect, dbVars, kvVars, boundVars>>
    BY <1>5 DEF BlockTx
  <2> QED BY <2>2, <2>5, <2>7, <2>8
<1>6. CASE BlockTxsDone
  <2>1. BlockTxs(log1[pos].item) \subseteq Tx
    BY <1>6, BlockTxsType DEF BlockTxsDone
  <2>2. MemTypeOK'
    BY <1>6, <1>m, <2>1, MemSteps DEF BlockTxsDone
  <2> QED BY <1>6, <2>2 DEF BlockTxsDone, WriteBatch
<1>7. CASE HandleBlockRollback
  <2>1. cur \in Block
    BY <1>7 DEF HandleBlockRollback, RollbackOK
  <2>2. MemTypeOK'
    BY <1>7, <1>m, <2>1, BlockTxsType, MemSteps DEF HandleBlockRollback
  <2>3. UnconfirmRows(cur) \in Seq(Row)
    BY <2>1, UnconfirmRowsType
  <2> QED BY <1>7, <2>2, <2>3 DEF HandleBlockRollback, NextLine, WriteBatch
<1> QED BY <1>1, <1>2, <1>3, <1>4, <1>5, <1>6, <1>7 DEF Handler

\* The tables after a statement that leaves the offset alone or moves it to the
\* line being handled.
LEMMA WriteType ==
    ASSUME TypeInv, NEW tables \in Tables, Write(tables), log1' = log1,
           tables.offset <= Len(log1)
    PROVE  /\ db' \in Tables /\ disk' \in Tables /\ inTxn' \in BOOLEAN
           /\ db'.offset <= Len(log1') /\ disk'.offset <= Len(log1')
<1>1. CASE inTxn
  BY <1>1 DEF TypeInv, TypeOK, LineInv, Write
<1>2. CASE ~inTxn
  BY <1>2 DEF TypeInv, TypeOK, LineInv, Write
<1> QED BY <1>1, <1>2

\* What the statements write are tables.
LEMMA TablesUpdates ==
    ASSUME NEW d \in Tables
    PROVE  /\ d.txlogs2 \in Seq(Row) /\ d.tmp \in Seq(Row) /\ d.memrepo \subseteq Tx
           /\ \A r \in Seq(Row) : /\ [d EXCEPT !.tmp = r] \in Tables
                                  /\ [d EXCEPT !.tmp = r].offset = d.offset
                                  /\ [d EXCEPT !.txlogs2 = r] \in Tables
                                  /\ [d EXCEPT !.txlogs2 = r].offset = d.offset
           /\ \A r \in Seq(Row) :
                 /\ [d EXCEPT !.txlogs2 = r, !.tmp = <<>>] \in Tables
                 /\ [d EXCEPT !.txlogs2 = r, !.tmp = <<>>].offset = d.offset
           /\ \A m \in SUBSET Tx : /\ [d EXCEPT !.memrepo = m] \in Tables
                                   /\ [d EXCEPT !.memrepo = m].offset = d.offset
           /\ \A n \in Nat : /\ [d EXCEPT !.offset = n] \in Tables
                             /\ [d EXCEPT !.offset = n].offset = n
  BY NoRows DEF Tables

\* The statements keep the types.
LEMMA TypeStatement == TypeInv /\ Statement => TypeInv'
<1> SUFFICES ASSUME TypeInv, Statement PROVE TypeInv'
  OBVIOUS
<1> USE DEF TypeInv, TypeOK, LineInv, PCs, envVars, dbVars, kvVars, boundVars
<1>m. /\ MemTypeOK /\ db \in Tables /\ disk \in Tables /\ values \in Seq(Row)
      /\ db.offset <= Len(log1) /\ disk.offset <= Len(log1)
  OBVIOUS
<1>d. db.txlogs2 \in Seq(Row) /\ db.tmp \in Seq(Row) /\ db.memrepo \subseteq Tx
  BY <1>m, TablesUpdates
<1>g. ASSUME NEW next \in PCs \ {"block", "idle", "down", "aborted"}, NEW tables \in Tables, Write(tables),
             Goto(next), MemTypeOK', tables.offset <= Len(log1), values' \in Seq(Row), pos > 0
      PROVE  TypeInv'
  <2>1. UNCHANGED <<log1, pos, cur, vpos, rejects, confirms, expect, kvVars, boundVars>> /\ pc' = next
    BY <1>g DEF Goto
  <2>2. /\ db' \in Tables /\ disk' \in Tables /\ inTxn' \in BOOLEAN
        /\ db'.offset <= Len(log1') /\ disk'.offset <= Len(log1')
    BY <1>g, <2>1, WriteType
  <2> QED BY <1>g, <2>1, <2>2
<1>1. CASE MultiInsert
  <2>1. PICK n \in 1..Len(values) :
          /\ Write([db EXCEPT !.tmp = db.tmp \o SubSeq(values, 1, n)])
          /\ values' = SubSeq(values, n + 1, Len(values))
          /\ Goto(IF n = Len(values) THEN "begin" ELSE "insert")
    BY <1>1 DEF MultiInsert
  <2>2. SubSeq(values, 1, n) \in Seq(Row) /\ values' \in Seq(Row)
    BY <2>1, <1>m, SubRows
  <2>3. db.tmp \o SubSeq(values, 1, n) \in Seq(Row)
    BY <2>2, <1>d, RowsConcat
  <2>4. MemTypeOK' /\ pos > 0
    BY <1>1, <1>m, MemSteps DEF MultiInsert
  <2> QED BY <1>g, <1>m, <2>1, <2>2, <2>3, <2>4, TablesUpdates
<1>2. CASE StartTransaction
  <2>1. MemTypeOK'
    BY <1>2, <1>m, MemSteps DEF StartTransaction
  <2>2. /\ pc' = "rows" /\ pc = "begin" /\ inTxn' = TRUE
        /\ UNCHANGED <<log1, pos, cur, vpos, rejects, confirms, expect, values, db, disk, kvVars, boundVars>>
    BY <1>2 DEF StartTransaction, Goto
  <2> QED BY <2>1, <2>2
<1>3. CASE InsertAccept
  <2>0. MemTypeOK' /\ pos > 0
    BY <1>3, <1>m, MemSteps DEF InsertAccept
  <2>1. values' \in Seq(Row)
    BY <1>3, NoRows DEF InsertAccept
  <2>2. db.txlogs2 \o values \in Seq(Row)
    BY <1>m, <1>d, RowsConcat
  <2>3. Write([db EXCEPT !.txlogs2 = db.txlogs2 \o values]) /\ Goto("memInsert")
    BY <1>3 DEF InsertAccept
  <2> QED BY <1>g, <1>m, <2>0, <2>1, <2>2, <2>3, TablesUpdates
<1>4. CASE UpdateBatchId
  <2>1. MemTypeOK' /\ pos > 0 /\ values' \in Seq(Row)
    BY <1>4, <1>m, MemSteps DEF UpdateBatchId
  <2>2. db.txlogs2 \o db.tmp \in Seq(Row) /\ <<>> \in Seq(Row)
    BY <1>m, <1>d, RowsConcat
  <2>3. Write([db EXCEPT !.txlogs2 = db.txlogs2 \o db.tmp, !.tmp = <<>>]) /\ Goto("memInsert")
    BY <1>4 DEF UpdateBatchId
  <2> DEFINE d == [db EXCEPT !.txlogs2 = db.txlogs2 \o db.tmp, !.tmp = <<>>]
  <2>4. d \in Tables /\ d.offset <= Len(log1)
    BY <1>m, <2>2, TablesUpdates
  <2> HIDE DEF d
  <2>5. Write(d)
    BY <2>3 DEF d
  <2> QED BY <1>g, <2>1, <2>3, <2>4, <2>5
<1>5. CASE SyncInsert
  <2>1. MemTypeOK' /\ pos > 0 /\ values' \in Seq(Row) /\ unSyncInsert \subseteq Tx
    BY <1>5, <1>m DEF SyncInsert, MemTypeOK
  <2>2. Write([db EXCEPT !.memrepo = db.memrepo \cup unSyncInsert]) /\ Goto("memDelete")
    BY <1>5 DEF SyncInsert
  <2>3. db.memrepo \cup unSyncInsert \in SUBSET Tx
    BY <1>d, <2>1
  <2> QED BY <1>g, <1>m, <2>1, <2>2, <2>3, TablesUpdates
<1>6. CASE SyncDelete
  <2>1. MemTypeOK' /\ pos > 0 /\ values' \in Seq(Row)
    BY <1>6, <1>m DEF SyncDelete, MemTypeOK
  <2>2. Write([db EXCEPT !.memrepo = db.memrepo \ unSyncDelete]) /\ Goto("status")
    BY <1>6 DEF SyncDelete
  <2>3. db.memrepo \ unSyncDelete \in SUBSET Tx
    BY <1>d
  <2> QED BY <1>g, <1>m, <2>1, <2>2, <2>3, TablesUpdates
<1>7. CASE UpdateLog1FileStatus
  <2>1. MemTypeOK' /\ pos > 0 /\ values' \in Seq(Row)
    BY <1>7, <1>m, MemSteps DEF UpdateLog1FileStatus
  <2>2. Write([db EXCEPT !.offset = pos]) /\ Goto("commit") /\ pos <= Len(log1)
    BY <1>7 DEF UpdateLog1FileStatus
  <2>3. [db EXCEPT !.offset = pos] \in Tables /\ [db EXCEPT !.offset = pos].offset <= Len(log1)
    BY <1>m, <2>2, TablesUpdates
  <2> QED BY <1>g, <2>1, <2>2, <2>3
<1>8. CASE Commit
  <2>1. MemTypeOK'
    BY <1>8, <1>m, MemSteps DEF Commit
  <2>2. pos > 0 /\ log1[pos] \in Line
    BY <1>8, LineTypes DEF Commit
  <2>3. cur' \in Block \cup {Begin}
    BY <1>8, <2>2, LineItems DEF Commit
  <2>4. /\ db' = db /\ disk' = db /\ inTxn' \in BOOLEAN /\ pc' = "idle" /\ vpos' = 1
        /\ rejects' \in Seq(Row) /\ confirms' \in Seq(Row) /\ expect' = 0
        /\ UNCHANGED <<log1, pos, values, kvVars, boundVars>>
    BY <1>8, NoRows DEF Commit
  <2> QED BY <1>m, <2>1, <2>3, <2>4
<1> QED BY <1>1, <1>2, <1>3, <1>4, <1>5, <1>6, <1>7, <1>8 DEF Statement

\* The end of the process keeps the types.
LEMMA TypeExit ==
    ASSUME TypeInv, NEW next \in {"down", "aborted"}, Exit(next), crashes' \in Nat,
           db' \in Tables, disk' \in Tables,
           db'.offset <= Len(log1), disk'.offset <= Len(log1)
    PROVE  TypeInv'
<1>1. MemTypeOK'
  BY MemSteps DEF TypeInv, TypeOK, Exit
<1>2. /\ pc' \in PCs /\ pc' \in {"down", "aborted"} /\ pos' = 0 /\ cur' = Begin /\ vpos' = 1
      /\ rejects' \in Seq(Row) /\ confirms' \in Seq(Row) /\ values' \in Seq(Row)
      /\ expect' = 0 /\ inTxn' \in BOOLEAN /\ UNCHANGED <<log1, consumed, kv, kvTip, drops, repeats>>
  BY NoRows DEF Exit, envVars, kvVars, PCs
<1>3. TypeOK'
  BY <1>1, <1>2 DEF TypeInv, TypeOK
<1>4. LineInv'
  BY <1>2 DEF LineInv, TypeInv, TypeOK
<1> QED BY <1>3, <1>4 DEF TypeInv

\* Every other step keeps the types.
LEMMA TypeOther ==
    TypeInv /\ (Failure \/ ConnectionLost \/ RepeatInsert \/ Crash \/ Restart \/ HandleTxlog \/ AppendLine)
        => TypeInv'
<1> SUFFICES ASSUME TypeInv, Failure \/ ConnectionLost \/ RepeatInsert \/ Crash \/ Restart \/ HandleTxlog \/ AppendLine
             PROVE  TypeInv'
  OBVIOUS
<1>m. /\ MemTypeOK /\ db \in Tables /\ disk \in Tables /\ crashes \in Nat
      /\ db.offset <= Len(log1) /\ disk.offset <= Len(log1)
  BY DEF TypeInv, TypeOK, LineInv
<1>1. ASSUME Die PROVE TypeInv'
  BY <1>1, <1>m, TypeExit DEF Die
<1>2. CASE Failure
  <2>1. CASE ClearFails
    BY <1>m, <2>1, TypeExit DEF ClearFails
  <2> QED BY <1>1, <1>2, <2>1 DEF Failure, BlockFails, StatementFails
<1>3. CASE ConnectionLost
  <2>1. MemTypeOK'
    BY <1>3, <1>m, MemSteps DEF ConnectionLost
  <2>2. /\ db' = disk /\ disk' = disk /\ inTxn' \in BOOLEAN /\ drops' = drops + 1
        /\ UNCHANGED <<log1, pc, pos, cur, vpos, rejects, confirms, values, expect,
                       consumed, kv, kvTip, crashes, repeats>>
    BY <1>3 DEF ConnectionLost, envVars, procVars, kvVars
  <2> QED BY <2>1, <2>2 DEF TypeInv, TypeOK, LineInv
<1>4. CASE Crash
  <2>1. crashes' \in Nat /\ Exit("down") /\ db' = disk /\ disk' = disk
    BY <1>4, <1>m DEF Crash
  <2> QED BY <1>m, <2>1, TypeExit
<1>5. CASE Restart
  <2>1. /\ \E next \in {"idle", "down", "aborted"} : DeleteTmp(next)
        /\ cur' \in Block \cup {Begin} /\ pos' \in Nat /\ pos' <= Len(log1) /\ MemTypeOK'
    <3>1. CASE InitLog2
      <4>1. disk.memrepo \in SUBSET Tx /\ disk.offset \in Nat
        BY <1>m DEF Tables
      <4>2. Insert(NothingSpent, disk.memrepo) \in SpentMap
        BY <4>1, InsertType DEF NothingSpent, SpentMap
      <4>3. MemTypeOK'
        BY <3>1, <1>m, <4>1, <4>2 DEF InitLog2, MemTypeOK, SpentMap
      <4> QED BY <3>1, <1>m, <4>1, <4>3 DEF InitLog2, TypeInv, TypeOK
    <3>2. CASE InitWaits \/ LoadFails
      <4>1. MemTypeOK'
        BY <3>2, <1>m, MemSteps DEF InitWaits, LoadFails
      <4> QED BY <3>2, <4>1 DEF InitWaits, LoadFails, TypeInv, TypeOK, LineInv
    <3> QED BY <1>5, <3>1, <3>2 DEF Restart
  <2>2. [disk EXCEPT !.tmp = <<>>] \in Tables /\ [disk EXCEPT !.tmp = <<>>].offset = disk.offset
    BY <1>m, NoRows, TablesUpdates
  <2>3. /\ db' \in Tables /\ disk' \in Tables /\ db'.offset = disk.offset /\ disk'.offset = disk.offset
        /\ pc' \in {"idle", "down", "aborted"}
        /\ UNCHANGED <<log1, vpos, rejects, confirms, values, expect, inTxn,
                       consumed, kv, kvTip, crashes, drops, repeats>>
    BY <2>1, <2>2 DEF DeleteTmp, envVars, kvVars, boundVars
  <2>4. TypeOK'
    BY <2>1, <2>3 DEF TypeInv, TypeOK, PCs
  <2>5. LineInv'
    BY <1>m, <2>1, <2>3 DEF LineInv
  <2> QED BY <2>4, <2>5 DEF TypeInv
<1>6. CASE HandleTxlog
  <2>1. MemTypeOK'
    BY <1>6, <1>m, MemSteps DEF HandleTxlog
  <2>a. disk.txlogs2 \in Seq(Row) /\ consumed \in Nat
    BY <1>m, TablesUpdates DEF TypeInv, TypeOK
  <2>2. disk.txlogs2 \in Seq(Row) /\ consumed + 1 \in 1..Len(disk.txlogs2)
    BY <1>6, <2>a DEF HandleTxlog
  <2>3. disk.txlogs2[consumed + 1] \in Row
    BY <2>2
  <2> DEFINE r == disk.txlogs2[consumed + 1]
  <2>4. r.tx \in Tx \cup Block /\ NewState(r.type) \in {"absent", "unconfirmed", "confirmed"}
    BY <2>3 DEF Row, NewState
  <2>5. kv' \in [Tx \cup Block -> {"absent", "unconfirmed", "confirmed"}]
    BY <1>6, <2>4 DEF HandleTxlog, TypeInv, TypeOK
  <2>6. kvTip' \in Block \cup {Begin}
    BY <1>6, <2>4, BlockTreeAssumption DEF HandleTxlog, TypeInv, TypeOK
  <2>7. /\ consumed' = consumed + 1
        /\ UNCHANGED <<log1, pc, pos, cur, vpos, rejects, confirms, values, expect,
                       db, disk, inTxn, crashes, drops, repeats>>
    BY <1>6 DEF HandleTxlog, envVars, procVars, dbVars, boundVars
  <2> QED BY <2>1, <2>5, <2>6, <2>7 DEF TypeInv, TypeOK, LineInv
<1>7. CASE AppendLine
  <2>1. MemTypeOK'
    BY <1>7, <1>m, MemSteps DEF AppendLine
  <2>2. PICK l \in Line : log1' = Append(log1, l)
    BY <1>7 DEF AppendLine
  <2>3. log1' \in Seq(Line) /\ Len(log1') = Len(log1) + 1 /\ Len(log1) \in Nat
        /\ \A i \in 1..Len(log1) : log1'[i] = log1[i]
    BY <2>2 DEF TypeInv, TypeOK
  <2>4. UNCHANGED <<pc, pos, cur, vpos, rejects, confirms, values, expect,
                    db, disk, inTxn, consumed, kv, kvTip, crashes, drops, repeats>>
    BY <1>7 DEF AppendLine, procVars, dbVars, kvVars, boundVars
  <2>5. TypeOK'
    BY <2>1, <2>3, <2>4 DEF TypeInv, TypeOK
  <2>6. db.offset \in Nat /\ disk.offset \in Nat
    BY <1>m DEF Tables
  <2>7. LineInv'
    BY <2>3, <2>4, <2>6 DEF TypeInv, TypeOK, LineInv
  <2> QED BY <2>5, <2>7 DEF TypeInv
<1>8. CASE RepeatInsert
  <2>1. PICK n \in 1..Len(values) : Write([db EXCEPT !.tmp = db.tmp \o SubSeq(values, 1, n)])
    BY <1>8 DEF RepeatInsert
  <2>2. MemTypeOK' /\ log1' = log1 /\ values \in Seq(Row)
    BY <1>8, <1>m, MemSteps DEF RepeatInsert, envVars, TypeInv, TypeOK
  <2>a. SubSeq(values, 1, n) \in Seq(Row)
    BY <2>2, SubRows
  <2>3. db.tmp \o SubSeq(values, 1, n) \in Seq(Row)
    BY <1>m, <2>a, TablesUpdates, RowsConcat
  <2>4. /\ db' \in Tables /\ disk' \in Tables /\ inTxn' \in BOOLEAN
        /\ db'.offset <= Len(log1') /\ disk'.offset <= Len(log1')
    BY <1>m, <2>1, <2>2, <2>3, WriteType, TablesUpdates
  <2>5. /\ repeats' = repeats + 1
        /\ UNCHANGED <<pc, pos, cur, vpos, rejects, confirms, values, expect,
                       consumed, kv, kvTip, crashes, drops>>
    BY <1>8 DEF RepeatInsert, procVars, kvVars
  <2> QED BY <2>2, <2>4, <2>5 DEF TypeInv, TypeOK, LineInv
<1> QED BY <1>2, <1>3, <1>4, <1>5, <1>6, <1>7, <1>8

\* The inductive step for the types.
LEMMA TypeStep == TypeInv /\ [Next]_vars => TypeInv'
<1> SUFFICES ASSUME TypeInv, [Next]_vars PROVE TypeInv'
  OBVIOUS
<1>1. CASE UNCHANGED vars
  BY <1>1 DEF vars, envVars, memVars, procVars, dbVars, kvVars, boundVars,
              TypeInv, TypeOK, MemTypeOK, LineInv
<1>2. CASE Next
  BY <1>2, TypeHandler, TypeStatement, TypeOther DEF Next, ProducerNext
<1> QED BY <1>1, <1>2

\* Types: every variable keeps its type, a handler only reads lines that exist,
\* and the stored offset never runs ahead of log1.
THEOREM TypeCorrect == Spec => []TypeOK
<1>1. Spec => []TypeInv
  BY TypeInit, TypeStep, PTL DEF Spec
<1>2. TypeInv => TypeOK
  BY DEF TypeInv
<1> QED BY <1>1, <1>2, PTL

-----------------------------------------------------------------------------
(* The map of spent outputs. *)

\* What a block's transaction pushes out includes the spenders of its inputs.
LEMMA ConflictSetComplete ==
    ASSUME MemTypeOK, SpentExact, NEW t \in Tx, NEW o \in Vin[t]
    PROVE  Erase(spentOutputs, ConflictSet(t))[o] = NoTx
<1> DEFINE u == spentOutputs[o]
           S == {spentOutputs[v] : v \in Vin[t]} \ {NoTx}
<1>1. o \in Outpoint /\ u \in Tx \cup {NoTx}
  BY TxGraphAssumption DEF MemTypeOK
<1>2. CASE u = NoTx
  BY <1>1, <1>2 DEF Erase
<1>3. CASE u # NoTx
  <2>1. u \in txs /\ o \in Vin[u]
    BY <1>1, <1>3 DEF SpentExact
  <2>2. u \in S
    BY <1>3
  <2>3. u \in Descendants(S)
    BY <2>1, <2>2 DEF Descendants
  <2>4. o \in Inputs(ConflictSet(t))
    BY <2>1, <2>3 DEF ConflictSet, Inputs
  <2> QED BY <1>1, <2>4 DEF Erase
<1> QED BY <1>2, <1>3

\* The ways the repository changes keep the map exact.
LEMMA MemExact ==
    ASSUME MemTypeOK, SpentExact, NEW S \in SUBSET Tx
    PROVE  /\ /\ AddTxs(S)
              /\ \A t \in S : CanAdd(t)
              /\ \A t, u \in S : t # u => Vin[t] \cap Vin[u] = {}
              => SpentExact'
           /\ RemoveTxs(S) /\ S \subseteq txs => SpentExact'
           /\ \A t \in Tx : ReplaceBy(t) => SpentExact'
           /\ UNCHANGED <<txs, spentOutputs>> => SpentExact'
           /\ MemLost => SpentExact'
<1>0. spentOutputs \in SpentMap /\ txs \in SUBSET Tx /\ Exact(spentOutputs, txs)
  BY DEF MemTypeOK, SpentMap, SpentExact, Exact
<1>1. ASSUME AddTxs(S), \A t \in S : CanAdd(t),
             \A t, u \in S : t # u => Vin[t] \cap Vin[u] = {}
      PROVE  SpentExact'
  <2>1. \A t \in S : \A o \in Vin[t] : spentOutputs[o] = NoTx
    BY <1>1 DEF CanAdd
  <2>2. Exact(Insert(spentOutputs, S), txs \cup S)
    BY <1>0, <1>1, <2>1, InsertExact
  <2> QED BY <1>1, <2>2 DEF AddTxs, SpentExact, Exact
<1>2. ASSUME RemoveTxs(S), S \subseteq txs PROVE SpentExact'
  <2>1. Exact(Erase(spentOutputs, S), txs \ S)
    BY <1>0, <1>2, EraseExact
  <2> QED BY <1>2, <2>1 DEF RemoveTxs, SpentExact, Exact
<1>3. ASSUME NEW t \in Tx, ReplaceBy(t) PROVE SpentExact'
  <2> DEFINE D == ConflictSet(t)
             s == Erase(spentOutputs, D)
             T == txs \ D
  <2>1. D \in SUBSET txs
    BY DescendantsType DEF ConflictSet
  <2>2. s \in SpentMap /\ Exact(s, T)
    BY <1>0, <2>1, EraseExact
  <2>3. \A o \in Vin[t] : s[o] = NoTx
    BY ConflictSetComplete
  <2>4. Exact(Insert(s, {t}), T \cup {t})
    <3> HIDE DEF s, T
    <3>1. T \in SUBSET Tx
      BY <1>0 DEF T
    <3> QED BY <2>2, <2>3, <3>1, InsertExact
  <2>5. spentOutputs' = Insert(s, {t}) /\ txs' = T \cup {t}
    BY <1>3 DEF ReplaceBy
  <2> HIDE DEF s, T
  <2> QED BY <2>4, <2>5 DEF SpentExact, Exact
<1>4. UNCHANGED <<txs, spentOutputs>> => SpentExact'
  BY DEF SpentExact
<1>5. MemLost => SpentExact'
  BY TxGraphAssumption DEF MemLost, NothingSpent, SpentExact
<1> QED BY <1>1, <1>2, <1>3, <1>4, <1>5

\* The transactions of one block spend different outputs.
LEMMA BlockDisjoint ==
    ASSUME NEW b \in Block, NEW t \in BlockTxs(b), NEW u \in BlockTxs(b), t # u
    PROVE  Vin[t] \cap Vin[u] = {}
<1>1. PICK i \in 1..Len(Vtx[b]) : Vtx[b][i] = t
  BY DEF BlockTxs
<1>2. PICK j \in 1..Len(Vtx[b]) : Vtx[b][j] = u
  BY DEF BlockTxs
<1> QED BY <1>1, <1>2, BlockAssumption

\* Every step keeps the map exact.
LEMMA SpentStep == TypeInv /\ SpentExact /\ [Next]_vars => SpentExact'
<1> SUFFICES ASSUME TypeInv, SpentExact, [Next]_vars PROVE SpentExact'
  OBVIOUS
<1>m. MemTypeOK /\ txs \subseteq Tx
  BY DEF TypeInv, TypeOK, MemTypeOK
<1>u. ASSUME UNCHANGED <<txs, spentOutputs>> PROVE SpentExact'
  BY <1>m, <1>u, MemExact
<1>x. ASSUME MemLost PROVE SpentExact'
  BY <1>m, <1>x, MemExact
<1>1. CASE HandleTxAccept
  <2>1. log1[pos + 1].item \in Tx
    BY <1>1, LineTypes, LineItems DEF HandleTxAccept, NextLine
  <2>2. CASE UNCHANGED memVars
    BY <2>2, <1>u DEF memVars
  <2>3. CASE CanAdd(log1[pos + 1].item) /\ AddTxs({log1[pos + 1].item})
    BY <1>m, <2>1, <2>3, MemExact
  <2> QED BY <1>1, <2>2, <2>3 DEF HandleTxAccept, IgnoreLine
<1>2. CASE HandleTxReject
  <2> DEFINE D == Descendants({log1[pos + 1].item})
  <2>1. D \subseteq txs
    BY DescendantsType
  <2>2. CASE UNCHANGED memVars
    BY <2>2, <1>u DEF memVars
  <2>3. CASE RemoveTxs(D)
    <3> HIDE DEF D
    <3> QED BY <1>m, <2>1, <2>3, MemExact
  <2> QED BY <1>2, <2>2, <2>3 DEF HandleTxReject, IgnoreLine
<1>3. CASE ClearMempoolTxs
  BY <1>3, <1>m, MemExact DEF ClearMempoolTxs
<1>4. CASE BlockTx
  <2> DEFINE t == Vtx[log1[pos].item][vpos]
  <2>1. t \in Tx
    BY <1>4, BlockTxType
  <2>2. CASE UNCHANGED memVars
    BY <2>2, <1>u DEF memVars
  <2>3. CASE ReplaceBy(t)
    BY <1>m, <2>1, <2>3, MemExact
  <2> QED BY <1>4, <2>2, <2>3 DEF BlockTx
<1>5. CASE BlockTxsDone
  <2>1. BlockTxs(log1[pos].item) \subseteq txs
    BY <1>5 DEF BlockTxsDone, BlockTxsOK
  <2> QED BY <1>5, <1>m, <2>1, MemExact DEF BlockTxsDone
<1>6. CASE HandleBlockRollback
  <2>1. cur \in Block
    BY <1>6 DEF HandleBlockRollback, RollbackOK, TypeInv, TypeOK
  <2>2. \A t \in BlockTxs(cur) : CanAdd(t)
    BY <1>6 DEF HandleBlockRollback, RollbackOK
  <2>3. \A t, u \in BlockTxs(cur) : t # u => Vin[t] \cap Vin[u] = {}
    BY <2>1, BlockDisjoint
  <2>4. BlockTxs(cur) \subseteq Tx /\ AddTxs(BlockTxs(cur))
    BY <1>6, <2>1, BlockTxsType DEF HandleBlockRollback
  <2> QED BY <1>m, <2>2, <2>3, <2>4, MemExact
<1>7. CASE HandleBlockAccept \/ Statement \/ ConnectionLost \/ RepeatInsert \/ HandleTxlog \/ AppendLine
           \/ InitWaits \/ LoadFails \/ UNCHANGED vars
  BY <1>7, <1>u DEF HandleBlockAccept, Statement, MultiInsert, StartTransaction, InsertAccept,
        UpdateBatchId, SyncInsert, SyncDelete, UpdateLog1FileStatus, Commit, ConnectionLost,
        RepeatInsert, HandleTxlog, AppendLine, InitWaits, LoadFails, memVars, vars
<1>8. CASE Failure \/ Crash
  BY <1>8, <1>x DEF Failure, BlockFails, StatementFails, ClearFails, Die, Exit, Crash
<1>9. CASE InitLog2
  <2>1. disk.memrepo \in SUBSET Tx
    BY DEF TypeInv, TypeOK, Tables
  <2>2. NothingSpent \in SpentMap /\ Exact(NothingSpent, {})
        /\ \A o \in Outpoint : NothingSpent[o] = NoTx
    BY TxGraphAssumption DEF NothingSpent, SpentMap, Exact
  <2>3. \A t \in disk.memrepo : \A o \in Vin[t] : NothingSpent[o] = NoTx
    BY <2>1, <2>2, TxGraphAssumption
  <2>4. \A t, u \in disk.memrepo : t # u => Vin[t] \cap Vin[u] = {}
    BY <1>9 DEF InitLog2, LoadOK
  <2>5. Exact(Insert(NothingSpent, disk.memrepo), {} \cup disk.memrepo)
    BY <2>1, <2>2, <2>3, <2>4, InsertExact
  <2>6. txs' = {} \cup disk.memrepo /\ spentOutputs' = Insert(NothingSpent, disk.memrepo)
    BY <1>9 DEF InitLog2
  <2> QED BY <2>5, <2>6 DEF SpentExact, Exact
<1> QED BY <1>1, <1>2, <1>3, <1>4, <1>5, <1>6, <1>7, <1>8, <1>9
        DEF Next, ProducerNext, Handler, Restart

\* spentOutputs_ never holds a stale entry and never misses one, whatever lines
\* log1 holds, wherever the process dies and however often the connection drops.
THEOREM SpentOutputsExact == Spec => []SpentExact
<1>1. Init => SpentExact
  BY TxGraphAssumption DEF Init, MemInit, NothingSpent, SpentExact
<1>2. Spec => []TypeInv
  BY TypeInit, TypeStep, PTL DEF Spec
<1> QED BY <1>1, <1>2, SpentStep, PTL DEF Spec

-----------------------------------------------------------------------------
(* The memory repository and the table 0_memrepo_txs. *)

\* Two transactions in memory spend different outputs.
LEMMA MemoryDisjoint ==
    ASSUME TypeInv, SpentExact, NEW t \in txs, NEW u \in txs, t # u
    PROVE  Vin[t] \cap Vin[u] = {}
  BY TxGraphAssumption DEF TypeInv, TypeOK, MemTypeOK, SpentExact

\* The part of RepoInv that is not about types or spent outputs.
SyncAll == TxnInv /\ SyncInv /\ LoadOK

\* Handlers build the change of the repository and leave the tables alone.
LEMMA SyncHandler ==
    ASSUME TypeInv, SyncAll, Handler
    PROVE  SyncAll'
<1>0. /\ UNCHANGED <<db, disk, inTxn>>
      /\ pc' \in {"idle", "block", "insert", "begin"} /\ pc \in {"idle", "block"}
  BY DEF Handler, HandleTxAccept, HandleTxReject, ClearMempoolTxs, HandleBlockAccept, BlockTx,
         BlockTxsDone, HandleBlockRollback, NextLine, IgnoreLine, WriteBatch, dbVars
<1>1. TxnInv' /\ LoadOK'
  BY <1>0 DEF SyncAll, TxnInv, LoadOK, InBatch
<1>t. log1 \in Seq(Line) /\ pos \in Nat /\ vpos \in Nat \ {0} /\ cur \in Block \cup {Begin}
  BY DEF TypeInv, TypeOK
<1>i. pc = "idle" => unSyncInsert = {} /\ unSyncDelete = {} /\ db.memrepo = txs
  BY DEF SyncAll, SyncInv, Synced
<1>b. pc = "block" => BlockSync
  BY DEF SyncAll, SyncInv
<1>2. CASE UNCHANGED <<memVars, pc>> /\ pc = "idle"
  BY <1>0, <1>1, <1>2, <1>i DEF SyncAll, SyncInv, Synced, memVars
<1>3. ASSUME NEW S, pc = "idle", AddTxs(S), S \cap txs = {}, pc' \in {"insert", "begin"}
      PROVE  SyncInv'
  BY <1>0, <1>3, <1>i DEF SyncInv, BuiltSync, AddTxs
<1>4. ASSUME NEW S, pc = "idle", RemoveTxs(S), S \subseteq txs, pc' \in {"insert", "begin"}
      PROVE  SyncInv'
  BY <1>0, <1>4, <1>i DEF SyncInv, BuiltSync, RemoveTxs
<1>5. CASE HandleTxAccept
  <2>1. CASE CanAdd(log1[pos + 1].item)
    <3>1. /\ AddTxs({log1[pos + 1].item}) /\ pc = "idle" /\ pc' = "begin"
          /\ {log1[pos + 1].item} \cap txs = {}
      BY <1>5, <2>1 DEF HandleTxAccept, NextLine, WriteBatch, CanAdd, IsExist
    <3> QED BY <1>1, <1>3, <3>1 DEF SyncAll
  <2>2. CASE ~CanAdd(log1[pos + 1].item)
    BY <1>1, <1>2, <1>5, <2>2 DEF HandleTxAccept, NextLine, IgnoreLine, SyncAll
  <2> QED BY <2>1, <2>2
<1>6. CASE HandleTxReject
  <2> DEFINE D == Descendants({log1[pos + 1].item})
  <2>1. CASE IsExist(log1[pos + 1].item)
    <3>1. RemoveTxs(D) /\ pc = "idle" /\ pc' = "insert" /\ D \subseteq txs
      BY <1>6, <2>1, DescendantsType DEF HandleTxReject, NextLine, WriteBatch
    <3> HIDE DEF D
    <3> QED BY <1>1, <1>4, <3>1 DEF SyncAll
  <2>2. CASE ~IsExist(log1[pos + 1].item)
    BY <1>1, <1>2, <1>6, <2>2 DEF HandleTxReject, NextLine, IgnoreLine, SyncAll
  <2> QED BY <2>1, <2>2
<1>7. CASE ClearMempoolTxs
  <2>1. RemoveTxs(txs) /\ pc = "idle" /\ pc' \in {"insert", "begin"}
    BY <1>7 DEF ClearMempoolTxs, NextLine, WriteBatch
  <2> QED BY <1>1, <1>4, <2>1 DEF SyncAll
<1>8. CASE HandleBlockAccept
  <2>1. pc = "idle" /\ pc' = "block" /\ UNCHANGED memVars
    BY <1>8 DEF HandleBlockAccept, NextLine
  <2> QED BY <1>0, <1>1, <1>i, <2>1 DEF SyncAll, SyncInv, BlockSync, memVars
<1>9. CASE BlockTx
  <2> DEFINE v == Vtx[log1[pos].item]
             t == v[vpos]
  <2>1. /\ pc = "block" /\ pc' = "block" /\ vpos' = vpos + 1 /\ vpos <= Len(v)
        /\ UNCHANGED <<log1, pos>>
    BY <1>9 DEF BlockTx, envVars
  <2>2. v \in Seq(Tx) /\ log1[pos].item \in Block
    BY <2>1, TxGraphAssumption DEF TypeInv, LineInv
  <2>3. {v[i] : i \in 1..(vpos' - 1)} = {v[i] : i \in 1..(vpos - 1)} \cup {t}
    BY <1>t, <2>1
  <2>4. t \notin {v[i] : i \in 1..(vpos - 1)}
    <3>1. \A i, j \in 1..Len(v) : i # j => v[i] # v[j]
      BY <2>2, BlockAssumption
    <3>2. \A i \in 1..(vpos - 1) : i \in 1..Len(v) /\ vpos \in 1..Len(v) /\ i # vpos
      BY <1>t, <2>1, <2>2
    <3> HIDE DEF v
    <3> QED BY <3>1, <3>2
  <2>5. /\ unSyncInsert \subseteq {v[i] : i \in 1..(vpos - 1)}
        /\ txs \cup unSyncDelete \subseteq db.memrepo \cup unSyncInsert
        /\ (db.memrepo \cup unSyncInsert) \ unSyncDelete \subseteq txs
        /\ txs \cap unSyncDelete \subseteq unSyncInsert \cap db.memrepo
    BY <1>b, <2>1 DEF BlockSync
  <2>6. BlockSync'
    <3>2. CASE IsExist(t)
      <4>1. UNCHANGED memVars
        BY <1>9, <3>2 DEF BlockTx
      <4> QED BY <1>0, <2>1, <2>3, <2>5, <4>1 DEF BlockSync, memVars
    <3>3. CASE ~IsExist(t)
      <4> DEFINE D == ConflictSet(t)
      <4>1. /\ txs' = (txs \ D) \cup {t} /\ unSyncInsert' = unSyncInsert \cup {t}
            /\ unSyncDelete' = unSyncDelete \cup D
        BY <1>9, <3>3 DEF BlockTx, ReplaceBy
      <4>2. D \subseteq txs /\ t \notin txs
        BY <3>3, DescendantsType DEF ConflictSet, IsExist
      <4> HIDE DEF D
      <4>3. unSyncInsert' \subseteq {v[i] : i \in 1..(vpos' - 1)}
        BY <2>3, <2>5, <4>1
      <4>4. /\ txs' \cup unSyncDelete' \subseteq db.memrepo \cup unSyncInsert'
            /\ (db.memrepo \cup unSyncInsert') \ unSyncDelete' \subseteq txs'
        BY <2>5, <4>1, <4>2
      <4>5. t \notin unSyncInsert
        BY <2>4, <2>5
      <4>6. txs' \cap unSyncDelete' \subseteq unSyncInsert' \cap db.memrepo
        BY <2>5, <4>1, <4>2, <4>5
      <4> QED BY <1>0, <2>1, <4>3, <4>4, <4>6 DEF BlockSync
    <3> QED BY <3>2, <3>3
  <2> QED BY <1>1, <2>1, <2>6 DEF SyncAll, SyncInv
<1>10. CASE BlockTxsDone
  <2> DEFINE B == BlockTxs(log1[pos].item)
  <2>1. RemoveTxs(B) /\ pc = "block" /\ pc' = "insert" /\ B \subseteq txs
    BY <1>10 DEF BlockTxsDone, BlockTxsOK, WriteBatch
  <2>2. BlockSync
    BY <1>b, <2>1
  <2>3. BuiltSync'
    <3> HIDE DEF B
    <3> QED BY <1>0, <2>1, <2>2 DEF BuiltSync, BlockSync, RemoveTxs
  <2> QED BY <1>1, <2>1, <2>3 DEF SyncAll, SyncInv
<1>11. CASE HandleBlockRollback
  <2>1. /\ AddTxs(BlockTxs(cur)) /\ pc = "idle" /\ pc' = "insert"
        /\ BlockTxs(cur) \cap txs = {}
    BY <1>11 DEF HandleBlockRollback, NextLine, WriteBatch, RollbackOK, CanAdd, IsExist
  <2> QED BY <1>1, <1>3, <2>1 DEF SyncAll
<1> QED BY <1>5, <1>6, <1>7, <1>8, <1>9, <1>10, <1>11 DEF Handler

\* Statements write the tables; the committed ones change only at COMMIT.
LEMMA SyncStatement ==
    ASSUME TypeInv, SpentExact, SyncAll, Statement
    PROVE  SyncAll'
<1>t. /\ db \in Tables /\ disk \in Tables /\ inTxn \in BOOLEAN
      /\ db.memrepo \subseteq Tx /\ txs \subseteq Tx
  BY DEF TypeInv, TypeOK, Tables, MemTypeOK
<1>x. (inTxn <=> pc \in InBatch) /\ (~inTxn => db = disk)
  BY DEF SyncAll, TxnInv
<1>l. LoadOK
  BY DEF SyncAll
<1>1. CASE MultiInsert
  <2>1. PICK n \in 1..Len(values) :
          /\ Write([db EXCEPT !.tmp = db.tmp \o SubSeq(values, 1, n)])
          /\ Goto(IF n = Len(values) THEN "begin" ELSE "insert")
    BY <1>1 DEF MultiInsert
  <2>2. /\ pc = "insert" /\ pc' \in {"insert", "begin"} /\ ~inTxn /\ inTxn' = inTxn
        /\ UNCHANGED memVars
    BY <1>1, <1>x, <2>1 DEF MultiInsert, Goto, Write, InBatch
  <2>3. db' = disk' /\ db'.memrepo = db.memrepo /\ disk'.memrepo = disk.memrepo
    BY <1>t, <1>x, <2>1, <2>2 DEF Write, Tables
  <2>4. TxnInv' /\ LoadOK'
    BY <1>l, <2>2, <2>3 DEF TxnInv, LoadOK, InBatch
  <2>5. SyncInv'
    BY <2>2, <2>3 DEF SyncAll, SyncInv, BuiltSync, memVars
  <2> QED BY <2>4, <2>5 DEF SyncAll
<1>2. CASE StartTransaction
  <2>1. /\ pc = "begin" /\ pc' = "rows" /\ inTxn' = TRUE /\ UNCHANGED <<memVars, db, disk>>
    BY <1>2 DEF StartTransaction, Goto
  <2>2. TxnInv' /\ LoadOK'
    BY <1>l, <2>1 DEF TxnInv, LoadOK, InBatch
  <2>3. SyncInv'
    BY <2>1 DEF SyncAll, SyncInv, BuiltSync, memVars
  <2> QED BY <2>2, <2>3 DEF SyncAll
<1>w. ASSUME NEW d, NEW next \in InBatch, pc \in InBatch, Write(d), Goto(next)
      PROVE  TxnInv' /\ LoadOK' /\ db' = d /\ pc' = next
  <2>1. inTxn /\ inTxn' = inTxn /\ disk' = disk /\ pc' = next /\ db' = d
    BY <1>w, <1>x DEF Write, Goto
  <2> QED BY <1>l, <1>w, <2>1 DEF TxnInv, LoadOK
<1>3. CASE InsertAccept
  <2>1. /\ pc = "rows" /\ UNCHANGED memVars /\ Goto("memInsert")
        /\ Write([db EXCEPT !.txlogs2 = db.txlogs2 \o values])
    BY <1>3 DEF InsertAccept
  <2>2. TxnInv' /\ LoadOK' /\ db'.memrepo = db.memrepo /\ pc' = "memInsert"
    BY <1>t, <1>w, <2>1 DEF InBatch, Tables
  <2> QED BY <2>1, <2>2 DEF SyncAll, SyncInv, BuiltSync, memVars
<1>4. CASE UpdateBatchId
  <2>1. /\ pc = "rows" /\ UNCHANGED memVars /\ Goto("memInsert")
        /\ Write([db EXCEPT !.txlogs2 = db.txlogs2 \o db.tmp, !.tmp = <<>>])
    BY <1>4 DEF UpdateBatchId
  <2>2. TxnInv' /\ LoadOK' /\ db'.memrepo = db.memrepo /\ pc' = "memInsert"
    BY <1>t, <1>w, <2>1 DEF InBatch, Tables
  <2> QED BY <2>1, <2>2 DEF SyncAll, SyncInv, BuiltSync, memVars
<1>5. CASE SyncInsert
  <2>1. /\ pc = "memInsert" /\ Goto("memDelete") /\ unSyncInsert \cap db.memrepo = {}
        /\ Write([db EXCEPT !.memrepo = db.memrepo \cup unSyncInsert])
        /\ unSyncInsert' = {} /\ UNCHANGED <<txs, unSyncDelete>>
    BY <1>5 DEF SyncInsert
  <2>2. TxnInv' /\ LoadOK' /\ db'.memrepo = db.memrepo \cup unSyncInsert /\ pc' = "memDelete"
    BY <1>t, <1>w, <2>1 DEF InBatch, Tables
  <2>3. txs = (db.memrepo \cup unSyncInsert) \ unSyncDelete
    BY <2>1 DEF SyncAll, SyncInv, BuiltSync
  <2> QED BY <2>1, <2>2, <2>3 DEF SyncAll, SyncInv
<1>6. CASE SyncDelete
  <2>1. /\ pc = "memDelete" /\ Goto("status")
        /\ Write([db EXCEPT !.memrepo = db.memrepo \ unSyncDelete])
        /\ unSyncDelete' = {} /\ UNCHANGED <<txs, unSyncInsert>>
    BY <1>6 DEF SyncDelete
  <2>2. TxnInv' /\ LoadOK' /\ db'.memrepo = db.memrepo \ unSyncDelete /\ pc' = "status"
    BY <1>t, <1>w, <2>1 DEF InBatch, Tables
  <2>3. txs = db.memrepo \ unSyncDelete /\ unSyncInsert = {}
    BY <2>1 DEF SyncAll, SyncInv
  <2> QED BY <2>1, <2>2, <2>3 DEF SyncAll, SyncInv, Synced
<1>7. CASE UpdateLog1FileStatus
  <2>1. /\ pc = "status" /\ Goto("commit") /\ Write([db EXCEPT !.offset = pos])
        /\ UNCHANGED memVars
    BY <1>7 DEF UpdateLog1FileStatus
  <2>2. TxnInv' /\ LoadOK' /\ db'.memrepo = db.memrepo /\ pc' = "commit"
    BY <1>t, <1>w, <2>1 DEF InBatch, Tables
  <2> QED BY <2>1, <2>2 DEF SyncAll, SyncInv, Synced, memVars
<1>8. CASE Commit
  <2>1. /\ pc = "commit" /\ pc' = "idle" /\ db' = db /\ disk' = db /\ inTxn' = FALSE
        /\ UNCHANGED memVars
    BY <1>8 DEF Commit
  <2>2. Synced
    BY <2>1 DEF SyncAll, SyncInv
  <2>3. LoadOK'
    BY <2>1, <2>2, MemoryDisjoint DEF Synced, LoadOK
  <2>4. TxnInv'
    BY <2>1 DEF TxnInv, InBatch
  <2>5. SyncInv'
    BY <2>1, <2>2 DEF SyncInv, Synced, memVars
  <2> QED BY <2>3, <2>4, <2>5 DEF SyncAll
<1> QED BY <1>1, <1>2, <1>3, <1>4, <1>5, <1>6, <1>7, <1>8 DEF Statement

\* The end of the process, its restart and the other programs.
LEMMA SyncOther ==
    ASSUME TypeInv, SpentExact, SyncAll, drops' = 0,
           Failure \/ ConnectionLost \/ RepeatInsert \/ Crash \/ Restart \/ HandleTxlog \/ AppendLine
    PROVE  SyncAll'
<1>t. disk \in Tables /\ pos \in Nat /\ pos <= Len(log1) /\ log1 \in Seq(Line) /\ drops \in Nat
  BY DEF TypeInv, TypeOK, LineInv
<1>x. (inTxn <=> pc \in InBatch) /\ (~inTxn => db = disk) /\ LoadOK
  BY DEF SyncAll, TxnInv
<1>1. ASSUME NEW next \in {"down", "aborted"}, Exit(next), db' = disk', LoadOK'
      PROVE  SyncAll'
  <2>1. /\ pc' \in {"down", "aborted"} /\ inTxn' = FALSE
        /\ txs' = {} /\ unSyncInsert' = {} /\ unSyncDelete' = {}
    BY <1>1 DEF Exit, MemLost
  <2>2. TxnInv'
    BY <1>1, <2>1 DEF TxnInv, InBatch
  <2>3. SyncInv'
    BY <2>1 DEF SyncInv
  <2> QED BY <1>1, <2>2, <2>3 DEF SyncAll
<1>2. CASE Failure
  <2>1. CASE Die
    BY <1>1, <1>x, <2>1 DEF Die, LoadOK
  <2>2. CASE ClearFails
    <3>1. pc = "commit" /\ Exit("aborted") /\ disk' = db /\ db' = db
      BY <2>2 DEF ClearFails
    <3>2. db.memrepo = txs
      BY <3>1 DEF SyncAll, SyncInv, Synced
    <3>3. LoadOK'
      BY <3>1, <3>2, MemoryDisjoint DEF LoadOK
    <3> QED BY <1>1, <3>1, <3>3
  <2> QED BY <1>2, <2>1, <2>2 DEF Failure, BlockFails, StatementFails
<1>3. CASE ConnectionLost
  BY <1>3, <1>t DEF ConnectionLost
<1>4. CASE Crash
  BY <1>1, <1>4, <1>x DEF Crash, LoadOK
<1>5. CASE Restart
  <2>0. PICK next \in {"idle", "down", "aborted"} : DeleteTmp(next)
    BY <1>5 DEF Restart, InitLog2, InitWaits, LoadFails
  <2>1. /\ pc \in {"down", "aborted"} /\ pc' \in {"idle", "down", "aborted"} /\ inTxn' = inTxn
        /\ db' = disk' /\ disk' = [disk EXCEPT !.tmp = <<>>]
    BY <2>0 DEF DeleteTmp
  <2>2. disk'.memrepo = disk.memrepo
    BY <1>t, <2>1 DEF Tables
  <2>3. txs = {} /\ unSyncInsert = {} /\ unSyncDelete = {} /\ ~inTxn
    BY <1>x, <2>1 DEF SyncAll, SyncInv, InBatch
  <2>4. TxnInv' /\ LoadOK'
    BY <1>x, <2>1, <2>2, <2>3 DEF TxnInv, LoadOK, InBatch
  <2>5. CASE InitLog2
    <3>1. pc' = "idle" /\ txs' = disk.memrepo /\ unSyncInsert' = {} /\ unSyncDelete' = {}
      BY <2>3, <2>5 DEF InitLog2, DeleteTmp
    <3> QED BY <2>1, <2>2, <2>4, <3>1 DEF SyncAll, SyncInv, Synced
  <2>6. CASE InitWaits \/ LoadFails
    <3>1. /\ pc' \in {"down", "aborted"}
          /\ txs' = {} /\ unSyncInsert' = {} /\ unSyncDelete' = {}
      BY <2>3, <2>6 DEF InitWaits, LoadFails, DeleteTmp, memVars
    <3> QED BY <2>4, <3>1 DEF SyncAll, SyncInv
  <2> QED BY <1>5, <2>5, <2>6 DEF Restart
<1>6. CASE HandleTxlog
  BY <1>6 DEF HandleTxlog, envVars, memVars, procVars, dbVars, SyncAll, TxnInv, SyncInv,
              LoadOK, Synced, BlockSync, BuiltSync
<1>7. CASE AppendLine
  <2>1. PICK l \in Line : log1' = Append(log1, l)
    BY <1>7 DEF AppendLine
  <2>2. UNCHANGED <<txs, unSyncInsert, unSyncDelete, pc, pos, vpos, db, disk, inTxn>>
    BY <1>7 DEF AppendLine, memVars, procVars, dbVars
  <2>3. pc = "block" => log1'[pos] = log1[pos]
    <3>1. pc = "block" => pos \in 1..Len(log1)
      BY <1>t DEF TypeInv, LineInv
    <3> QED BY <1>t, <2>1, <3>1
  <2>4. BlockSync /\ pc = "block" => BlockSync'
    BY <2>2, <2>3 DEF BlockSync
  <2>5. TxnInv' /\ LoadOK'
    BY <2>2 DEF SyncAll, TxnInv, LoadOK
  <2>6. SyncInv'
    BY <2>2, <2>4 DEF SyncAll, SyncInv, Synced, BuiltSync
  <2> QED BY <2>5, <2>6 DEF SyncAll
<1>8. CASE RepeatInsert
  <2>1. PICK n \in 1..Len(values) : Write([db EXCEPT !.tmp = db.tmp \o SubSeq(values, 1, n)])
    BY <1>8 DEF RepeatInsert
  <2>2. pc = "insert" /\ UNCHANGED <<log1, memVars, procVars>> /\ ~inTxn /\ db \in Tables
    BY <1>8, <1>x DEF RepeatInsert, envVars, InBatch, TypeInv, TypeOK
  <2>3. /\ inTxn' = inTxn /\ db' = disk'
        /\ db'.memrepo = db.memrepo /\ disk'.memrepo = disk.memrepo
    BY <1>x, <2>1, <2>2 DEF Write, Tables
  <2>4. TxnInv' /\ LoadOK'
    BY <1>x, <2>2, <2>3 DEF TxnInv, LoadOK, InBatch, procVars
  <2>5. SyncInv'
    BY <2>2, <2>3 DEF SyncAll, SyncInv, BuiltSync, memVars, procVars
  <2> QED BY <2>4, <2>5 DEF SyncAll
<1> QED BY <1>2, <1>3, <1>4, <1>5, <1>6, <1>7, <1>8

\* Lost connections are counted and never forgotten.
LEMMA DropsStay ==
    ASSUME TypeInv, [Next]_vars, drops' = 0
    PROVE  drops = 0
<1>t. drops \in Nat
  BY DEF TypeInv, TypeOK
<1>1. CASE UNCHANGED vars
  BY <1>1 DEF vars, boundVars
<1>2. CASE Handler
  BY <1>2 DEF Handler, HandleTxAccept, HandleTxReject, ClearMempoolTxs, HandleBlockAccept,
              BlockTx, BlockTxsDone, HandleBlockRollback, NextLine, boundVars
<1>3. CASE Statement
  BY <1>3 DEF Statement, MultiInsert, StartTransaction, InsertAccept, UpdateBatchId, SyncInsert,
              SyncDelete, UpdateLog1FileStatus, Commit, Goto, boundVars
<1>4. CASE Failure \/ Crash
  BY <1>4 DEF Failure, BlockFails, StatementFails, ClearFails, Crash, Die, Exit
<1>5. CASE Restart
  BY <1>5 DEF Restart, InitLog2, InitWaits, LoadFails, DeleteTmp, boundVars
<1>6. CASE ConnectionLost \/ RepeatInsert \/ HandleTxlog \/ AppendLine
  BY <1>t, <1>6 DEF ConnectionLost, RepeatInsert, HandleTxlog, AppendLine, boundVars
<1> QED BY <1>1, <1>2, <1>3, <1>4, <1>5, <1>6 DEF Next, ProducerNext

\* The inductive step for the repository.
LEMMA SyncStep ==
    ASSUME TypeInv, SpentExact, drops = 0 => SyncAll, [Next]_vars
    PROVE  (drops = 0 => SyncAll)'
<1> SUFFICES ASSUME drops' = 0 PROVE SyncAll'
  OBVIOUS
<1>0. SyncAll
  BY DropsStay
<1>1. CASE UNCHANGED vars
  BY <1>0, <1>1 DEF vars, envVars, memVars, procVars, dbVars, SyncAll, TxnInv, SyncInv,
              LoadOK, Synced, BlockSync, BuiltSync
<1>2. CASE Next
  BY <1>0, <1>2, SyncHandler, SyncStatement, SyncOther DEF Next, ProducerNext
<1> QED BY <1>1, <1>2

\* RepoInv holds for any lines, any crashes and any repeated statements; what it
\* says of the transaction ends with the first connection lost inside one.
THEOREM RepoInvHolds == Spec => []RepoInv
<1>1. Init => (drops = 0 => SyncAll)
  BY DEF Init, MemInit, EmptyTables, SyncAll, TxnInv, SyncInv, Synced, LoadOK, InBatch
<1>2. Spec => []TypeInv
  BY TypeInit, TypeStep, PTL DEF Spec
<1>3. TypeInv /\ SpentExact /\ (drops = 0 => SyncAll) /\ [Next]_vars => (drops = 0 => SyncAll)'
  BY SyncStep
<1>4. Spec => [](drops = 0 => SyncAll)
  BY <1>1, <1>2, <1>3, SpentOutputsExact, PTL DEF Spec
<1>5. TypeInv /\ SpentExact /\ (drops = 0 => SyncAll) => RepoInv
  BY DEF TypeInv, SyncAll, RepoInv
<1> QED BY <1>2, <1>4, <1>5, SpentOutputsExact, PTL

\* Between two lines the table 0_memrepo_txs equals the memory repository, so a
\* restart resumes with exactly the transactions that were in memory, unless a
\* connection was lost inside a transaction.
THEOREM RepositorySurvives == Spec => []RepoSynced
<1>1. RepoInv => RepoSynced
  BY DEF RepoInv, TxnInv, SyncInv, Synced, RepoSynced, InBatch
<1> QED BY <1>1, RepoInvHolds, PTL

\* The committed table never holds a double spend, so the load of initLog2()
\* cannot throw, unless a connection was lost inside a transaction.
THEOREM RestartLoads == Spec => []LoadNeverFails
<1>1. RepoInv => LoadNeverFails
  BY DEF RepoInv, LoadNeverFails
<1> QED BY <1>1, RepoInvHolds, PTL

-----------------------------------------------------------------------------
(* The rows and the table 0_memrepo_txs. *)

\* The transactions and blocks that have a row.
RowTxs(r) == {r[i].tx : i \in 1..Len(r)}

\* T is what the rows leave accepted and unconfirmed.
Leaves(r, T) == \A t \in Tx : t \in T <=> LeftUnconfirmed(r, t)

\* The rows of a block that is being handled, so far: what it pushed out of
\* memory is rejected, its transactions are confirmed.
BlockRows ==
    /\ vpos <= Len(Vtx[log1[pos].item]) + 1
    /\ RowTxs(rejects) = unSyncDelete
    /\ \A i \in 1..Len(rejects) : rejects[i].type = "reject"
    /\ RowTxs(confirms) \cap Tx = {Vtx[log1[pos].item][i] : i \in 1..(vpos - 1)}
    /\ \A t \in Tx : ~LeftUnconfirmed(confirms, t)

\* A batch whose row count will be found right leaves what is in memory.  An
\* INSERT that MySQL ran twice only ever makes the count too high.
BatchRows ==
    /\ Len(db.tmp) + Len(values) >= expect
    /\ Len(db.tmp) + Len(values) = expect => Leaves(db.txlogs2 \o (db.tmp \o values), txs)
    /\ expect = 0 => db.tmp = <<>> /\ values = <<>>
    /\ pc \in {"begin", "rows"} /\ values # <<>> => db.tmp = <<>> /\ Len(values) = expect

RowsInv ==
    /\ TablesMatch
    /\ pc \in {"idle", "block", "memInsert", "memDelete", "status", "commit"} => db.tmp = <<>>
    /\ pc = "block" => BlockRows
    /\ pc \in {"insert", "begin", "rows"} => BatchRows
    /\ pc \in {"memInsert", "memDelete", "status", "commit"} => Leaves(db.txlogs2, txs)

\* Where the elements of a concatenation come from.
LEMMA ConcatParts ==
    ASSUME NEW R, NEW q \in Seq(R), NEW r \in Seq(R)
    PROVE  /\ Len(q \o r) = Len(q) + Len(r)
           /\ \A i \in 1..Len(q) : (q \o r)[i] = q[i]
           /\ \A i \in 1..Len(r) : (q \o r)[Len(q) + i] = r[i]
<1>1. \A i \in 1..Len(r) : /\ Len(q) + i \in 1..(Len(q) + Len(r)) /\ ~(Len(q) + i <= Len(q))
                           /\ Len(q) + i - Len(q) = i
  OBVIOUS
<1>2. \A i \in 1..Len(q) : i \in 1..(Len(q) + Len(r)) /\ i <= Len(q)
  OBVIOUS
<1> QED BY <1>1, <1>2, ConcatProperties

\* The last row of a transaction in two tables of rows, one behind the other, is
\* its last row in the second table that has any.
LEMMA LeftConcat ==
    ASSUME NEW q \in Seq(Row), NEW r \in Seq(Row), NEW t
    PROVE  /\ t \in RowTxs(r) => (LeftUnconfirmed(q \o r, t) <=> LeftUnconfirmed(r, t))
           /\ t \notin RowTxs(r) => (LeftUnconfirmed(q \o r, t) <=> LeftUnconfirmed(q, t))
<1>1. PICK m \in Nat, n \in Nat : m = Len(q) /\ n = Len(r)
  OBVIOUS
<1>2. PICK s : /\ s = q \o r /\ Len(s) = m + n
               /\ \A i \in 1..m : s[i] = q[i]
               /\ \A i \in 1..n : s[m + i] = r[i]
  <2>1. /\ Len(q \o r) = Len(q) + Len(r)
        /\ \A i \in 1..Len(q) : (q \o r)[i] = q[i]
        /\ \A i \in 1..Len(r) : (q \o r)[Len(q) + i] = r[i]
    BY ConcatParts
  <2>2. PICK s : s = q \o r
    OBVIOUS
  <2> QED BY <1>1, <2>1, <2>2
<1>3. \A i \in 1..(m + n) : i \in 1..m \/ (\E k \in 1..n : i = m + k)
  <2>1. ASSUME NEW i \in 1..(m + n), i \notin 1..m
        PROVE  i - m \in 1..n /\ i = m + (i - m)
    BY <2>1
  <2> QED BY <2>1
<1>4. /\ \A i : i \in RowsOf(q, t) <=> i \in 1..m /\ s[i].tx = t
      /\ \A i : i \in RowsOf(r, t) <=> i \in 1..n /\ s[m + i].tx = t
      /\ \A i : i \in RowsOf(s, t) <=> i \in 1..(m + n) /\ s[i].tx = t
  BY <1>1, <1>2 DEF RowsOf
<1>5. \A i \in 1..m : i \in 1..(m + n)
  OBVIOUS
<1>6. \A i \in 1..n : m + i \in 1..(m + n)
  OBVIOUS
<1>7. CASE t \in RowTxs(r)
  <2>1. PICK k \in 1..n : s[m + k].tx = t
    BY <1>1, <1>2, <1>7 DEF RowTxs
  <2>2. ASSUME NEW i \in RowsOf(r, t), \A j \in RowsOf(r, t) : j <= i,
               r[i].type \in {"accept", "unconfirm"}
        PROVE  LeftUnconfirmed(s, t)
    <3>1. i \in 1..n /\ m + i \in RowsOf(s, t) /\ s[m + i] = r[i]
      BY <1>2, <1>4, <1>6
    <3>2. ASSUME NEW j \in RowsOf(s, t) PROVE j <= m + i
      <4>1. CASE j \in 1..m
        BY <3>1, <4>1
      <4>2. ASSUME NEW l \in 1..n, j = m + l PROVE j <= m + i
        <5>1. l <= i
          BY <1>4, <2>2, <4>2
        <5> QED BY <3>1, <4>2, <5>1
      <4> QED BY <1>3, <1>4, <4>1, <4>2
    <3> QED BY <2>2, <3>1, <3>2 DEF LeftUnconfirmed
  <2>3. ASSUME NEW i \in RowsOf(s, t), \A j \in RowsOf(s, t) : j <= i,
               s[i].type \in {"accept", "unconfirm"}
        PROVE  LeftUnconfirmed(r, t)
    <3>1. m + k <= i /\ i \in 1..(m + n)
      BY <1>4, <1>6, <2>1, <2>3
    <3>2. PICK l \in 1..n : i = m + l
      <4>1. i \notin 1..m
        BY <3>1
      <4> QED BY <1>3, <3>1, <4>1
    <3>3. l \in RowsOf(r, t) /\ r[l] = s[i]
      BY <1>2, <1>4, <2>3, <3>2
    <3>4. ASSUME NEW j \in RowsOf(r, t) PROVE j <= l
      <4>1. j \in 1..n /\ m + j \in RowsOf(s, t)
        BY <1>4, <1>6
      <4>2. m + j <= m + l
        BY <2>3, <3>2, <4>1
      <4> QED BY <4>1, <4>2
    <3> QED BY <2>3, <3>3, <3>4 DEF LeftUnconfirmed
  <2>4. LeftUnconfirmed(s, t) <=> LeftUnconfirmed(r, t)
    BY <2>2, <2>3 DEF LeftUnconfirmed
  <2> QED BY <1>2, <1>7, <2>4
<1>8. CASE t \notin RowTxs(r)
  <2>1. \A k \in 1..n : s[m + k].tx # t
    BY <1>1, <1>2, <1>8 DEF RowTxs
  <2>2. \A i \in RowsOf(s, t) : i \in 1..m
    BY <1>3, <1>4, <2>1
  <2>3. RowsOf(s, t) = RowsOf(q, t)
    BY <1>4, <1>5, <2>2
  <2>4. \A i \in RowsOf(q, t) : s[i] = q[i]
    BY <1>2, <1>4
  <2>5. LeftUnconfirmed(s, t) <=> LeftUnconfirmed(q, t)
    BY <2>3, <2>4 DEF LeftUnconfirmed
  <2> QED BY <1>2, <1>8, <2>5
<1> QED BY <1>7, <1>8

\* The transactions of two tables of rows.
LEMMA RowTxsConcat ==
    ASSUME NEW q \in Seq(Row), NEW r \in Seq(Row)
    PROVE  RowTxs(q \o r) = RowTxs(q) \cup RowTxs(r)
<1>1. PICK m \in Nat, n \in Nat : m = Len(q) /\ n = Len(r)
  OBVIOUS
<1>2. PICK s : /\ s = q \o r /\ Len(s) = m + n
               /\ \A i \in 1..m : s[i] = q[i]
               /\ \A i \in 1..n : s[m + i] = r[i]
  <2>1. /\ Len(q \o r) = Len(q) + Len(r)
        /\ \A i \in 1..Len(q) : (q \o r)[i] = q[i]
        /\ \A i \in 1..Len(r) : (q \o r)[Len(q) + i] = r[i]
    BY ConcatParts
  <2>2. PICK s : s = q \o r
    OBVIOUS
  <2> QED BY <1>1, <2>1, <2>2
<1>3. \A i \in 1..(m + n) : i \in 1..m \/ (\E k \in 1..n : i = m + k)
  <2>1. ASSUME NEW i \in 1..(m + n), i \notin 1..m
        PROVE  i - m \in 1..n /\ i = m + (i - m)
    BY <2>1
  <2> QED BY <2>1
<1>4. (\A i \in 1..m : i \in 1..(m + n)) /\ (\A i \in 1..n : m + i \in 1..(m + n))
  OBVIOUS
<1>5. ASSUME NEW i \in 1..(m + n) PROVE s[i].tx \in RowTxs(q) \cup RowTxs(r)
  <2>1. CASE i \in 1..m
    BY <1>1, <1>2, <2>1 DEF RowTxs
  <2>2. ASSUME NEW k \in 1..n, i = m + k PROVE s[i].tx \in RowTxs(r)
    BY <1>1, <1>2, <2>2 DEF RowTxs
  <2> QED BY <1>3, <2>1, <2>2
<1>6. RowTxs(q) \subseteq RowTxs(s) /\ RowTxs(r) \subseteq RowTxs(s)
  BY <1>1, <1>2, <1>4 DEF RowTxs
<1>7. RowTxs(s) \subseteq RowTxs(q) \cup RowTxs(r)
  BY <1>2, <1>5 DEF RowTxs
<1> QED BY <1>2, <1>6, <1>7

\* Rows that only reject leave nothing.
LEMMA RejectsLeaveNone ==
    ASSUME NEW r \in Seq(Row), \A i \in 1..Len(r) : r[i].type = "reject", NEW t
    PROVE  ~LeftUnconfirmed(r, t)
  BY DEF LeftUnconfirmed, RowsOf

\* The rows of a removal order reject exactly the removed transactions.
LEMMA RejectRowsFacts ==
    ASSUME NEW S \in SUBSET Tx, NEW q \in LeafFirst(S), q \in Seq(Tx)
    PROVE  /\ RowTxs(RejectRows(q)) = S
           /\ \A i \in 1..Len(RejectRows(q)) : RejectRows(q)[i].type = "reject"
<1>1. PICK n : n = Cardinality(S)
  OBVIOUS
<1>2. q \in [1..n -> S] /\ \A t \in S : \E i \in 1..n : q[i] = t
  BY <1>1 DEF LeafFirst
<1>3. 1..Len(q) = 1..n
  BY <1>2
<1>4. PICK r : /\ r = RejectRows(q) /\ Len(r) = Len(q)
               /\ \A i \in 1..Len(q) : r[i] = TxRow("reject", q[i])
  <2>1. \A f : f = [i \in 1..Len(q) |-> TxRow("reject", q[i])] =>
           Len(f) = Len(q) /\ \A i \in 1..Len(q) : f[i] = TxRow("reject", q[i])
    OBVIOUS
  <2> QED BY <2>1 DEF RejectRows
<1>5. \A i \in 1..Len(q) : r[i].type = "reject" /\ r[i].tx = q[i]
  <2>1. \A x : TxRow("reject", x).type = "reject" /\ TxRow("reject", x).tx = x
    BY DEF TxRow
  <2> QED BY <1>4, <2>1
<1>6. RowTxs(r) = {q[i] : i \in 1..n}
  BY <1>3, <1>4, <1>5 DEF RowTxs
<1>7. {q[i] : i \in 1..n} = S
  BY <1>2
<1> QED BY <1>4, <1>5, <1>6, <1>7

\* The rows of an undone block leave its transactions, and no others, unconfirmed.
LEMMA UnconfirmRowsFacts ==
    ASSUME NEW b \in Block
    PROVE  /\ RowTxs(UnconfirmRows(b)) \cap Tx = BlockTxs(b)
           /\ \A t \in BlockTxs(b) : LeftUnconfirmed(UnconfirmRows(b), t)
<1>1. PICK v \in Seq(Tx), n \in Nat : v = Vtx[b] /\ n = Len(v)
  BY TxGraphAssumption
<1>2. PICK s : s = [i \in 1..n |-> TxRow("unconfirm", v[n + 1 - i])]
  OBVIOUS
<1>3. \A i \in 1..n : n + 1 - i \in 1..n /\ n + 1 - (n + 1 - i) = i
  OBVIOUS
<1>4. \A i \in 1..n : v[i] \in Tx
  BY <1>1
<1>5. s \in Seq(Row) /\ Len(s) = n
  BY <1>2, <1>3, <1>4 DEF TxRow, Row
<1>6. \A i \in 1..n : s[i].tx = v[n + 1 - i] /\ s[i].type = "unconfirm"
  BY <1>2 DEF TxRow
<1>7. RowTxs(s) = BlockTxs(b)
  <2>1. RowTxs(s) = {v[n + 1 - i] : i \in 1..n}
    BY <1>5, <1>6 DEF RowTxs
  <2>2. {v[n + 1 - i] : i \in 1..n} = {v[i] : i \in 1..n}
    BY <1>3
  <2> QED BY <1>1, <2>1, <2>2 DEF BlockTxs
<1>8. PICK c : c = <<TxRow("unconfirm", b), TxRow("reject", b)>>
  OBVIOUS
<1>9. c \in Seq(Row) /\ RowTxs(c) = {b}
  BY <1>8 DEF TxRow, Row, RowTxs
<1>10. UnconfirmRows(b) = s \o c
  BY <1>1, <1>2, <1>8 DEF UnconfirmRows
<1>11. b \notin Tx /\ BlockTxs(b) \subseteq Tx
  BY <1>1, <1>4, TxGraphAssumption DEF BlockTxs
<1>12. RowTxs(s \o c) = BlockTxs(b) \cup {b}
  BY <1>5, <1>7, <1>9, RowTxsConcat
<1>13. ASSUME NEW t \in BlockTxs(b) PROVE LeftUnconfirmed(s \o c, t)
  <2>1. t \notin RowTxs(c)
    BY <1>9, <1>11
  <2>2. LeftUnconfirmed(s \o c, t) <=> LeftUnconfirmed(s, t)
    BY <1>5, <1>9, <2>1, LeftConcat
  <2> DEFINE T == RowsOf(s, t)
             U == {n - i : i \in T}
  <2>3. T \subseteq 1..n /\ T # {}
    BY <1>5, <1>7 DEF RowsOf, RowTxs
  <2>4. PICK j \in T : t = t
    BY <2>3
  <2>5. U \in SUBSET Nat /\ n - j \in U
    BY <2>3, <2>4
  <2>6. PICK u \in U : \A w \in U : u <= w
    <3> HIDE DEF U
    <3> QED BY <2>5, NatMin
  <2>7. PICK i \in T : u = n - i
    BY <2>6
  <2>8. \A k \in T : k <= i
    <3> SUFFICES ASSUME NEW k \in T PROVE k <= i
      OBVIOUS
    <3>1. n - k \in U /\ k \in 1..n /\ i \in 1..n
      BY <2>3
    <3>2. n - i <= n - k
      BY <2>6, <2>7, <3>1
    <3> QED BY <3>1, <3>2
  <2>9. s[i].type = "unconfirm"
    BY <1>6, <2>3
  <2> QED BY <2>2, <2>8, <2>9 DEF LeftUnconfirmed
<1> QED BY <1>10, <1>11, <1>12, <1>13

\* What two tables leave: the second one decides about its own transactions.
LEMMA LeavesAfter ==
    ASSUME NEW q \in Seq(Row), NEW r \in Seq(Row), NEW T, NEW U, Leaves(q, T),
           \A t \in Tx : t \in RowTxs(r) => (t \in U <=> LeftUnconfirmed(r, t)),
           \A t \in Tx : t \notin RowTxs(r) => (t \in U <=> t \in T)
    PROVE  Leaves(q \o r, U)
<1> SUFFICES ASSUME NEW t \in Tx PROVE t \in U <=> LeftUnconfirmed(q \o r, t)
  BY DEF Leaves
<1>1. CASE t \in RowTxs(r)
  BY <1>1, LeftConcat
<1>2. CASE t \notin RowTxs(r)
  <2>1. LeftUnconfirmed(q \o r, t) <=> LeftUnconfirmed(q, t)
    BY <1>2, LeftConcat
  <2> QED BY <1>2, <2>1 DEF Leaves
<1> QED BY <1>1, <1>2

\* A removal order removes what its rows reject.
LEMMA LeavesRejected ==
    ASSUME NEW q \in Seq(Row), NEW T \in SUBSET Tx, Leaves(q, T),
           NEW S \in SUBSET Tx, NEW o \in LeafFirst(S)
    PROVE  RejectRows(o) \in Seq(Row) /\ Leaves(q \o RejectRows(o), T \ S)
<1>1. o \in Seq(Tx)
  BY LeafFirstType
<1>2. PICK r \in Seq(Row) : r = RejectRows(o)
  BY <1>1, RejectRowsType
<1>3. RowTxs(r) = S /\ \A i \in 1..Len(r) : r[i].type = "reject"
  BY <1>1, <1>2, RejectRowsFacts
<1>4. \A t : ~LeftUnconfirmed(r, t)
  BY <1>3, RejectsLeaveNone
<1>5. Leaves(q \o r, T \ S)
  BY <1>3, <1>4, LeavesAfter
<1> QED BY <1>2, <1>5

\* A row or two of one transaction.
LEMMA ShortRows ==
    ASSUME NEW x \in Tx \cup Block
    PROVE  /\ <<TxRow("accept", x)>> \in Seq(Row) /\ RowTxs(<<TxRow("accept", x)>>) = {x}
           /\ <<TxRow("confirm", x)>> \in Seq(Row) /\ RowTxs(<<TxRow("confirm", x)>>) = {x}
           /\ <<TxRow("accept", x), TxRow("confirm", x)>> \in Seq(Row)
           /\ RowTxs(<<TxRow("accept", x), TxRow("confirm", x)>>) = {x}
           /\ LeftUnconfirmed(<<TxRow("accept", x)>>, x)
           /\ \A t : ~LeftUnconfirmed(<<TxRow("confirm", x)>>, t)
           /\ \A t : ~LeftUnconfirmed(<<TxRow("accept", x), TxRow("confirm", x)>>, t)
<1>1. PICK a \in Row, c \in Row : /\ a = TxRow("accept", x) /\ c = TxRow("confirm", x)
                                  /\ a.tx = x /\ a.type = "accept" /\ c.tx = x /\ c.type = "confirm"
  <2>1. TxRow("accept", x) \in Row /\ TxRow("confirm", x) \in Row
    BY TxRowType
  <2>2. /\ TxRow("accept", x).tx = x /\ TxRow("accept", x).type = "accept"
        /\ TxRow("confirm", x).tx = x /\ TxRow("confirm", x).type = "confirm"
    BY DEF TxRow
  <2> QED BY <2>1, <2>2
<1>2. <<a>> \in Seq(Row) /\ <<c>> \in Seq(Row) /\ <<a, c>> \in Seq(Row)
  OBVIOUS
<1>3. /\ Len(<<a>>) = 1 /\ <<a>>[1] = a /\ Len(<<c>>) = 1 /\ <<c>>[1] = c
      /\ Len(<<a, c>>) = 2 /\ <<a, c>>[1] = a /\ <<a, c>>[2] = c
      /\ 1..1 = {1} /\ 1..2 = {1, 2}
  OBVIOUS
<1>4. RowTxs(<<a>>) = {x} /\ RowTxs(<<c>>) = {x} /\ RowTxs(<<a, c>>) = {x}
  BY <1>1, <1>3 DEF RowTxs
<1>5. LeftUnconfirmed(<<a>>, x) /\ \A t : ~LeftUnconfirmed(<<c>>, t)
  BY <1>1, <1>3 DEF LeftUnconfirmed, RowsOf
<1>6. ASSUME NEW t PROVE ~LeftUnconfirmed(<<a, c>>, t)
  <2>1. CASE t = x
    <3>1. RowsOf(<<a, c>>, t) = {1, 2}
      BY <1>1, <1>3, <2>1 DEF RowsOf
    <3> QED BY <1>1, <1>3, <3>1 DEF LeftUnconfirmed
  <2>2. CASE t # x
    BY <1>1, <1>3, <2>2 DEF LeftUnconfirmed, RowsOf
  <2> QED BY <2>1, <2>2
<1> QED BY <1>1, <1>2, <1>4, <1>5, <1>6

\* A handler that has built its rows.
LEMMA RowsBuilt ==
    ASSUME TypeInv, TablesMatch, db.tmp = <<>>, UNCHANGED <<db, disk>>,
           NEW v \in Seq(Row), NEW next \in {"insert", "begin"}, WriteBatch(v, next),
           Leaves(db.txlogs2 \o v, txs')
    PROVE  RowsInv'
<1>1. /\ values' = v /\ expect' = Len(v) /\ pc' = next /\ db' = db /\ disk' = disk
      /\ Len(db.tmp) = 0 /\ db.tmp \o v = v
  BY ConcatEmptySeq DEF WriteBatch
<1>2. TablesMatch'
  BY DEF TablesMatch
<1>3. Len(v) \in Nat /\ (Len(v) = 0 => v = <<>>)
  OBVIOUS
<1>4. BatchRows'
  <2>1. (Len(db.tmp) + Len(values) >= expect)'
    BY <1>1, <1>3
  <2>2. Leaves(db.txlogs2 \o (db.tmp \o values), txs)'
    BY <1>1 DEF Leaves
  <2>3. (expect = 0 => db.tmp = <<>> /\ values = <<>>)'
    BY <1>1, <1>3
  <2>4. (values # <<>> => db.tmp = <<>> /\ Len(values) = expect)'
    BY <1>1, <1>3
  <2> QED BY <2>1, <2>2, <2>3, <2>4 DEF BatchRows
<1> QED BY <1>1, <1>2, <1>4 DEF RowsInv

\* One round of the loop over a block adds its rows.
LEMMA RowsBlockTx ==
    ASSUME TypeInv, RowsInv, BlockTx
    PROVE  RowsInv'
<1> DEFINE v == Vtx[log1[pos].item]
           t == v[vpos]
<1>1. /\ pc = "block" /\ pc' = "block" /\ vpos' = vpos + 1 /\ vpos <= Len(v) /\ vpos \in Nat \ {0}
      /\ UNCHANGED <<log1, pos, db, disk>> /\ confirms \in Seq(Row) /\ rejects \in Seq(Row)
  BY DEF BlockTx, envVars, dbVars, TypeInv, TypeOK
<1>2. v \in Seq(Tx) /\ t \in Tx /\ txs \subseteq Tx
  BY <1>1, BlockTxType, TxGraphAssumption DEF TypeInv, TypeOK, LineInv, MemTypeOK
<1>3. {v[i] : i \in 1..(vpos' - 1)} = {v[i] : i \in 1..(vpos - 1)} \cup {t}
  BY <1>1
<1>4. /\ RowTxs(rejects) = unSyncDelete
      /\ \A i \in 1..Len(rejects) : rejects[i].type = "reject"
      /\ RowTxs(confirms) \cap Tx = {v[i] : i \in 1..(vpos - 1)}
      /\ \A x \in Tx : ~LeftUnconfirmed(confirms, x)
      /\ db.tmp = <<>> /\ TablesMatch
  BY <1>1 DEF RowsInv, BlockRows
<1> HIDE DEF v, t
<1>5. ASSUME NEW r \in Seq(Row), RowTxs(r) = {t}, \A x : ~LeftUnconfirmed(r, x), confirms' = confirms \o r
      PROVE  /\ RowTxs(confirms') \cap Tx = {v[i] : i \in 1..(vpos' - 1)}
             /\ \A x \in Tx : ~LeftUnconfirmed(confirms', x)
  <2>1. RowTxs(confirms') = RowTxs(confirms) \cup {t}
    BY <1>1, <1>5, RowTxsConcat
  <2>2. \A x \in Tx : ~LeftUnconfirmed(confirms', x)
    BY <1>1, <1>4, <1>5, LeftConcat
  <2> QED BY <1>2, <1>3, <1>4, <2>1, <2>2
<1>6. /\ RowTxs(confirms') \cap Tx = {v[i] : i \in 1..(vpos' - 1)}
      /\ \A x \in Tx : ~LeftUnconfirmed(confirms', x)
  <2>1. CASE IsExist(t)
    <3>1. confirms' = confirms \o <<TxRow("confirm", t)>>
      BY <2>1 DEF BlockTx, t, v
    <3> QED BY <1>2, <1>5, <3>1, ShortRows
  <2>2. CASE ~IsExist(t)
    <3>1. confirms' = confirms \o <<TxRow("accept", t), TxRow("confirm", t)>>
      BY <2>2 DEF BlockTx, t, v
    <3> QED BY <1>2, <1>5, <3>1, ShortRows
  <2> QED BY <2>1, <2>2
<1>7. /\ RowTxs(rejects') = unSyncDelete'
      /\ \A i \in 1..Len(rejects') : rejects'[i].type = "reject"
  <2>1. CASE IsExist(t)
    <3>1. UNCHANGED <<rejects, unSyncDelete>>
      BY <2>1 DEF BlockTx, t, v, memVars
    <3> QED BY <1>4, <3>1
  <2>2. CASE ~IsExist(t)
    <3>0. PICK D \in SUBSET Tx : /\ \E o \in LeafFirst(D) : rejects' = rejects \o RejectRows(o)
                                 /\ unSyncDelete' = unSyncDelete \cup D
      <4>1. ConflictSet(t) \subseteq Tx
        BY <1>2, DescendantsType DEF ConflictSet
      <4>2. /\ \E o \in LeafFirst(ConflictSet(t)) : rejects' = rejects \o RejectRows(o)
            /\ ReplaceBy(t)
        BY <2>2 DEF BlockTx, t, v
      <4> QED BY <4>1, <4>2 DEF ReplaceBy
    <3>1. PICK o \in LeafFirst(D) : rejects' = rejects \o RejectRows(o)
      BY <3>0
    <3>2. o \in Seq(Tx)
      BY LeafFirstType
    <3>3. PICK r \in Seq(Row) : r = RejectRows(o)
      BY <3>2, RejectRowsType
    <3>4. RowTxs(r) = D /\ \A i \in 1..Len(r) : r[i].type = "reject"
      BY <3>2, <3>3, RejectRowsFacts
    <3>5. RowTxs(rejects') = unSyncDelete'
      BY <1>1, <1>4, <3>0, <3>1, <3>3, <3>4, RowTxsConcat
    <3>6. ASSUME NEW i \in 1..Len(rejects') PROVE rejects'[i].type = "reject"
      <4>1. PICK m \in Nat, n \in Nat : m = Len(rejects) /\ n = Len(r)
        BY <1>1
      <4>2. /\ Len(rejects') = m + n
            /\ \A k \in 1..m : rejects'[k] = rejects[k]
            /\ \A k \in 1..n : rejects'[m + k] = r[k]
        BY <1>1, <3>1, <3>3, <4>1, ConcatParts
      <4>3. CASE i \in 1..m
        BY <1>4, <4>1, <4>2, <4>3
      <4>4. CASE i \notin 1..m
        <5>1. i - m \in 1..n /\ m + (i - m) = i
          BY <3>6, <4>2, <4>4
        <5>2. rejects'[m + (i - m)] = r[i - m]
          BY <4>2, <5>1
        <5> QED BY <3>4, <4>1, <5>1, <5>2
      <4> QED BY <4>3, <4>4
    <3> QED BY <3>5, <3>6
  <2> QED BY <2>1, <2>2
<1>8. BlockRows'
  <2>1. vpos' <= Len(v) + 1
    BY <1>1, <1>2
  <2> QED BY <1>1, <1>6, <1>7, <2>1 DEF BlockRows, v
<1> QED BY <1>1, <1>4, <1>8 DEF RowsInv, TablesMatch

\* The handlers keep rows and memory together.
LEMMA RowsHandler ==
    ASSUME TypeInv, SyncAll, RowsInv, Handler
    PROVE  RowsInv'
<1>0. pc \in {"idle", "block"} /\ UNCHANGED <<db, disk>>
  BY DEF Handler, HandleTxAccept, HandleTxReject, ClearMempoolTxs, HandleBlockAccept, BlockTx,
         BlockTxsDone, HandleBlockRollback, NextLine, dbVars
<1>1. db = disk /\ db.tmp = <<>> /\ TablesMatch
  BY <1>0 DEF SyncAll, TxnInv, InBatch, RowsInv
<1>2. /\ Leaves(db.txlogs2, db.memrepo) /\ db.txlogs2 \in Seq(Row)
      /\ db.memrepo \in SUBSET Tx /\ txs \in SUBSET Tx
  BY <1>1, TablesUpdates DEF TablesMatch, Leaves, TypeInv, TypeOK, MemTypeOK
<1>3. pc = "idle" => Leaves(db.txlogs2, txs) /\ unSyncDelete = {}
  BY <1>2 DEF SyncAll, SyncInv, Synced
<1>4. ASSUME UNCHANGED <<memVars, pc>>, pc = "idle" PROVE RowsInv'
  BY <1>0, <1>1, <1>4 DEF RowsInv, TablesMatch
<1>5. CASE HandleTxAccept
  <2>1. CASE ~CanAdd(log1[pos + 1].item)
    BY <1>4, <1>5, <2>1 DEF HandleTxAccept, NextLine, IgnoreLine
  <2>2. CASE CanAdd(log1[pos + 1].item)
    <3>1. PICK t \in Tx : t = log1[pos + 1].item
      BY <1>5, LineTypes, LineItems DEF HandleTxAccept, NextLine
    <3>2. WriteBatch(<<TxRow("accept", t)>>, "begin") /\ txs' = txs \cup {t} /\ pc = "idle"
      BY <1>5, <2>2, <3>1 DEF HandleTxAccept, NextLine, AddTxs
    <3>3. PICK r \in Seq(Row) : r = <<TxRow("accept", t)>> /\ RowTxs(r) = {t} /\ LeftUnconfirmed(r, t)
      BY ShortRows
    <3>4. Leaves(db.txlogs2 \o r, txs')
      <4>1. \A u \in Tx : u \in RowTxs(r) => (u \in txs' <=> LeftUnconfirmed(r, u))
        BY <3>2, <3>3
      <4>2. \A u \in Tx : u \notin RowTxs(r) => (u \in txs' <=> u \in txs)
        BY <3>2, <3>3
      <4> QED BY <1>2, <1>3, <3>2, <4>1, <4>2, LeavesAfter
    <3> QED BY <1>0, <1>1, <3>2, <3>3, <3>4, RowsBuilt
  <2> QED BY <2>1, <2>2
<1>6. ASSUME NEW S \in SUBSET Tx, NEW o \in LeafFirst(S), NEW next \in {"insert", "begin"},
             pc = "idle", txs' = txs \ S, WriteBatch(RejectRows(o), next)
      PROVE  RowsInv'
  <2>1. RejectRows(o) \in Seq(Row) /\ Leaves(db.txlogs2 \o RejectRows(o), txs')
    BY <1>2, <1>3, <1>6, LeavesRejected
  <2> QED BY <1>0, <1>1, <1>6, <2>1, RowsBuilt
<1>7. CASE HandleTxReject
  <2>1. CASE ~IsExist(log1[pos + 1].item)
    BY <1>4, <1>7, <2>1 DEF HandleTxReject, NextLine, IgnoreLine
  <2>2. CASE IsExist(log1[pos + 1].item)
    <3>1. PICK S : S = Descendants({log1[pos + 1].item})
      OBVIOUS
    <3>2. /\ pc = "idle" /\ txs' = txs \ S /\ S \in SUBSET Tx
          /\ \E o \in LeafFirst(S) : WriteBatch(RejectRows(o), "insert")
      BY <1>2, <1>7, <2>2, <3>1, DescendantsType DEF HandleTxReject, NextLine, RemoveTxs
    <3> QED BY <1>6, <3>2
  <2> QED BY <2>1, <2>2
<1>8. CASE ClearMempoolTxs
  <2>1. /\ pc = "idle" /\ txs' = txs \ txs
        /\ \E o \in LeafFirst(txs) :
              WriteBatch(RejectRows(o), IF txs = {} THEN "begin" ELSE "insert")
    BY <1>8 DEF ClearMempoolTxs, NextLine, RemoveTxs
  <2>2. PICK next \in {"insert", "begin"} : next = IF txs = {} THEN "begin" ELSE "insert"
    OBVIOUS
  <2> QED BY <1>2, <1>6, <2>1, <2>2
<1>9. CASE HandleBlockAccept
  <2>1. PICK b \in Block : b = log1[pos + 1].item
    BY <1>9, LineTypes, LineItems, ForwardIsBlock DEF HandleBlockAccept, NextLine, TypeInv, TypeOK
  <2>2. /\ pc = "idle" /\ pc' = "block" /\ vpos' = 1 /\ rejects' = <<>> /\ unSyncDelete' = unSyncDelete
        /\ confirms' = <<TxRow("accept", b), TxRow("confirm", b)>>
    BY <1>9, <2>1 DEF HandleBlockAccept, NextLine, memVars
  <2>3. RowTxs(confirms') = {b} /\ (\A t : ~LeftUnconfirmed(confirms', t)) /\ b \notin Tx
    BY <2>2, ShortRows, TxGraphAssumption
  <2>4. RowTxs(rejects') = unSyncDelete' /\ \A i \in 1..Len(rejects') : rejects'[i].type = "reject"
    BY <1>3, <2>2 DEF RowTxs
  <2>5. {Vtx[log1[pos].item][i] : i \in 1..(vpos - 1)}' = {}
    BY <2>2
  <2>6. BlockRows'
    <3>1. pos' = pos + 1 /\ log1' = log1 /\ Vtx[b] \in Seq(Tx)
      BY <1>9, TxGraphAssumption DEF HandleBlockAccept, NextLine, envVars
    <3>2. (vpos <= Len(Vtx[log1[pos].item]) + 1)'
      BY <2>1, <2>2, <3>1
    <3> QED BY <2>3, <2>4, <2>5, <3>2 DEF BlockRows
  <2> QED BY <1>0, <1>1, <2>2, <2>6 DEF RowsInv, TablesMatch
<1>10. CASE BlockTx
  BY <1>10, RowsBlockTx
<1>11. CASE BlockTxsDone
  <2>1. PICK b \in Block, v \in Seq(Tx) : b = log1[pos].item /\ v = Vtx[b]
    BY <1>11, TxGraphAssumption DEF BlockTxsDone, TypeInv, LineInv
  <2>2. /\ pc = "block" /\ vpos > Len(v) /\ BlockTxs(b) \subseteq txs /\ txs' = txs \ BlockTxs(b)
        /\ WriteBatch(rejects \o confirms, "insert") /\ vpos \in Nat
        /\ rejects \in Seq(Row) /\ confirms \in Seq(Row)
    BY <1>11, <2>1 DEF BlockTxsDone, BlockTxsOK, RemoveTxs, TypeInv, TypeOK
  <2>3. /\ unSyncInsert \subseteq {v[i] : i \in 1..(vpos - 1)}
        /\ txs \cup unSyncDelete \subseteq db.memrepo \cup unSyncInsert
        /\ (db.memrepo \cup unSyncInsert) \ unSyncDelete \subseteq txs
        /\ txs \cap unSyncDelete \subseteq unSyncInsert \cap db.memrepo
    BY <2>1, <2>2 DEF SyncAll, SyncInv, BlockSync
  <2>4. /\ RowTxs(rejects) = unSyncDelete
        /\ \A i \in 1..Len(rejects) : rejects[i].type = "reject"
        /\ RowTxs(confirms) \cap Tx = {v[i] : i \in 1..(vpos - 1)}
        /\ \A t \in Tx : ~LeftUnconfirmed(confirms, t)
    BY <2>1, <2>2 DEF RowsInv, BlockRows
  <2>5. {v[i] : i \in 1..(vpos - 1)} = BlockTxs(b)
    <3>1. vpos <= Len(v) + 1
      BY <2>1, <2>2 DEF RowsInv, BlockRows
    <3>2. vpos - 1 = Len(v)
      BY <2>1, <2>2, <3>1
    <3> QED BY <2>1, <3>2 DEF BlockTxs
  <2>6. Leaves(db.txlogs2 \o rejects, db.memrepo \ unSyncDelete)
    <3>1. \A t : ~LeftUnconfirmed(rejects, t)
      BY <2>2, <2>4, RejectsLeaveNone
    <3> QED BY <1>2, <2>2, <2>4, <3>1, LeavesAfter
  <2>7. \A t \in Tx : t \notin RowTxs(confirms) => (t \in txs' <=> t \in db.memrepo \ unSyncDelete)
    BY <2>2, <2>3, <2>4, <2>5
  <2>8. \A t \in Tx : t \in RowTxs(confirms) => t \notin txs'
    BY <2>2, <2>4, <2>5
  <2>9. Leaves(db.txlogs2 \o (rejects \o confirms), txs')
    <3>1. PICK q \in Seq(Row) : q = db.txlogs2
      BY <1>2
    <3>2. PICK r \in Seq(Row) : r = rejects
      BY <2>2
    <3>3. PICK c \in Seq(Row) : c = confirms
      BY <2>2
    <3>4. (q \o r) \o c = q \o (r \o c)
      BY ConcatAssociative
    <3>5. PICK s \in Seq(Row) : s = q \o r
      BY RowsConcat
    <3>6. PICK T : T = db.memrepo \ unSyncDelete
      OBVIOUS
    <3>7. PICK U : U = txs'
      OBVIOUS
    <3>8. /\ Leaves(s, T)
          /\ \A t \in Tx : t \in RowTxs(c) => (t \in U <=> LeftUnconfirmed(c, t))
          /\ \A t \in Tx : t \notin RowTxs(c) => (t \in U <=> t \in T)
      BY <2>4, <2>6, <2>7, <2>8, <3>1, <3>2, <3>3, <3>5, <3>6, <3>7
    <3>9. Leaves(s \o c, U)
      BY <3>8, LeavesAfter
    <3> QED BY <3>1, <3>2, <3>3, <3>4, <3>5, <3>7, <3>9
  <2>11. rejects \o confirms \in Seq(Row)
    BY <2>2, RowsConcat
  <2> QED BY <1>0, <1>1, <2>2, <2>9, <2>11, RowsBuilt
<1>12. CASE HandleBlockRollback
  <2>1. PICK b \in Block : b = cur
    BY <1>12 DEF HandleBlockRollback, RollbackOK, TypeInv, TypeOK
  <2>2. /\ pc = "idle" /\ txs' = txs \cup BlockTxs(b) /\ WriteBatch(UnconfirmRows(b), "insert")
    BY <1>12, <2>1 DEF HandleBlockRollback, NextLine, AddTxs
  <2>3. PICK r \in Seq(Row) : /\ r = UnconfirmRows(b) /\ RowTxs(r) \cap Tx = BlockTxs(b)
                              /\ \A t \in BlockTxs(b) : LeftUnconfirmed(r, t)
    BY UnconfirmRowsType, UnconfirmRowsFacts
  <2>4. Leaves(db.txlogs2 \o r, txs')
    BY <1>2, <1>3, <2>2, <2>3, LeavesAfter
  <2> QED BY <1>0, <1>1, <2>2, <2>3, <2>4, RowsBuilt
<1> QED BY <1>5, <1>7, <1>8, <1>9, <1>10, <1>11, <1>12 DEF Handler

\* Three tables of rows, one behind the other.
LEMMA RowsAssoc ==
    ASSUME NEW q \in Seq(Row), NEW r \in Seq(Row), NEW s \in Seq(Row)
    PROVE  (q \o r) \o s = q \o (r \o s)
  BY ConcatAssociative

\* Rows cut in two.
LEMMA RowsSplit ==
    ASSUME NEW v \in Seq(Row), NEW n \in 1..Len(v)
    PROVE  SubSeq(v, 1, n) \o SubSeq(v, n + 1, Len(v)) = v
<1>1. PICK m \in Nat : m = Len(v)
  OBVIOUS
<1>2. PICK i \in 1..(m + 1) : i = 1
  BY <1>1
<1>3. n \in (i - 1)..m /\ m \in n..m
  BY <1>1, <1>2
<1>4. SubSeq(v, i, n) \o SubSeq(v, n + 1, m) = SubSeq(v, i, m)
  BY <1>1, <1>3, ConcatAdjacentSubSeq
<1>5. SubSeq(v, 1, Len(v)) = v
  BY SubSeqFull
<1> QED BY <1>1, <1>2, <1>4, <1>5

\* An INSERT of some of the rows: the ones of the batch are all there, or one
\* too many.
LEMMA RowsInserted ==
    ASSUME TypeInv, SyncAll, RowsInv, pc = "insert", NEW n \in 1..Len(values),
           Write([db EXCEPT !.tmp = db.tmp \o SubSeq(values, 1, n)]), UNCHANGED <<txs, expect>>,
           \/ UNCHANGED <<pc, values>>
           \/ /\ values' = SubSeq(values, n + 1, Len(values))
              /\ pc' = IF n = Len(values) THEN "begin" ELSE "insert"
    PROVE  RowsInv'
<1>1. ~inTxn /\ db = disk /\ db \in Tables
  BY DEF SyncAll, TxnInv, InBatch, TypeInv, TypeOK
<1>2. /\ db' = [db EXCEPT !.tmp = db.tmp \o SubSeq(values, 1, n)] /\ disk' = db'
      /\ pc' \in {"insert", "begin"}
  BY <1>1 DEF Write
<1>3. /\ db'.tmp = db.tmp \o SubSeq(values, 1, n)
      /\ db'.txlogs2 = db.txlogs2 /\ db'.memrepo = db.memrepo
  BY <1>1, <1>2 DEF Tables
<1>4. TablesMatch'
  BY <1>1, <1>2, <1>3 DEF TablesMatch, RowsInv
<1>5. PICK v \in Seq(Row) : v = values
  BY DEF TypeInv, TypeOK
<1>6. PICK t \in Seq(Row) : t = db.tmp
  BY <1>1, TablesUpdates
<1>7. PICK m \in Nat, k \in Nat, e \in Nat : m = Len(v) /\ k = Len(t) /\ e = expect
  <2>1. Len(v) \in Nat /\ Len(t) \in Nat
    OBVIOUS
  <2>2. expect \in Nat
    BY DEF TypeInv, TypeOK
  <2> QED BY <2>1, <2>2
<1>8. PICK a \in Seq(Row), c \in Seq(Row) : /\ a = SubSeq(v, 1, n) /\ c = SubSeq(v, n + 1, m)
                                           /\ Len(a) = n /\ Len(c) = m - n /\ a \o c = v
  <2>1. /\ SubSeq(v, 1, n) \in Seq(Row) /\ SubSeq(v, n + 1, m) \in Seq(Row)
        /\ Len(SubSeq(v, 1, n)) = n /\ Len(SubSeq(v, n + 1, m)) = m - n
    BY <1>5, <1>7
  <2>2. SubSeq(v, 1, n) \o SubSeq(v, n + 1, m) = v
    BY <1>5, <1>7, RowsSplit
  <2> QED BY <2>1, <2>2
<1>9. /\ k + m >= e
      /\ k + m = e => Leaves(db.txlogs2 \o (t \o v), txs)
      /\ e = 0 => v = <<>>
  BY <1>5, <1>6, <1>7 DEF RowsInv, BatchRows
<1>10. db'.tmp = t \o a /\ Len(t \o a) = k + n /\ n \in Nat /\ n >= 1 /\ n <= m /\ e # 0
  <2>1. n \in 1..m
    BY <1>5, <1>7
  <2>2. e # 0
    BY <1>7, <1>9, <2>1
  <2>3. Len(t \o a) = Len(t) + Len(a)
    BY ConcatProperties
  <2>4. db'.tmp = t \o a
    BY <1>3, <1>5, <1>6, <1>8
  <2> QED BY <1>7, <1>8, <2>1, <2>2, <2>3, <2>4
<1>11. CASE UNCHANGED <<pc, values>>
  <2>1. BatchRows'
    <3>1. (Len(db.tmp) + Len(values))' = k + n + m /\ k + n + m >= e /\ k + n + m # e
      BY <1>5, <1>7, <1>9, <1>10, <1>11
    <3> QED BY <1>7, <1>10, <1>11, <3>1 DEF BatchRows
  <2> QED BY <1>4, <1>11, <2>1 DEF RowsInv
<1>12. CASE /\ values' = SubSeq(values, n + 1, Len(values))
            /\ pc' = IF n = Len(values) THEN "begin" ELSE "insert"
  <2>1. values' = c
    BY <1>5, <1>7, <1>8, <1>12
  <2>2. (Len(db.tmp) + Len(values))' = k + m
    BY <1>8, <1>10, <2>1
  <2>3. (t \o a) \o c = t \o v
    <3>1. (t \o a) \o c = t \o (a \o c)
      BY RowsAssoc
    <3> QED BY <1>8, <3>1
  <2>4. pc' = "begin" => values' = <<>>
    <3>1. pc' = "begin" => Len(c) = 0
      BY <1>5, <1>7, <1>8, <1>12
    <3> QED BY <2>1, <3>1
  <2>5. BatchRows'
    <3>1. Len(db'.tmp) + Len(values') >= expect'
      BY <1>7, <1>9, <2>2
    <3>2. Len(db'.tmp) + Len(values') = expect' => Leaves(db'.txlogs2 \o (db'.tmp \o values'), txs')
      BY <1>3, <1>7, <1>9, <1>10, <2>1, <2>2, <2>3
    <3>3. expect' # 0
      BY <1>7, <1>10
    <3>4. pc' \in {"begin", "rows"} => values' = <<>>
      BY <1>2, <2>4
    <3> QED BY <3>1, <3>2, <3>3, <3>4 DEF BatchRows, Leaves
  <2> QED BY <1>2, <1>4, <2>5 DEF RowsInv
<1> QED BY <1>11, <1>12

\* The statements keep rows and memory together.
LEMMA RowsStatement ==
    ASSUME TypeInv, SyncAll, RowsInv, Statement
    PROVE  RowsInv'
<1>t. db \in Tables /\ db.tmp \in Seq(Row) /\ db.txlogs2 \in Seq(Row) /\ values \in Seq(Row) /\ TablesMatch
  BY TablesUpdates DEF TypeInv, TypeOK, RowsInv
<1>x. pc \in InBatch => inTxn
  BY DEF SyncAll, TxnInv
<1>1. CASE MultiInsert
  <2>1. PICK n \in 1..Len(values) :
          /\ Write([db EXCEPT !.tmp = db.tmp \o SubSeq(values, 1, n)])
          /\ values' = SubSeq(values, n + 1, Len(values))
          /\ Goto(IF n = Len(values) THEN "begin" ELSE "insert")
    BY <1>1 DEF MultiInsert
  <2>2. pc = "insert" /\ UNCHANGED <<txs, expect>> /\ pc' = IF n = Len(values) THEN "begin" ELSE "insert"
    BY <1>1, <2>1 DEF MultiInsert, Goto, memVars
  <2> QED BY <2>1, <2>2, RowsInserted
<1>2. CASE StartTransaction
  <2>1. pc = "begin" /\ pc' = "rows" /\ UNCHANGED <<txs, values, expect, db, disk>>
    BY <1>2 DEF StartTransaction, Goto, memVars
  <2>2. BatchRows /\ BatchRows'
    BY <2>1 DEF RowsInv, BatchRows, Leaves
  <2> QED BY <1>t, <2>1, <2>2 DEF RowsInv, TablesMatch
<1>3. ASSUME NEW d \in Tables, Write(d), pc \in InBatch, NEW next \in {"memInsert", "memDelete", "status", "commit"},
             pc' = next, d.tmp = <<>>, Leaves(d.txlogs2, txs), txs' = txs
      PROVE  RowsInv'
  <2>1. disk' = disk /\ db' = d
    BY <1>3, <1>x DEF Write
  <2> QED BY <1>3, <1>t, <2>1 DEF RowsInv, TablesMatch, Leaves
<1>4. CASE InsertAccept
  <2>1. /\ pc = "rows" /\ values # <<>> /\ Write([db EXCEPT !.txlogs2 = db.txlogs2 \o values])
        /\ pc' = "memInsert" /\ txs' = txs
    BY <1>4 DEF InsertAccept, Goto, memVars
  <2>2. BatchRows
    BY <2>1 DEF RowsInv
  <2>3. db.tmp = <<>> /\ Len(values) = expect
    BY <2>1, <2>2 DEF BatchRows
  <2>4. Leaves(db.txlogs2 \o values, txs)
    <3>1. Len(db.tmp) + Len(values) = expect
      BY <1>t, <2>3
    <3>2. db.tmp \o values = values
      BY <1>t, <2>3, ConcatEmptySeq
    <3> QED BY <2>2, <3>1, <3>2 DEF BatchRows
  <2>5. PICK d \in Tables : d = [db EXCEPT !.txlogs2 = db.txlogs2 \o values]
    <3>1. db.txlogs2 \o values \in Seq(Row)
      BY <1>t, RowsConcat
    <3> QED BY <1>t, <3>1, TablesUpdates
  <2>6. d.txlogs2 = db.txlogs2 \o values /\ d.tmp = <<>>
    BY <1>t, <2>3, <2>5 DEF Tables
  <2> QED BY <1>3, <2>1, <2>4, <2>5, <2>6 DEF InBatch
<1>5. CASE UpdateBatchId
  <2>1. /\ pc = "rows" /\ values = <<>> /\ UpdateCountOK
        /\ Write([db EXCEPT !.txlogs2 = db.txlogs2 \o db.tmp, !.tmp = <<>>])
        /\ pc' = "memInsert" /\ txs' = txs
    BY <1>5 DEF UpdateBatchId, Goto, memVars
  <2>2. BatchRows
    BY <2>1 DEF RowsInv
  <2>3. Len(db.tmp) + Len(values) = expect
    <3>1. expect = 0 => Len(db.tmp) = 0
      BY <2>2 DEF BatchRows
    <3>2. Len(values) = 0 /\ Len(db.tmp) \in Nat
      BY <1>t, <2>1
    <3> QED BY <2>1, <3>1, <3>2 DEF UpdateCountOK
  <2>4. Leaves(db.txlogs2 \o db.tmp, txs)
    <3>1. db.tmp \o values = db.tmp
      BY <1>t, <2>1, ConcatEmptySeq
    <3> QED BY <2>2, <2>3, <3>1 DEF BatchRows
  <2>5. PICK d \in Tables : d = [db EXCEPT !.txlogs2 = db.txlogs2 \o db.tmp, !.tmp = <<>>]
    <3>1. db.txlogs2 \o db.tmp \in Seq(Row)
      BY <1>t, RowsConcat
    <3> QED BY <1>t, <3>1, TablesUpdates
  <2>6. d.txlogs2 = db.txlogs2 \o db.tmp /\ d.tmp = <<>>
    BY <1>t, <2>5 DEF Tables
  <2> QED BY <1>3, <2>1, <2>4, <2>5, <2>6 DEF InBatch
<1>6. ASSUME pc \in {"memInsert", "memDelete", "status"}, NEW d \in Tables, Write(d),
             d.txlogs2 = db.txlogs2, d.tmp = db.tmp, txs' = txs,
             pc' \in {"memDelete", "status", "commit"}
      PROVE  RowsInv'
  <2>1. db.tmp = <<>> /\ Leaves(db.txlogs2, txs)
    BY <1>6 DEF RowsInv
  <2> QED BY <1>3, <1>6, <2>1 DEF InBatch
<1>7. CASE SyncInsert
  <2>1. /\ pc = "memInsert" /\ Write([db EXCEPT !.memrepo = db.memrepo \cup unSyncInsert])
        /\ pc' = "memDelete" /\ txs' = txs
    BY <1>7 DEF SyncInsert, Goto
  <2>2. PICK d \in Tables : d = [db EXCEPT !.memrepo = db.memrepo \cup unSyncInsert]
    <3>1. db.memrepo \cup unSyncInsert \in SUBSET Tx
      BY <1>t, TablesUpdates DEF TypeInv, TypeOK, MemTypeOK
    <3> QED BY <1>t, <3>1, TablesUpdates
  <2>3. d.txlogs2 = db.txlogs2 /\ d.tmp = db.tmp
    BY <1>t, <2>2 DEF Tables
  <2> QED BY <1>6, <2>1, <2>2, <2>3
<1>8. CASE SyncDelete
  <2>1. /\ pc = "memDelete" /\ Write([db EXCEPT !.memrepo = db.memrepo \ unSyncDelete])
        /\ pc' = "status" /\ txs' = txs
    BY <1>8 DEF SyncDelete, Goto
  <2>2. PICK d \in Tables : d = [db EXCEPT !.memrepo = db.memrepo \ unSyncDelete]
    <3>1. db.memrepo \ unSyncDelete \in SUBSET Tx
      BY <1>t, TablesUpdates
    <3> QED BY <1>t, <3>1, TablesUpdates
  <2>3. d.txlogs2 = db.txlogs2 /\ d.tmp = db.tmp
    BY <1>t, <2>2 DEF Tables
  <2> QED BY <1>6, <2>1, <2>2, <2>3
<1>9. CASE UpdateLog1FileStatus
  <2>1. pc = "status" /\ Write([db EXCEPT !.offset = pos]) /\ pc' = "commit" /\ txs' = txs
    BY <1>9 DEF UpdateLog1FileStatus, Goto, memVars
  <2>2. PICK d \in Tables : d = [db EXCEPT !.offset = pos]
    BY <1>t, TablesUpdates DEF TypeInv, TypeOK
  <2>3. d.txlogs2 = db.txlogs2 /\ d.tmp = db.tmp
    BY <1>t, <2>2 DEF Tables
  <2> QED BY <1>6, <2>1, <2>2, <2>3
<1>10. CASE Commit
  <2>1. pc = "commit" /\ pc' = "idle" /\ db' = db /\ disk' = db
    BY <1>10 DEF Commit
  <2>2. db.tmp = <<>> /\ Leaves(db.txlogs2, txs) /\ db.memrepo = txs
    BY <2>1 DEF RowsInv, SyncAll, SyncInv, Synced
  <2> QED BY <2>1, <2>2 DEF RowsInv, TablesMatch, Leaves
<1> QED BY <1>1, <1>2, <1>4, <1>5, <1>7, <1>8, <1>9, <1>10 DEF Statement

\* The end of the process, its restart and the other programs.
LEMMA RowsOther ==
    ASSUME TypeInv, SyncAll, RowsInv, drops' = 0,
           Failure \/ ConnectionLost \/ RepeatInsert \/ Crash \/ Restart \/ HandleTxlog \/ AppendLine
    PROVE  RowsInv'
<1>t. disk \in Tables /\ db \in Tables /\ drops \in Nat /\ TablesMatch
  BY DEF TypeInv, TypeOK, RowsInv
<1>1. ASSUME pc' \in {"down", "aborted"}, TablesMatch' PROVE RowsInv'
  BY <1>1 DEF RowsInv
<1>2. CASE Failure
  <2>1. CASE Die
    BY <1>1, <1>t, <2>1 DEF Die, Exit, TablesMatch
  <2>2. CASE ClearFails
    <3>1. pc = "commit" /\ pc' = "aborted" /\ disk' = db
      BY <2>2 DEF ClearFails, Exit
    <3>2. Leaves(db.txlogs2, txs) /\ db.memrepo = txs
      BY <3>1 DEF RowsInv, SyncAll, SyncInv, Synced
    <3> QED BY <1>1, <3>1, <3>2 DEF TablesMatch, Leaves
  <2> QED BY <1>2, <2>1, <2>2 DEF Failure, BlockFails, StatementFails
<1>3. CASE ConnectionLost
  BY <1>3, <1>t DEF ConnectionLost
<1>4. CASE Crash
  BY <1>1, <1>t, <1>4 DEF Crash, Exit, TablesMatch
<1>5. CASE Restart
  <2>1. PICK next \in {"idle", "down", "aborted"} : DeleteTmp(next)
    BY <1>5 DEF Restart, InitLog2, InitWaits, LoadFails
  <2>2. pc' \in {"idle", "down", "aborted"} /\ db' = disk' /\ disk' = [disk EXCEPT !.tmp = <<>>]
    BY <2>1 DEF DeleteTmp
  <2>3. disk'.tmp = <<>> /\ disk'.memrepo = disk.memrepo /\ disk'.txlogs2 = disk.txlogs2
    BY <1>t, <2>2 DEF Tables
  <2> QED BY <1>t, <2>2, <2>3 DEF RowsInv, TablesMatch
<1>6. CASE HandleTxlog
  BY <1>6 DEF HandleTxlog, envVars, memVars, procVars, dbVars, RowsInv, TablesMatch, BlockRows,
              BatchRows, Leaves
<1>7. CASE AppendLine
  <2>1. PICK l \in Line : log1' = Append(log1, l)
    BY <1>7 DEF AppendLine
  <2>2. UNCHANGED <<memVars, procVars, db, disk>>
    BY <1>7 DEF AppendLine, dbVars
  <2>3. pc = "block" => log1'[pos] = log1[pos]
    <3>1. pc = "block" => pos \in 1..Len(log1)
      BY DEF TypeInv, TypeOK, LineInv
    <3>2. log1 \in Seq(Line)
      BY DEF TypeInv, TypeOK
    <3> QED BY <2>1, <3>1, <3>2
  <2>4. BlockRows /\ pc = "block" => BlockRows'
    BY <2>2, <2>3 DEF BlockRows, memVars, procVars
  <2>5. BatchRows => BatchRows'
    BY <2>2 DEF BatchRows, Leaves, memVars, procVars
  <2> QED BY <2>2, <2>4, <2>5 DEF RowsInv, TablesMatch, Leaves, memVars, procVars
<1>8. CASE RepeatInsert
  <2>1. PICK n \in 1..Len(values) : Write([db EXCEPT !.tmp = db.tmp \o SubSeq(values, 1, n)])
    BY <1>8 DEF RepeatInsert
  <2>2. pc = "insert" /\ UNCHANGED <<txs, expect, pc, values>>
    BY <1>8 DEF RepeatInsert, memVars, procVars
  <2> QED BY <2>1, <2>2, RowsInserted
<1> QED BY <1>2, <1>3, <1>4, <1>5, <1>6, <1>7, <1>8

\* The inductive step for rows and memory.
LEMMA RowsStep ==
    ASSUME TypeInv, RepoInv, drops = 0 => RowsInv, [Next]_vars
    PROVE  (drops = 0 => RowsInv)'
<1> SUFFICES ASSUME drops' = 0 PROVE RowsInv'
  OBVIOUS
<1>0. RowsInv /\ SyncAll
  BY DropsStay DEF RepoInv, SyncAll
<1>1. CASE UNCHANGED vars
  BY <1>0, <1>1 DEF vars, envVars, memVars, procVars, dbVars, RowsInv, TablesMatch, BlockRows,
              BatchRows, Leaves
<1>2. CASE Next
  BY <1>0, <1>2, RowsHandler, RowsStatement, RowsOther DEF Next, ProducerNext
<1> QED BY <1>1, <1>2

\* In every committed state the rows leave unconfirmed exactly the transactions
\* of 0_memrepo_txs, however a batch was cut, repeated or lost, unless a
\* connection was lost inside a transaction: what initLog2() loads is what
\* tparser was told.
THEOREM RowsMatchTable == Spec => []TablesAgree
<1>1. Init => (drops = 0 => RowsInv)
  <2> SUFFICES ASSUME Init PROVE RowsInv
    OBVIOUS
  <2>1. pc = "idle" /\ disk.txlogs2 = <<>> /\ disk.memrepo = {} /\ db.tmp = <<>>
    BY DEF Init, EmptyTables
  <2>2. \A t : ~LeftUnconfirmed(<<>>, t)
    BY DEF LeftUnconfirmed, RowsOf
  <2> QED BY <2>1, <2>2 DEF RowsInv, TablesMatch
<1>2. Spec => []TypeInv
  BY TypeInit, TypeStep, PTL DEF Spec
<1>3. TypeInv /\ RepoInv /\ (drops = 0 => RowsInv) /\ [Next]_vars => (drops = 0 => RowsInv)'
  BY RowsStep
<1>4. (drops = 0 => RowsInv) => TablesAgree
  BY DEF RowsInv, TablesAgree
<1> QED BY <1>1, <1>2, <1>3, <1>4, RepoInvHolds, PTL DEF Spec

=============================================================================
