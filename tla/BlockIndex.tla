----------------------------- MODULE BlockIndex -----------------------------
(***************************************************************************)
(* The block keys of tparser's key-value store, and the timestamps they    *)
(* depend on.                                                              *)
(*                                                                         *)
(* log2producer keeps the timestamps of the last blocks (BlockTimestamp)   *)
(* and writes the current maximum into the rows of a block; a rollback     *)
(* takes the maximum before the block leaves the window.  tparser          *)
(* (acceptBlock(), rejectBlock()) stores the block under its hash (11_)    *)
(* with its orphan flag and the link to the next block, its hash under its *)
(* height (10_), under the maximum timestamp (14_), and the orphans of a   *)
(* height (13_).  Every write to the store is a step, so that a crash can  *)
(* fall between two of them; the row is then handled again from its start. *)
(* A restarted log2producer fills its window from the store.               *)
(*                                                                         *)
(* RecognizeBlock marks the blocks whose pool it has looked up (15_): the  *)
(* consumer thread does so for a block it has just accepted, and a thread  *)
(* of its own goes down from the tip at every start of tparser until it    *)
(* meets a mark.  The bootstrap leaves no marks.                           *)
(*                                                                         *)
(* Abstractions: the rows are those of the coinbase transactions that      *)
(* reach acceptBlock() and rejectBlock(); of the transactions of a block   *)
(* (12_) only their presence matters, its other fields never change; which *)
(* pool a coinbase belongs to is left out, as is the option to recognise   *)
(* all blocks at every start.                                              *)
(***************************************************************************)
EXTENDS BlockTree, FiniteSets, FiniteSetsExt

CONSTANTS
    Loaded,     \* the tip when the installation starts (loaded by bootstrap)
    Time,       \* Time[b]: the timestamp in the header of b
    Limit,      \* limit_ of blkTs_, and the blocks that initLog2() reads (4032)
    Recent,     \* the newest timestamp is among so many blocks below a tip
    MaxMoves,   \* bound: blocks accepted and rolled back
    MaxAhead,   \* bound: rows that tparser has not consumed (log2producer looks at
                \* tparser only when it starts, and then there are none)
    MaxCrash,   \* bound: crashes of tparser
    MaxRestart  \* bound: restarts of log2producer

AllBlocks == Block \cup {Begin}
OnChain == [b \in AllBlocks |-> {Chain[b][i] : i \in 1..Len(Chain[b])}]
NewestTime == [b \in AllBlocks |-> Max({Time[c] : c \in OnChain[b]})]

\* Headers are at most two hours ahead and not before the median of the eleven
\* blocks below, so that the highest timestamp is soon passed; the window is long
\* enough for any number of blocks undone in a row.
ASSUME TimeAssumption ==
    /\ Loaded \in AllBlocks
    /\ Time \in [AllBlocks -> Nat]
    /\ Limit \in Nat \ {0} /\ Recent \in Nat \ {0}
    /\ MaxMoves \in Nat /\ MaxAhead \in Nat /\ MaxCrash \in Nat /\ MaxRestart \in Nat
    /\ \A b \in AllBlocks :
          /\ \E c \in OnChain[b] :
                Height[b] - Height[c] < Recent /\ Time[c] = NewestTime[b]
          /\ Limit >= Recent + Height[b] - Height[Loaded]

VARIABLES
    cur,        \* log2producer: the current block, or Down
    ts,         \* blkTimestamps_: height -> timestamp
    currMax,    \* currMax_
    rows,       \* 0_txlogs2: the rows that are about blocks
    consumed,   \* 90_tparser_txlogs_offset_id
    step,       \* tparser: the writes done for the row under way
    k10,        \* height -> block
    k11,        \* block -> [orphan, next]
    k13,        \* height -> orphans
    k14,        \* <<timestamp, height>> -> block
    k12, k15,   \* the blocks that have these keys
    started,    \* threadRecognizeBlock() has read the 10_ keys ...
    scan,       \* ... and has these blocks to look at
    cut,        \* history: a mark was set above blocks that nobody will look at
    crashes, restarts

producerVars == <<cur, ts, currMax, rows, restarts>>
keyVars == <<k10, k11, k12, k13, k14, k15>>
scanVars == <<started, scan, cut>>
vars == <<producerVars, consumed, step, keyVars, scanVars, crashes>>

Down == <<>>
NoBlock == <<>>
RowType == {"confirm", "reject"}
Row == [type : RowType, block : Block, time : Nat]

Put(f, k, v) == [x \in DOMAIN f \cup {k} |-> IF x = k THEN v ELSE f[x]]
Del(f, k) == [x \in DOMAIN f \ {k} |-> f[x]]

TypeOK ==
    /\ cur = Down \/ cur \in AllBlocks
    /\ DOMAIN ts \subseteq Nat /\ Cardinality(DOMAIN ts) <= Limit
    /\ \A h \in DOMAIN ts : ts[h] \in Nat
    /\ currMax \in Nat
    /\ \A i \in 1..Len(rows) : rows[i] \in Row
    /\ consumed \in 0..Len(rows) /\ step \in 0..7
    /\ \A h \in DOMAIN k10 : k10[h] \in AllBlocks
    /\ DOMAIN k11 \subseteq AllBlocks
    /\ \A b \in DOMAIN k11 :
          k11[b].orphan \in BOOLEAN /\ (k11[b].next = NoBlock \/ k11[b].next \in Block)
    /\ \A h \in DOMAIN k13 : k13[h] \subseteq Block
    /\ \A k \in DOMAIN k14 : k14[k] \in AllBlocks
    /\ k12 \subseteq AllBlocks /\ k15 \subseteq AllBlocks
    /\ started \in BOOLEAN /\ scan \subseteq AllBlocks /\ cut \in BOOLEAN
    /\ crashes \in 0..MaxCrash /\ restarts \in 0..MaxRestart

-----------------------------------------------------------------------------
(* BlockTimestamp *)

\* Mutant of PushBlock: a full window drops the newest block.
PushBlockFull(w, h, t) ==
    LET f == Put(w.ts, h, t) IN
    [ts |-> IF Cardinality(DOMAIN f) > Limit THEN Del(f, Max(DOMAIN f)) ELSE f,
     max |-> IF t > w.max THEN t ELSE w.max]

\* Mutant of PushBlock: nothing ever drops out.
PushBlockUnlimited(w, h, t) ==
    [ts |-> Put(w.ts, h, t), max |-> IF t > w.max THEN t ELSE w.max]

\* pushBlock(): the maximum is not recomputed when the lowest block drops out.
PushBlock(w, h, t) ==
    LET f == Put(w.ts, h, t) IN
    [ts |-> IF Cardinality(DOMAIN f) > Limit THEN Del(f, Min(DOMAIN f)) ELSE f,
     max |-> IF t > w.max THEN t ELSE w.max]

\* popBlock()
PopBlock(w) ==
    LET f == Del(w.ts, Max(DOMAIN w.ts)) IN
    [ts |-> f, max |-> Max({0} \cup {f[h] : h \in DOMAIN f})]

Window == [ts |-> ts, max |-> currMax]
SetWindow(w) == ts' = w.ts /\ currMax' = w.max

\* initLog2(): the blocks of the 10_ keys from Limit below the highest on, pushed
\* one after the other.
LoadFrom(heights) ==
    LET Load[h \in Int] ==
            IF \A g \in heights : g > h THEN [ts |-> <<>>, max |-> 0]
            ELSE IF h \in heights THEN PushBlock(Load[h - 1], h, Time[k10[h]])
            ELSE Load[h - 1]
    IN  Load[Max(heights)]

InitBlkTs == LoadFrom({h \in DOMAIN k10 : h >= Max(DOMAIN k10) - Limit})

LoadedWindow ==
    LET H == {Height[b] : b \in OnChain[Loaded]} IN
    [h \in {g \in H : g > Height[Loaded] - Limit} |->
        Time[CHOOSE b \in OnChain[Loaded] : Height[b] = h]]

-----------------------------------------------------------------------------
NextOf(b, tip) ==
    LET after == {c \in OnChain[tip] \cap Block : Prev[c] = b} IN
    IF after = {} THEN NoBlock ELSE CHOOSE c \in after : TRUE

\* The store as the bootstrap left it, and log2producer after its first start.
Init ==
    /\ cur = Loaded
    /\ ts = LoadedWindow /\ currMax = NewestTime[Loaded]
    /\ rows = <<>> /\ consumed = 0 /\ step = 0
    /\ k10 = [h \in {Height[b] : b \in OnChain[Loaded]} |->
                 CHOOSE b \in OnChain[Loaded] : Height[b] = h]
    /\ k11 = [b \in OnChain[Loaded] |-> [orphan |-> FALSE, next |-> NextOf(b, Loaded)]]
    /\ k13 = <<>>
    /\ k14 = [k \in {<<NewestTime[b], Height[b]>> : b \in OnChain[Loaded]} |->
                 CHOOSE b \in OnChain[Loaded] : <<NewestTime[b], Height[b]>> = k]
    /\ k12 = OnChain[Loaded] /\ k15 = {}
    /\ started = FALSE /\ scan = {} /\ cut = FALSE
    /\ crashes = 0 /\ restarts = 0

-----------------------------------------------------------------------------
(* log2producer *)

RowOf(type, b, t) == [type |-> type, block |-> b, time |-> t]

\* handleBlockAccept(): the block enters the window before its rows are made.
HandleBlockAccept ==
    /\ cur # Down
    /\ Len(rows) < MaxMoves /\ Len(rows) - consumed < MaxAhead
    /\ \E b \in Block :
          /\ Prev[b] = cur
          /\ LET w == PushBlock(Window, Height[b], Time[b]) IN
             /\ SetWindow(w)
             /\ rows' = Append(rows, RowOf("confirm", b, w.max))
          /\ cur' = b
    /\ UNCHANGED <<restarts, consumed, step, keyVars, scanVars, crashes>>

\* Mutant of RollbackTime: the block leaves the window before its rows are made.
RollbackTimeLate == PopBlock(Window).max

\* "先做操作，再移除块时间戳"
RollbackTime == currMax

HandleBlockRollback ==
    /\ cur # Down /\ cur # Loaded
    /\ Len(rows) < MaxMoves /\ Len(rows) - consumed < MaxAhead
    /\ rows' = Append(rows, RowOf("reject", cur, RollbackTime))
    /\ SetWindow(PopBlock(Window))
    /\ cur' = Prev[cur]
    /\ UNCHANGED <<restarts, consumed, step, keyVars, scanVars, crashes>>

StopProducer ==
    /\ cur # Down
    /\ restarts < MaxRestart
    /\ restarts' = restarts + 1
    /\ cur' = Down /\ ts' = <<>> /\ currMax' = 0
    /\ UNCHANGED <<rows, consumed, step, keyVars, scanVars, crashes>>

\* initLog2() waits until tparser has consumed everything, takes the highest 10_
\* key as the current block (or the configured one before the first row) and
\* fills the window.
InitLog2 ==
    /\ cur = Down
    /\ consumed = Len(rows)
    /\ cur' = IF rows = <<>> THEN Loaded ELSE k10[Max(DOMAIN k10)]
    /\ SetWindow(InitBlkTs)
    /\ UNCHANGED <<rows, restarts, consumed, step, keyVars, scanVars, crashes>>

-----------------------------------------------------------------------------
(* tparser: the writes of a row, and the id after the last one. *)

Steps == [confirm |-> 7, reject |-> 5]
RowDone == consumed < Len(rows) /\ step = Steps[rows[consumed + 1].type]

Working(type, n) ==
    /\ consumed < Len(rows)
    /\ rows[consumed + 1].type = type
    /\ step = n
    /\ step' = n + 1
    /\ UNCHANGED <<producerVars, consumed, crashes>>

B == rows[consumed + 1].block
T == rows[consumed + 1].time
H == Height[B]

\* acceptBlock(): _insertBlock() ...
AcceptObject ==
    /\ Working("confirm", 0)
    /\ k11' = Put(k11, B, [orphan |-> FALSE, next |-> NoBlock])
    /\ UNCHANGED <<k10, k12, k13, k14, k15, scanVars>>

AcceptHeight ==
    /\ Working("confirm", 1)
    /\ k10' = Put(k10, H, B)
    /\ UNCHANGED <<k11, k12, k13, k14, k15, scanVars>>

AcceptPrevLink ==
    /\ Working("confirm", 2)
    /\ k11' = [k11 EXCEPT ![Prev[B]].next = B]
    /\ UNCHANGED <<k10, k12, k13, k14, k15, scanVars>>

\* ... _insertBlockTxs() ...
AcceptTxs ==
    /\ Working("confirm", 3)
    /\ k12' = k12 \cup {B}
    /\ UNCHANGED <<k10, k11, k13, k14, k15, scanVars>>

\* Mutant of WithoutOrphan: the block stays among the orphans of its height.
WithoutOrphanNever(f, h, b) == f

\* ... _removeOrphanBlockHash(), with the key deleted when nothing is left ...
WithoutOrphan(f, h, b) ==
    IF h \notin DOMAIN f THEN f
    ELSE IF f[h] \ {b} = {} THEN Del(f, h)
    ELSE Put(f, h, f[h] \ {b})

AcceptOrphans ==
    /\ Working("confirm", 4)
    /\ k13' = WithoutOrphan(k13, H, B)
    /\ UNCHANGED <<k10, k11, k12, k14, k15, scanVars>>

\* ... and the timestamp index.
AcceptTimestamp ==
    /\ Working("confirm", 5)
    /\ k14' = Put(k14, <<T, H>>, B)
    /\ UNCHANGED <<k10, k11, k12, k13, k15, scanVars>>

\* recognizeBlocks() for the block just accepted.  The thread stops at this mark
\* if it has not read the keys yet, or has read the new 10_ key already.
Recognize ==
    /\ Working("confirm", 6)
    /\ k15' = k15 \cup {B}
    /\ cut' = (cut \/ (B \notin k15 /\ (~started \/ B \in scan)))
    /\ UNCHANGED <<k10, k11, k12, k13, k14, started, scan>>

\* rejectBlock(): _insertOrphanBlockHash() ...
RejectOrphans ==
    /\ Working("reject", 0)
    /\ k13' = Put(k13, H, (IF H \in DOMAIN k13 THEN k13[H] ELSE {}) \cup {B})
    /\ UNCHANGED <<k10, k11, k12, k14, k15, scanVars>>

\* Mutant of RejectHeight: the height keeps pointing to the block.
RejectHeightKept ==
    /\ Working("reject", 1)
    /\ UNCHANGED <<keyVars, scanVars>>

RejectHeight ==
    /\ Working("reject", 1)
    /\ k10' = Del(k10, H)
    /\ UNCHANGED <<k11, k12, k13, k14, k15, scanVars>>

RejectFlag ==
    /\ Working("reject", 2)
    /\ k11' = [k11 EXCEPT ![B].orphan = TRUE]
    /\ UNCHANGED <<k10, k12, k13, k14, k15, scanVars>>

RejectTimestamp ==
    /\ Working("reject", 3)
    /\ k14' = Del(k14, <<T, H>>)
    /\ UNCHANGED <<k10, k11, k12, k13, k15, scanVars>>

RejectPrevLink ==
    /\ Working("reject", 4)
    /\ k11' = [k11 EXCEPT ![Prev[B]].next = NoBlock]
    /\ UNCHANGED <<k10, k12, k13, k14, k15, scanVars>>

UpdateLastTxlog2Id ==
    /\ RowDone
    /\ consumed' = consumed + 1
    /\ step' = 0
    /\ UNCHANGED <<producerVars, keyVars, scanVars, crashes>>

-----------------------------------------------------------------------------
(* tparser: threadRecognizeBlock() *)

ScanIdle == UNCHANGED <<producerVars, consumed, crashes>>

\* range() over the 10_ keys, from a snapshot.
ScanStarts ==
    /\ ~started
    /\ started' = TRUE
    /\ scan' = {k10[h] : h \in DOMAIN k10}
    /\ ScanIdle /\ UNCHANGED <<step, keyVars, cut>>

\* Mutant of ScanNext: from the lowest block up.
ScanNextUp == CHOOSE b \in scan : \A c \in scan : Height[b] <= Height[c]

\* The keys come from the highest down.
ScanNext == CHOOSE b \in scan : \A c \in scan : Height[c] <= Height[b]

\* A block is looked up and marked, up to the first one that has a mark.
ScanStep ==
    /\ scan # {}
    /\ ScanNext \in k12 \/ ScanNext \in k15
    /\ scan' = IF ScanNext \in k15 THEN {} ELSE scan \ {ScanNext}
    /\ k15' = k15 \cup {ScanNext}
    /\ ScanIdle /\ UNCHANGED <<step, k10, k11, k12, k13, k14, started, cut>>

\* tparser is dead and is started again: the writes stay, the row is handled
\* again, and the thread begins from the tip.
Died ==
    /\ step' = 0
    /\ started' = FALSE /\ scan' = {}
    /\ cut' = (cut \/ \E b \in k15, c \in scan : Height[c] < Height[b])
    /\ UNCHANGED <<producerVars, consumed, keyVars>>

\* The 12_ key of a half-written block is missing: the exception of kvdb.get()
\* leaves the thread and ends the process.
ScanFails ==
    /\ scan # {}
    /\ ScanNext \notin k12 /\ ScanNext \notin k15
    /\ Died /\ UNCHANGED crashes

Crash ==
    /\ crashes < MaxCrash
    /\ step > 0 \/ scan # {}
    /\ crashes' = crashes + 1
    /\ Died

Next ==
    \/ HandleBlockAccept \/ HandleBlockRollback \/ StopProducer \/ InitLog2
    \/ AcceptObject \/ AcceptHeight \/ AcceptPrevLink \/ AcceptTxs \/ AcceptOrphans
    \/ AcceptTimestamp \/ Recognize
    \/ RejectOrphans \/ RejectHeight \/ RejectFlag \/ RejectTimestamp \/ RejectPrevLink
    \/ UpdateLastTxlog2Id \/ ScanStarts \/ ScanStep \/ ScanFails \/ Crash

Spec == Init /\ [][Next]_vars

-----------------------------------------------------------------------------
\* The tip after n rows.
TipAfter(n) ==
    IF n = 0 THEN Loaded
    ELSE IF rows[n].type = "confirm" THEN rows[n].block ELSE Prev[rows[n].block]

Tip == TipAfter(consumed + 1)

\* When the writes of a row are complete, also after crashes between them, the
\* 10_ keys are the chain: every height up to the tip names its block, and no
\* height above has a key (initLog2() takes the highest one as the tip).
HeightsAreChain ==
    RowDone =>
        /\ DOMAIN k10 = {Height[b] : b \in OnChain[Tip]}
        /\ \A b \in OnChain[Tip] : k10[Height[b]] = b

\* The stored blocks off the chain, and only they, are marked as orphans and
\* listed under 13_ at their height; no 13_ key is empty.  next_block_hash leads
\* along the chain to the tip, and from an orphan nowhere.
BlocksExact ==
    RowDone =>
        /\ \A b \in DOMAIN k11 : k11[b].orphan <=> b \notin OnChain[Tip]
        /\ \A b \in DOMAIN k11 : k11[b].orphan <=>
              (Height[b] \in DOMAIN k13 /\ b \in k13[Height[b]])
        /\ \A h \in DOMAIN k13 : k13[h] # {} /\ k13[h] \subseteq DOMAIN k11
        /\ \A b \in DOMAIN k11 : k11[b].next = NextOf(b, Tip)

\* "块按照当前最大时间戳的索引，不含孤块数据" (KVDBKeys.md): the 14_ keys hold the blocks
\* of the chain, each under the highest timestamp up to it, and no orphan.  The
\* key that rejectBlock() deletes is computed from another row than the one
\* acceptBlock() wrote, possibly after a restart of log2producer.
TimestampsExact ==
    RowDone =>
        /\ DOMAIN k14 = {<<NewestTime[b], Height[b]>> : b \in OnChain[Tip]}
        /\ \A b \in OnChain[Tip] : k14[<<NewestTime[b], Height[b]>>] = b

\* log2producer's window ends at its tip and holds blocks of its chain, so the
\* asserts of pushBlock() and popBlock() hold, and its maximum is the chain's.
WindowFollowsTip ==
    cur # Down =>
        /\ ts # <<>> /\ Max(DOMAIN ts) = Height[cur]
        /\ \A h \in DOMAIN ts : \E b \in OnChain[cur] : Height[b] = h /\ ts[h] = Time[b]
        /\ currMax = NewestTime[cur]

\* "即使未识别，依然填写默认值，这样才可以界定识别到哪里了" (RecognizeBlock.cc): the marks tell
\* how far recognition has come.  Once the thread has ended every block of the
\* chain is marked, whatever was accepted and undone meanwhile, unless the thread
\* was stopped on its way down or met a mark that the consumer had just set.
MarksComplete ==
    (RowDone /\ started /\ scan = {} /\ ~cut) => OnChain[Tip] \subseteq k15
=============================================================================
