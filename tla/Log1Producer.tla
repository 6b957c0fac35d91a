---------------------------- MODULE Log1Producer ----------------------------
(***************************************************************************)
(* log1producer: copies log0, the log of the patched bitcoind, to log1 and *)
(* keeps the blocks of log1 a walk in the block tree across restarts of    *)
(* the node.                                                               *)
(*                                                                         *)
(* init() rebuilds the chain from log1.  If BEGIN shows that the node has  *)
(* been restarted, it writes a "clear" line and walks over RPC to the      *)
(* height of the first line of log0, else it goes on where LOG0_STATUS     *)
(* says; run() then copies batches of lines.  Every line written to log1,  *)
(* every RPC question and every write of a status file is a step, so that  *)
(* the node, a signal or a kill can come between any two of them.          *)
(*                                                                         *)
(* Abstractions: a position in log0 is the start of the node it belongs to *)
(* and a line number (the code keeps a file and a byte offset, and files   *)
(* are read in order); log1 is the sequence of lines of all its files.     *)
(***************************************************************************)
EXTENDS Log0Node, SequencesExt

CONSTANTS
    ChainLimit,   \* chain_(2016 * 2)
    BatchSize,    \* tryReadLog0() stops when it has more than this (500)
    Bases,        \* the blocks at which log1 may end when the model starts
                  \* (the begin block: log1 is empty, the first installation)
    MaxStart,     \* bound: starts of log1producer
    MaxCrash,     \* bound: kills of log1producer
    MaxStop,      \* bound: SIGTERMs
    CrashPCs,     \* where a kill may fall
    StopPCs,      \* where a SIGTERM may fall
    QuietInit,    \* the node does not restart while log1producer initialises
    MaxUndo       \* blocks up to the first line of log0 that the node may undo
                  \* before log1producer has walked to it

ASSUME Log1Assumption ==
    /\ ChainLimit \in Nat \ {0} /\ BatchSize \in Nat /\ MaxUndo \in Nat
    /\ MaxStart \in Nat /\ MaxCrash \in Nat /\ MaxStop \in Nat
    /\ Bases \subseteq Block \cup {Begin}
    /\ QuietInit \in BOOLEAN

VARIABLES
    log1,         \* the lines of log1
    rebuilt,      \* what initLog1() would rebuild from log1
    savedEpoch,   \* LOG0_BEGIN_TIME
    savedPos,     \* LOG0_STATUS
    pc,           \* where the process is
    running,      \* running_
    chain,        \* chain_, oldest block first
    pos0,         \* log0FileIndex_, log0FileOffset_
    todo,         \* the lines read and not handled yet
    epochRead,    \* log0BeginTimeDir0
    target,       \* log0FirstLineHeight
    watched,      \* log0BeginFileLastModifyTime_
    base,         \* history: length of log1 when savedEpoch was written
    starts, crashes, stops

log1Vars == <<log1, rebuilt>>
fileVars == <<log1Vars, savedEpoch, savedPos, base>>
procVars == <<running, chain, pos0, todo, epochRead, target, watched>>
boundVars == <<starts, crashes, stops>>
vars == <<log0Vars, fileVars, pc, procVars, boundVars>>

PCs == {"down", "clear", "first", "back", "forward", "begin", "status", "watch", "run", "batch"}

ClearLine == [type |-> "clear", item |-> Begin]
NoPos == [epoch |-> 0, line |-> 0]   \* "-1,-1" or no file: nothing can be read there

-----------------------------------------------------------------------------
\* class Chain.

\* push() does not throw: b goes on top of the last block, or b is one lower and
\* its parent is the third block from the end.
CanPush(c, b) ==
    \/ Height[b] = Height[Last(c)] + 1 /\ Prev[b] = Last(c)
    \/ Height[b] + 1 = Height[Last(c)] /\ Len(c) > 3 /\ Prev[b] = c[Len(c) - 2]

Trim(c) == IF Len(c) > ChainLimit THEN Tail(c) ELSE c

\* Mutant of Push: the limit is forgotten.
PushUntrimmed(c, b) == IF Height[b] > Height[Last(c)] THEN Append(c, b) ELSE Front(c)

Push(c, b) == Trim(IF Height[b] > Height[Last(c)] THEN Append(c, b) ELSE Front(c))

\* initLog1(): the blocks of log1 are pushed one after the other; ok is FALSE
\* after an exception.
ReplayLine(r, line) ==
    IF line.type # "block" \/ ~r.ok THEN r
    ELSE IF r.chain = <<>> THEN [r EXCEPT !.chain = <<line.item>>]
    ELSE IF CanPush(r.chain, line.item) THEN [r EXCEPT !.chain = Push(r.chain, line.item)]
    ELSE [r EXCEPT !.ok = FALSE]

Replay(lines) ==
    LET After[n \in 0..Len(lines)] ==
            IF n = 0 THEN [ok |-> TRUE, chain |-> <<>>] ELSE ReplayLine(After[n - 1], lines[n])
    IN  After[Len(lines)]

\* writeLog1(): the replay of log1 is kept up to date as lines are written.
WriteLog1(line) ==
    /\ log1' = Append(log1, line)
    /\ rebuilt' = ReplayLine(rebuilt, line)

Tip == Last(chain)

Init ==
    /\ Log0Init
    /\ \E b \in Bases : log1 = Lines(Tail(Chain[b]))
    /\ rebuilt = Replay(log1)
    /\ savedEpoch = 0 /\ savedPos = NoPos /\ base = 0
    /\ pc = "down" /\ running = FALSE
    /\ chain = <<>> /\ pos0 = NoPos /\ todo = <<>>
    /\ epochRead = 0 /\ target = 0 /\ watched = 0
    /\ starts = 0 /\ crashes = 0 /\ stops = 0

-----------------------------------------------------------------------------
\* init().

\* The process ends: by an exception, an assert, a kill or after a SIGTERM.
Down ==
    /\ pc' = "down" /\ running' = FALSE
    /\ chain' = <<>> /\ pos0' = NoPos /\ todo' = <<>>
    /\ epochRead' = 0 /\ target' = 0 /\ watched' = 0

\* BEGIN is compared with LOG0_BEGIN_TIME and log1 is replayed.
Start ==
    /\ pc = "down" /\ starts < MaxStart
    /\ log1 = <<>> \/ (rebuilt.ok /\ rebuilt.chain # <<>>)
    /\ chain' = IF log1 = <<>> THEN <<Begin>> ELSE rebuilt.chain
    /\ running' = TRUE
    /\ epochRead' = epoch
    /\ starts' = starts + 1
    /\ IF epoch # savedEpoch
       THEN pc' = "clear" /\ UNCHANGED pos0
       ELSE pc' = "watch" /\ pos0' = savedPos
    /\ UNCHANGED <<fileVars, todo, target, watched, crashes, stops>>

\* writeLog1(TYPE_CLEAR_MEMTXS): log2producer rejects its unconfirmed transactions.
WriteClear ==
    /\ pc = "clear"
    /\ WriteLog1(ClearLine)
    /\ pc' = "first"
    /\ UNCHANGED <<savedEpoch, savedPos, base, procVars, boundVars>>

\* syncBitcoind() returns at once when stopped, else it reads the first line.
ReadFirstLine ==
    /\ pc = "first"
    /\ IF running
       THEN /\ target' = Height[log0[1].item]
            /\ pos0' = [epoch |-> epoch, line |-> 1]
            /\ pc' = "back"
       ELSE pc' = "begin" /\ UNCHANGED <<target, pos0>>
    /\ UNCHANGED <<fileVars, running, chain, todo, epochRead, watched, boundVars>>

\* Step one of syncBitcoind(): the tip is not in the node's chain, so the block
\* below it is written to log1.
OnNode == HasHeight(Height[Tip]) /\ BlockAt(Height[Tip]) = Tip
OffNode == HasHeight(Height[Tip]) /\ BlockAt(Height[Tip]) # Tip

\* Mutant of StepBack: the block below is not written.
StepBackSilent ==
    /\ pc = "back" /\ running /\ OffNode /\ Len(chain) > 1
    /\ chain' = Front(chain)
    /\ UNCHANGED <<fileVars, pc, running, pos0, todo, epochRead, target, watched, boundVars>>

StepBack ==
    /\ pc = "back" /\ running /\ OffNode /\ Len(chain) > 1
    /\ chain' = Front(chain)
    /\ WriteLog1(BlockLine(Last(Front(chain))))
    /\ UNCHANGED <<savedEpoch, savedPos, base, pc, running, pos0, todo, epochRead,
                   target, watched, boundVars>>

FoundCommon ==
    /\ pc = "back" /\ (running => OnNode)
    /\ Height[Tip] <= target
    /\ pc' = "forward"
    /\ UNCHANGED <<fileVars, procVars, boundVars>>

\* The node has no block at this height, no block of chain_ is the node's, or
\* chain_ is higher than the first line of log0.
BackFails ==
    /\ pc = "back"
    /\ \/ running /\ ~HasHeight(Height[Tip])
       \/ running /\ OffNode /\ Len(chain) = 1
       \/ (running => OnNode) /\ Height[Tip] > target
    /\ Down
    /\ UNCHANGED <<fileVars, boundVars>>

\* Mutant of StepForward: the block is not written.
StepForwardUnwritten ==
    /\ pc = "forward" /\ running /\ Height[Tip] < target
    /\ HasHeight(Height[Tip] + 1) /\ Prev[BlockAt(Height[Tip] + 1)] = Tip
    /\ chain' = Push(chain, BlockAt(Height[Tip] + 1))
    /\ UNCHANGED <<fileVars, pc, running, pos0, todo, epochRead, target, watched, boundVars>>

\* Step two: one block up, until the height of the first line.
StepForward ==
    /\ pc = "forward" /\ running /\ Height[Tip] < target
    /\ HasHeight(Height[Tip] + 1) /\ Prev[BlockAt(Height[Tip] + 1)] = Tip
    /\ chain' = Push(chain, BlockAt(Height[Tip] + 1))
    /\ WriteLog1(BlockLine(BlockAt(Height[Tip] + 1)))
    /\ UNCHANGED <<savedEpoch, savedPos, base, pc, running, pos0, todo, epochRead,
                   target, watched, boundVars>>

ForwardFails ==
    /\ pc = "forward" /\ running /\ Height[Tip] < target
    /\ HasHeight(Height[Tip] + 1) => Prev[BlockAt(Height[Tip] + 1)] # Tip
    /\ Down
    /\ UNCHANGED <<fileVars, boundVars>>

\* Mutant of AtTarget: the walk ends one block early.
AtTargetEarly ==
    /\ pc = "forward" /\ (running => Height[Tip] + 1 >= target)
    /\ pc' = "begin"
    /\ UNCHANGED <<fileVars, procVars, boundVars>>

AtTarget ==
    /\ pc = "forward" /\ (running => Height[Tip] >= target)
    /\ pc' = "begin"
    /\ UNCHANGED <<fileVars, procVars, boundVars>>

\* The time of BEGIN, then the position after the first line, are recorded,
\* whether or not the walk was complete.
SaveBegin ==
    /\ pc = "begin"
    /\ savedEpoch' = epochRead
    /\ base' = Len(log1)
    /\ pc' = "status"
    /\ UNCHANGED <<log1Vars, savedPos, procVars, boundVars>>

SaveStatus ==
    /\ pc = "status"
    /\ savedPos' = pos0
    /\ pc' = "watch"
    /\ UNCHANGED <<log1Vars, savedEpoch, base, procVars, boundVars>>

\* The modification time of BEGIN is read at the end of init().
Watch ==
    /\ pc = "watch"
    /\ watched' = epoch
    /\ pc' = "run"
    /\ UNCHANGED <<fileVars, running, chain, pos0, todo, epochRead, target, boundVars>>

-----------------------------------------------------------------------------
\* run().

\* The lines from line n of log0 on, at most BatchSize + 1 of them.
Batch(n) == SubSeq(log0, n + 1, IF Len(log0) > n + BatchSize + 1 THEN n + BatchSize + 1 ELSE Len(log0))

\* The lines at which a byte offset may point: in a log0 of another start of the
\* node, any of them.
LinesAt(p) == IF p.epoch = epoch THEN {p.line} ELSE {n \in 1..Len(log0) : p.line # 0}

\* tryReadLog0() read at least one line.
ReadBatch ==
    /\ pc = "run" /\ running
    /\ watched = epoch
    /\ \E n \in LinesAt(pos0) :
          /\ n < Len(log0)
          /\ todo' = Batch(n)
          /\ pos0' = [epoch |-> epoch, line |-> n + Len(Batch(n))]
    /\ pc' = "batch"
    /\ UNCHANGED <<fileVars, running, chain, epochRead, target, watched, boundVars>>

\* Mutant of ReadFails: a changed BEGIN is not an error.
ReadFailsQuietly ==
    /\ pc = "run" /\ running
    /\ watched = epoch /\ pos0.epoch # epoch
    /\ Down
    /\ UNCHANGED <<fileVars, boundVars>>

\* tryReadLog0() throws: BEGIN has changed, the file cannot be opened or is
\* shorter than the offset, or the offset is not at the start of a line.
ReadFails ==
    /\ pc = "run" /\ running
    /\ watched # epoch \/ pos0.epoch # epoch
    /\ Down
    /\ UNCHANGED <<fileVars, boundVars>>

\* A line is copied; a block must fit the chain.
CopyLine ==
    /\ pc = "batch" /\ todo # <<>>
    /\ LET line == Head(todo) IN
       /\ line.type = "block" => CanPush(chain, line.item)
       /\ chain' = IF line.type = "block" THEN Push(chain, line.item) ELSE chain
       /\ WriteLog1(line)
    /\ todo' = Tail(todo)
    /\ UNCHANGED <<savedEpoch, savedPos, base, pc, running, pos0, epochRead, target,
                   watched, boundVars>>

CopyFails ==
    /\ pc = "batch" /\ todo # <<>>
    /\ Head(todo).type = "block" /\ ~CanPush(chain, Head(todo).item)
    /\ Down
    /\ UNCHANGED <<fileVars, boundVars>>

\* Mutant of BatchDone: the position is not stored.
BatchDoneUnsaved ==
    /\ pc = "batch" /\ todo = <<>>
    /\ pc' = "run"
    /\ UNCHANGED <<fileVars, procVars, boundVars>>

\* writeLog0IdxOffset() after the last line of the batch.
BatchDone ==
    /\ pc = "batch" /\ todo = <<>>
    /\ savedPos' = pos0
    /\ pc' = "run"
    /\ UNCHANGED <<log1Vars, savedEpoch, base, procVars, boundVars>>

\* The loop of run() ends after a SIGTERM.
Exit ==
    /\ pc = "run" /\ ~running
    /\ Down
    /\ UNCHANGED <<fileVars, boundVars>>

\* stop(), called by the signal handler.
Stop ==
    /\ pc \in StopPCs /\ running /\ stops < MaxStop
    /\ running' = FALSE
    /\ stops' = stops + 1
    /\ UNCHANGED <<fileVars, pc, chain, pos0, todo, epochRead, target, watched, starts, crashes>>

\* kill -9, or the machine stops: lines are flushed one by one.  An RPC call that
\* fails ends the process in the same way.
Crash ==
    /\ pc \in CrashPCs /\ crashes < MaxCrash
    /\ Down
    /\ crashes' = crashes + 1
    /\ UNCHANGED <<fileVars, starts, stops>>

-----------------------------------------------------------------------------
Sync == WriteClear \/ ReadFirstLine \/ StepBack \/ FoundCommon \/ BackFails
            \/ StepForward \/ ForwardFails \/ AtTarget
Save == SaveBegin \/ SaveStatus \/ Watch
Run == ReadBatch \/ ReadFails \/ CopyLine \/ CopyFails \/ BatchDone \/ Exit

Producer == (Start \/ Sync \/ Save \/ Run) /\ UNCHANGED log0Vars

\* The height up to which the chains of a and b agree.
ForkHeight(a, b) == Height[Begin] + CommonLen(Chain[a], Chain[b]) - 1

NodeStep ==
    /\ \/ \E t \in Tx : NodeTx(t)
       \/ \E b \in Block :
            /\ NodeActivate(b)
            /\ savedEpoch # epoch =>
                  ForkHeight(nodeTip, b) + MaxUndo >= Height[log0[1].item]
       \/ \E b \in Block :
            /\ NodeRestart(b)
            /\ QuietInit => pc \in {"down", "run", "batch"}
    /\ UNCHANGED <<fileVars, pc, procVars, boundVars>>

Next == Producer \/ NodeStep \/ ((Stop \/ Crash) /\ UNCHANGED log0Vars)

Spec == Init /\ [][Next]_vars

\* The supervisor restarts log1producer, which keeps taking steps while there is
\* work.  Nothing is assumed of the node.
FairSpec == Spec /\ WF_vars(Producer)

-----------------------------------------------------------------------------
Pos == [epoch : 0..MaxEpoch, line : Nat]

\* Every variable has its type, and chain_ never holds more than its limit.
TypeOK ==
    /\ log0 \in Seq(Line) /\ epoch \in 1..MaxEpoch /\ nodeTip \in Block
    /\ log1 \in Seq(Line \cup {ClearLine})
    /\ rebuilt \in [ok : BOOLEAN, chain : Seq(Block \cup {Begin})]
    /\ savedEpoch \in 0..MaxEpoch /\ savedPos \in Pos /\ base \in Nat
    /\ pc \in PCs /\ running \in BOOLEAN
    /\ chain \in Seq(Block \cup {Begin}) /\ Len(chain) <= ChainLimit
    /\ pos0 \in Pos /\ todo \in Seq(Line)
    /\ epochRead \in 0..MaxEpoch /\ target \in Nat /\ watched \in 0..MaxEpoch
    /\ starts \in 0..MaxStart /\ crashes \in 0..MaxCrash /\ stops \in 0..MaxStop

\* The last block of the first n lines; the begin block if there is none.
BlockLines(lines, n) == {i \in 1..n : lines[i].type = "block"}
LastBlock(lines, n) ==
    IF BlockLines(lines, n) = {} THEN Begin ELSE lines[Max(BlockLines(lines, n))].item

\* The blocks of log1, from the begin block on, are a walk in the block tree:
\* log2producer, which checks every block against the one before, can follow it.
Log1Walk ==
    \A i \in BlockLines(log1, Len(log1)) : Adjacent(LastBlock(log1, i - 1), log1[i].item)

\* log1producer is running, nobody restarted the node, and every line is copied.
CaughtUp == pc = "run" /\ running /\ watched = epoch /\ pos0 = [epoch |-> epoch, line |-> Len(log0)]

\* When every line of log0 is copied, the node, chain_ and log1 have the same tip.
TipMatches == CaughtUp => Tip = nodeTip /\ LastBlock(log1, Len(log1)) = nodeTip

\* Whatever stops log1producer, log1 can be replayed, and the replay rebuilds the
\* chain that the process had.
RestartsCleanly ==
    /\ rebuilt = Replay(log1)
    /\ rebuilt.ok /\ rebuilt.chain # <<>>
    /\ pc # "down" => rebuilt.chain = chain

\* "判读 log0 是否改变. 改变后则抛出异常": between two batches the position, also the
\* saved one, belongs to the log0 that is read, and log1 holds since the last walk
\* exactly the lines of it that were read: none is lost, repeated or out of order.
CopiesLog0 ==
    (pc = "run" /\ watched = epoch) =>
        /\ pos0.epoch = epoch /\ savedEpoch = epoch
        /\ SubSeq(log1, base + 1, Len(log1)) = SubSeq(log0, 2, pos0.line)

\* A kill during the very first walk, after the clear line and before the first
\* block: no later start finds a block in log1.
FirstWalkCut == pc = "down" /\ log1 # <<>> /\ rebuilt.chain = <<>>

\* log1producer always comes back and catches up with log0, unless its first walk
\* was cut.  The run assumes that the node restarts no lower than it was (MayLag =
\* FALSE): with a first line of log0 below chain_, syncBitcoind() throws at every
\* start and asks the operator to restart the node once it is higher.
CatchesUp == []<>(CaughtUp \/ FirstWalkCut)
=============================================================================
