# A TLA+ model of the explorer's log pipeline

This directory holds TLA+ modules for the programs that carry a bitcoin node's
chain and memory pool into the explorer's store and on to its subscribers, the
TLC configurations that check them, and TLAPS proofs about most of them.

## The system

```
 bitcoind (patched)        log1producer          log2producer             tparser                   tnotify
   chain, mempool  --log0-->  chain_   --log1-->  memRepo_, tip  --rows-->  RocksDB  --notify log-->  event tables
                   <--RPC---                      MySQL tables  0_txlogs2    HTTP                     HTTP
```

| component | state | operations | talks to |
|---|---|---|---|
| patched bitcoind | active chain, memory pool, `log0` files, `BEGIN` | writes a line per accepted or removed transaction and per tip change; on start removes the old files and writes its tip first | log1producer, by files and RPC |
| log1producer | `chain_` (last 4032 blocks), `LOG0_BEGIN_TIME`, `LOG0_STATUS`, log1 files | after a restart of the node: write a *clear* line, walk over RPC to the first line of log0; then copy log0 | log2producer, by files and a notify file |
| log2producer | `memRepo_` (unconfirmed transactions and the outputs they spend), current block, timestamps of the last blocks, the MySQL tables `0_txlogs2`, `0_memrepo_txs`, the log1 offset | one handler per kind of line: accept, remove, block forward or back, clear; each ends in a transaction | tparser, by rows; reads tparser's store when it starts |
| MySQLConnection | a connection | `execute()` with one reconnect and repetition, `multiInsert()` | log2producer, tparser |
| tparser | RocksDB: transactions, spends, address lists, unspent outputs, blocks; id of the last row; cache of addresses | a thread fetches rows into a bounded buffer, another applies them one at a time, a third recognises blocks, the main thread serves HTTP and stops the others | log2producer; tnotify, by numbered files |
| tnotify | subscriptions, position in the notify log | turns events into rows per application; HTTP requests change subscriptions | applications |
| apiserver | none of its own | reads RocksDB | clients |

What is hard here: every hand-over is a file or a table that outlives a crash
of either side; a batch is several statements and a row many writes; the node
may restart, drop its pool and come back on another branch at any moment; a
reorganisation must be undone transaction by transaction in an order that the
store can follow. What makes each component correct:

- log1producer: the blocks of log1 are a walk in the block tree, every line of
  log0 is copied once, and a restart rebuilds the chain the process had;
- memory repository: `spentOutputs_` is exactly the index of the transactions
  in memory; table and memory agree between two lines;
- log2producer: no assert fires on what a node writes; rows are a legal history
  of every transaction; a crash anywhere changes nothing in that history;
- tparser: the handlers run in the order of the rows; lists, totals and unspent
  outputs of every address, and the keys of the blocks, are those that the rows
  tell, also when a row is applied again; it can be stopped;
- tnotify: no subscriber misses an event, whoever is killed.

The hazards of this code, each at its line and with the properties that would
notice it, are in `PROJECT.json`.

## Modules

| module | models |
|---|---|
| `BlockTree` | blocks above the configured begin block, the way between two tips |
| `TxGraph` | transactions, outputs, the transactions of a block |
| `MemTxRepository` | class `MemTxRepository` of `Log2Producer.cc` |
| `Log2Producer` | log2producer with its MySQL tables; tparser as the consumer of rows |
| `TxLedger` | abstract specification: what the rows promise to tparser |
| `Bitcoind` | the node and log1producer as log2producer sees them |
| `Log2System` | `Log2Producer` fed by `Bitcoind`; the refinement of `TxLedger` |
| `Log0Node` | the node as log1producer sees it: log0, `BEGIN`, RPC |
| `Log1Producer` | log1producer |
| `RowFeed` | abstract specification: in which order tparser handles the rows |
| `TParser` | the threads of tparser, `BoundedBuffer`, `stop()`; the refinement of `RowFeed` |
| `AddressIndex` | the writes of tparser's four handlers to the keys of transactions and addresses; fed by `TxLedger` |
| `BlockIndex` | the writes of `acceptBlock()` and `rejectBlock()`, class `BlockTimestamp`, class `RecognizeBlock` |
| `NotifyLog` | `NotifyProducer` in tparser and `Notify` in tnotify |
| `SetSums` | the sum of a function over a finite set, used by `AddressIndex` |
| `BlockTreeProofs` | lemmas about chains and sums, and induction over sets, for the other proofs |
| `AddressInvariants` | the inductive invariant of `AddressIndex`, part by part |
| `Log2ProducerProofs`, `Log2SystemProofs`, `Log1ProducerProofs`, `TParserProofs`, `BlockIndexProofs`, `AddressIndexProofs`, `NotifyLogProofs` | theorems about the modules they are named after |
| `MCGraph`, `MCLog2`, `MCLog2Open`, `MCLog1`, `MCAddress`, `MCBlockIndex`, `MCNotify` | the small instances |

The modules join at the abstract specifications: `Log2System` implements
`TxLedger`, and `AddressIndex` takes its rows from `TxLedger`; `TParser`
implements `RowFeed`, and `AddressIndex` and `BlockIndex` take their rows in the
order that `RowFeed` promises, with the repetition after a crash that it allows.

A definition whose comment begins "Mutant of" is a deliberately wrong variant
of the definition after it. No specification uses one; each shows that a
property notices that mistake.

### log2producer

`pc` is the point between two statements. A handler takes a line, changes the
memory repository and builds the rows of its batch (`HandleTxAccept`,
`HandleTxReject`, `ClearMempoolTxs`, `HandleBlockAccept`/`BlockTx`/
`BlockTxsDone`, `HandleBlockRollback`); then each SQL statement is an action:
`MultiInsert` (autocommitted, any split), `StartTransaction`, `InsertAccept` or
`UpdateBatchId`, `SyncInsert`, `SyncDelete`, `UpdateLog1FileStatus`, `Commit`.
`db` is what the connection sees and `disk` what is committed; a crash keeps
`disk`. `InitLog2`, `InitWaits` and `LoadFails` are the three outcomes of
`initLog2()`. `ConnectionLost` is the reconnect of `MySQLConnection::execute()`
inside a transaction, `RepeatInsert` the one outside. Asserts are active in the
project's build (`-g -O2`, no `NDEBUG`), so a failed assert ends the process.

Two facts that the model relies on: `0_txlogs2` is read in the order of its ids,
which is the order of commits because log2producer is its only writer and works
line by line; and `KVDB::open()` takes RocksDB's lock, so `initLog2()` runs only
while tparser is stopped, which is why it may compare tparser's offset with the
table without a race. A line that a handler ignores does not move the stored
offset; it is read again after a restart and ignored again.

`Bitcoind` writes the lines that the patch writes, in its order: removals caused
by a block come before the line of the block, the transactions of a connected
block leave silently, those of a disconnected one return silently, or not
(`forgot` remembers that one did not). After a restart of the node it writes
what log1producer would: a clear line and the way to the new tip. That this is
what log1 looks like is the property `Log1Walk` of `Log1Producer`.

`TxLedger` treats the confirmed transactions as a stack: those of a block are
confirmed in block order and unconfirmed in the reverse order. The address lists
of tparser depend on it (`unconfirmTx()` asserts that the transaction is the
last confirmed one of each of its addresses).

### log1producer

`pc` follows `init()` (`clear`, `first`, `back`, `forward`, `begin`, `status`,
`watch`) and `run()` (`run`, `batch`). `Push` and `CanPush` are `Chain::push()`
with its check of the third block from the end; `Replay` is `initLog1()`, and
the variable `rebuilt` is its result, kept up to date by `WriteLog1`. `epoch` is the content and the
modification time of `BEGIN`. A position is a pair of epoch and line; a position
of another epoch may point at any line of the present log0 or at none. The node
switches branches in one step, because RPC calls wait for its global lock, while
its lines may be read in any portions.

Three constants state what the comments of the code assume: `QuietInit` (the
node does not restart while log1producer initialises), `MaxUndo` (how many
blocks, counted from the first line of log0 down, the node may undo before
log1producer has recorded its walk to that line), and the sets `CrashPCs` and `StopPCs` of places where a kill or a
SIGTERM may fall. `log1_steady` makes these assumptions, with `MaxUndo` 0 because already one
undone block is too many (the walk ends on a block that the node has left, and
the lines that follow never fit). It also takes `MayLag = FALSE` of `Log0Node`: a
node that has lost its last blocks and writes a first line lower than `chain_`
makes `syncBitcoind()` throw at every start (`Log1Producer.cc:734`), each time with
another clear line in log1, until the operator restarts the node at a greater
height, as the message asks. `log1_rough` makes none of these assumptions.

### tparser: threads

`pc[th]` follows the producer (`threadProduceTxlogs()`), the consumer
(`threadHandleTxlogs()`) and the main thread (`stop()`, then the joins of the
destructor). `BoundedBuffer` keeps read rows in `container_` and counts the
unread ones; `PushEnter`, `PushLeave`, `PopEnter` and `PopLeave` are its critical
sections, cut between what they read and what they write, and `UnlockAgain` is
the second unlock of the mutex, by the `unique_lock` after the unlock by hand.
`done` and `redo` are history variables for `RowFeed`: the handled ids, and
whether the last one may come again because a crash fell before its id was
saved.

### tparser: transactions and addresses

Every handler is a list of phases (`Program`), every phase a loop over addresses
or outputs; one round is a step, so a crash can fall between any two writes that
a later step tells apart. The exchange of two nodes of a list (`_switchTxNode()`)
is four steps of its own, `SwitchFirstNode` to `SwitchSecondIndex`, with what it
has read in `moving`; the loop of `confirmTx()` or `rejectTx()` then looks its
node up again, and the height, or the deletion, is another step. `cache` is
`_addrTxCache`, changed by the rounds and written to the 20_ keys in the phase
`flush`; `loaded` remembers what this row brought into the cache, because a
cleaning drops what was created longest ago.
The ledger (`state`, `tip`) moves when a row is taken; the properties compare it
with the store between rows.

`Repeatable` names the points from which a row can be applied again: before the
first 24_ key it needs is deleted and before the first address it changes is
flushed, and outside the first two writes of an exchange (`HalfMoved`), between
which one node is in two places and the other in none. A crash elsewhere sets
`torn`; from there TLC reaches states in which the repeated row throws
(`UnspentMissing`, `ListFails`), loops for ever or counts twice, and nothing is
claimed any more. A `confirm` row whose exchange has both nodes but not both
indexes written is repeatable: the stale index leads to the node that was
displaced, the loop exchanges the two back, writes the indexes, finds its node
out of place and exchanges them again. So the comment "仅会执行一次" (executed only
once, `Parser.cc:1404`) does not hold of a row applied again. That the loop
ends is part of `NeverFails`: each exchange is one of the row's own node. The
totals change by the balance of the node that the index finds (`NodeTx`), as in
the code, and not by that of the row.

### tparser: blocks, timestamps, recognition

log2producer puts the highest timestamp of its window into the rows of a block;
tparser uses it in the 14_ key, and deletes that key with the timestamp of
another row when the block is undone. `BlockIndex` has both sides: the window
(`ts`, `currMax`), its load at a restart, the writes of a row numbered by `step`,
and the thread that marks blocks at every start (`started`, `scan`).

`TimeAssumption` states what consensus gives: the highest timestamp of a chain
is among the last `Recent` blocks (headers are at most two hours ahead), and the
window is longer than that plus any number of blocks undone in a row.

### Notifications

`wpc` follows tparser through the one or two calls of `NotifyProducer::write()`
of a row (one without an event changes nothing), each cut between two lines or
inside one, and the saving of the row's id;
`rpc` follows `threadConsumeNotifyLogs()`: look for the next file, read lines,
handle each under `lock_` (offset, one INSERT per application, status), switch
files. `inbox` holds the rows of the event tables as places of lines, so that a
repetition by tparser (another line) and one by tnotify (the same line) differ.
`DeliverTwice` is the INSERT whose answer is lost after the server has run it:
`MySQLConnection::execute()` connects again and repeats it, the table has only an
`AUTO_INCREMENT` key, and `updateOrThrowEx()` sees the one row of the repetition.
A statement on `app_subcribe` or on the status repeated in this way finds nothing
to change, or the unique key, and its exception ends tnotify, which is a kill
right after the step.
A piece of a line that a kill leaves behind spoils the next line (`Garbled`);
`parse()` then ends tnotify on an assert or takes it for some event.

## Runs

| run | shows |
|---|---|
| `log2_node` | with a node, a crash anywhere and a repeated INSERT: `NeverAborts`, `StoreMatchesRepo`, `RepoMatchesNode`, `ParentsPresent`, the refinement `RowsFollowLedger`, and `CatchesUp` |
| `log2_open` | arbitrary lines, crashes, a lost connection: `TypeOK`, `SpentExact`; until a connection is lost `TablesAgree`, `RepoSynced`, `LoadNeverFails` and the inductive invariant `RepoInv` |
| `log1_steady` | in the environment that the comments of the code assume (see the table below): `Log1Walk`, `TipMatches`, `CopiesLog0`, and `CatchesUp` |
| `log1_rough` | no assumptions: `TypeOK`, `RestartsCleanly` |
| `tparser` | `NeededRowsKept`, the refinement `RowsFedInOrder`, `CatchesUp`, `StopWithRoomEnds` |
| `address_index` | every history of nine rows, a crash between any two rounds or writes of an exchange, a cleaning of the cache: `ListsExact`, `ConfirmedFirst`, `TotalsExact`, `UnspentListed`, `CacheMatchesStore`, `NeverFails` |
| `block_index` | forks, crashes between two writes, a restart of log2producer: `HeightsAreChain`, `BlocksExact`, `TimestampsExact`, `WindowFollowsTip`, `MarksComplete` |
| `notify` | kills of both programs, an INSERT run twice, a change of files, requests: `NoEventSkipped`, `RepeatsOnlyAfterFault`, `EventsArrive` |

Four runs end in a counterexample; each is a disagreement between the code and
one of its comments, quoted in `PROJECT.json`:

- `log2_lost_txn`: a connection lost inside a transaction; `execute()`
  reconnects and the rest of the batch runs outside a transaction.
- `log1_reorg`: a fork two blocks deep between the node's first line and the
  walk: a sibling passes the check of `Chain::push()`, and log1 is no walk.
- `address_evict`: a cleaning of the address cache in the middle of a row drops
  changes that are not flushed; an index of unspent outputs is used twice.
- `tparser_stop`: `stop()` waits forever for room in the buffer, because the
  consumer has already ended.

### What the passing runs assume

Each assumption is a constant or a history variable, and TLC finds the property
violated without it:

| assumption | without it |
|---|---|
| `~forgot` in `ParentsPresent`, `RepoMatchesNode`: the node takes the transactions of undone blocks back | a transaction that conflicts with one only log2producer holds is ignored, its child is not |
| no connection lost inside a transaction (`RepoInv` and what follows from it) | `log2_lost_txn` |
| `QuietInit`, `MaxUndo`, `StopPCs` in `log1_steady` | a restart of the node that is never noticed; `log1_reorg`; a walk that SIGTERM ended and that is recorded as complete |
| `MayLag = FALSE` in `log1_steady`, for `CatchesUp`: a restarted node is not lower than before | every start throws at `Log1Producer.cc:734`, until the node is restarted once more |
| `FirstWalkCut` in `CatchesUp` of log1producer | a log1 with a clear line and no block, which every start refuses and asks the operator to remove |
| `StrayUnlock = FALSE` in `tparser`: the second unlock does not fall into another thread's section | a row is handled twice |
| `EvictDirty = FALSE` in `address_index`: a cleaning drops only flushed objects, or there is none yet | `address_evict` |
| `~torn` in `AddressIndex`: no kill behind the point up to which a row can be repeated, or between the first two writes of an exchange | a row that throws or loops at every start, or counts twice |
| no output names an address twice (`MCPayTo`) | two unspent nodes share a 24_ key; the spending row throws |
| `~cut` in `MarksComplete` | blocks below a mark that no start looks at |
| `~torn` in `NotifyLog` | the event of a spoiled line is lost |

### Bounds

log2: four transactions, two conflicting pairs of parent and child, and three
blocks on two branches are the smallest graph with a conflict, a dependency
inside and across blocks, and a reorganisation that replaces one by the other;
3 and 4 lines (`MaxLines`; a block with its removals is several) reach a block,
its undoing and the other branch, one crash (`MaxCrash`), one lost connection
(`MaxDrop`), one repetition (`MaxRepeat`). `Lockstep` lets the node wait for
log2producer: the node never looks at log2producer, and log2producer never reads
ahead, so this only leaves out other orders of independent steps.

log1: three common blocks, so that `Chain::push()` accepts steps back, and
branches of two and three blocks; two starts of the node, 7 lines per start in
`log1_steady` and 4 in `log1_rough`, one kill, one SIGTERM. `ChainLimit` 5 makes
the chain forget blocks within these runs. `Tx` is empty in `log1_steady`:
transaction lines are copied like the others and leave the chain alone, as
`log1_rough`, which has one, shows.

tparser: a buffer of two rows and seven rows fill it, wrap around and trigger the
deletion of old rows (`KeepNum` 4, `CleanEvery` 2: at row 6); one crash, one signal.
Addresses: three transactions (two rivals and a child), an output shared by two
addresses, two rival blocks; nine rows reach a block, its undoing and the
rejection or second confirmation of its transaction. Blocks: a common part of
four blocks and branches of two and three, with timestamps that go down on both;
six moves, at most two rows ahead of tparser, one crash, one restart; the window
of six drops a block on the longer branch. Notifications: a row of two lines, and
one with a block event and a call without a line, files of one line or two so that
the file changes, one kill of each program, one INSERT run twice (`MaxRepeat`), two
changes of a subscription (added, then removed).

Deadlock is not checked: with every bound used up and all lines handled the
programs wait, as they should.

### Fairness

Weak fairness of the steps of each program or thread (an exception is one) and
of its start: log2producer and tparser's rows in `log2_node`; log1producer in
`log1_steady`; the three threads and the restart in `tparser`; both programs in
`notify`. All are single loops that sleep at most three seconds, and a
supervisor starts them again. For log2producer a start needs tparser to be
stopped for a moment (the RocksDB lock), which the operator or supervisor has to
arrange. Weak fairness of a thread is enough for the buffer, because its
conditions stay true until the thread that waits for them moves. Nothing is
assumed of the node, of signals and of requests, and crashes are finitely many.

## Proofs

The theorems hold for any sets of transactions, blocks, addresses and
applications, any lines and any bounds. Each follows the same plan: an inductive
invariant, a lemma for the initial state, lemmas for the actions, and a last step
that joins them.

`BlockTreeProofs` replaces induction over data, which the provers do not have, by
induction over sets: a set of numbers has a least element (`NatMin`, from the
finite-set library), a set of blocks that contains the begin block and follows
`Prev` has all blocks (`TreeInduction`), and `UpTo` counts. With these the
recursive functions `Chain` (`ChainDef`) and `Replay` are shown to satisfy their
equations, and `ChainShape`, `CommonPart` and `WayShape` say what chains and the
way between two tips look like.

### log2producer (`Log2ProducerProofs`)

- `TypeCorrect`: `Spec => []TypeOK`;
- `SpentOutputsExact`: `Spec => []SpentExact`. `spentOutputs_[o] = t` exactly
  when `t` is in memory and spends `o`. `SpentExact` is inductive together with
  `TypeOK`: adding is guarded by `CanAdd`, and a removed transaction takes
  exactly its own entries along because no other one in memory can have them;
- `RepoInvHolds`: `Spec => []RepoInv`;
- `RepositorySurvives` and `RestartLoads`: `RepoSynced` and `LoadNeverFails`
  follow from it;
- `RowsMatchTable`: `Spec => []TablesAgree`.

`RepoSynced` alone is not inductive: it says something only at `pc = "idle"`.
`RepoInv` adds what holds in between: a transaction is open exactly while the
statements of a batch run, and outside one the connection sees what is committed
(`TxnInv`); in each phase, how `txs`, the two unsynchronized sets and the table
relate (`SyncInv`; while a block is handled a transaction may be in both sets,
and after its transactions are removed again the two statements of `syncToDB()`
still produce the repository, or the row count fails); and that the line being
handled exists (`LineInv`). It says this of runs in which no connection has been
lost inside a transaction so far; `log2_lost_txn` shows what a lost one does.

`TablesAgree` needs in addition what the rows of an unfinished batch will leave
(`RowsInv`): while a block is handled, that the rows so far reject what it pushed
out and confirm its transactions; while rows are inserted, that either the rows
inserted and still to come are exactly the batch, which then leaves what is in
memory, or the row count is too high and will be refused. `LeftUnconfirmed` looks
at the last row of a transaction; `LeftConcat` says how that behaves when tables
of rows are joined.

### log2producer between the node and tparser (`Log2SystemProofs`)

- `SysInvHolds`: `SysSpec => []SysInv`, the inductive invariant;
- `SystemNeverAborts`, `StoreHoldsRepo`, `RepoFollowsNode`, `ParentsArePresent`:
  `NeverAborts`, `StoreMatchesRepo`, `RepoMatchesNode`, `ParentsPresent`;
- `RowsRunLedger`: `SysSpec => RowsFollowLedger`, the refinement of `TxLedger`.

Hypothesis of all: `MaxDrop = 0`, no connection is lost inside a transaction (the
run `log2_node` has it too; `log2_lost_txn` shows that it is needed). Crashes,
repeated INSERTs and what the node does are not restricted, and the node may run
ahead.

None of the properties is inductive: they speak of moments at which nothing is
under way. `SysInv` says what holds in between, in three layers:

- rows. A ledger state is a tip, a set of confirmed and a set of unconfirmed
  items; `St(c, M)` is the one with the chain up to `c` and the repository `M`.
  `Leads(g, s, rows, k, t)` says that the rows after the first `k` are a run of the
  ledger from `s` to `t`, each satisfying the guards of `TxLedger`, and unless `g`
  the parents of an accepted transaction are present. One lemma per handler shows
  that its rows lead from the state before to the state after (`AcceptRun`,
  `RejectRun`, `UndoRun`; for a block `CoinbaseRun`, `ConfirmRun`, `NewTxRun` and
  `MidEnd`), and `LeadsThen` joins runs;
- log2producer. `StoreInv`: the committed rows that tparser has not consumed lead
  from its store to `St` of the committed offset and table. `BlockInv` and
  `BatchInv`: the rows built so far lead from there to what is in memory, for a
  block with what it pushes out separated from what it confirms, because the
  rejects are written first; a batch whose count will be found right is complete.
  A commit joins the two, a crash falls back to `StoreInv`, and `initLog2()`
  finds tparser's tip to be that of the stored offset because it waits until
  tparser has consumed everything;
- lines. `TipOf` is the tip that a prefix of log1 leads to, `PoolStep` what a line
  does to the node's pool. `NodeWrites` shows, for each step of the node, that the
  lines it writes lead from its old tip and pool to the new ones: removals in any
  order amount to the removal of all descendants (`RemoveRun`, `DescSplit`), and the
  walk after a restart is one of adjacent blocks (`WalkRun`). `LinesInv` and
  `PoolInv` carry this to the line that log2producer is at: a block line is
  adjacent to its tip, nothing in memory is on the chain or conflicts with it
  (`MemOK`), and, unless `forgot`, the repository is the pool at that line.

`ConsensusAssumption` (below) is what makes the handlers of blocks succeed: the
transactions of a block that are new to memory push out nothing of that block.

### log1producer (`Log1ProducerProofs`)

- `TypeCorrect`;
- `RestartRebuilds`: `RestartsCleanly`, that `initLog1()` rebuilds the chain the
  process had, from `CleanInv` (outside a start, the replay of log1 is the chain);
- `Log1IsWalk`, `CopiedOnce`, `TipsAgree`: `Log1Walk`, `CopiesLog0`, `TipMatches`,
  from `SteadyInv` (the walk of `init()` ends where the first line of log0 begins,
  the lines that are read but not copied continue the chain, and the recorded
  position is the number of copied lines).

Hypotheses: `Begin \notin Bases` and `DeepBack` for the second, `Steady` and
`DeepCopy` for the others. `Steady` is what `log1_steady` assumes. `DeepBack` and
`DeepCopy` say that the chain is longer than three blocks when it is walked back:
`Chain::push()` looks at the third block from the end, and with a shorter chain
it refuses or misjudges the step. They are predicates of the state and hold in
every state of the runs; a chain of 4032 blocks is shorter than four only in the
first blocks of an installation.

### tparser (`TParserProofs`, `BlockIndexProofs`, `AddressIndexProofs`)

- `TypeCorrect` of `TParser`: with the second unlock anywhere the buffer still
  respects its capacity;
- `FeedInvHolds`, `NeededRowsStay`, and `RowsFed`: the threads implement
  `RowFeed`. The invariant `FeedInv` says who may be inside a section, that the
  rows in the buffer and in the threads' hands are those after the saved id, in
  order and without a gap, and what `done` and `redo` remember. Hypothesis:
  `~StrayUnlock`, without which it is false;
- `IndexInvHolds`, from which `HeightsFollow`, `BlocksFollow`, `TimestampsFollow`,
  `WindowFollows`, `MarksFollow` and `TypeCorrect` of `BlockIndex`. `IndexInv`
  says for every `step` of a row which keys are already those of the new tip and
  which still those of the old one, so that a repetition after a crash anywhere
  ends in the same store; that the window is the last blocks of log2producer's
  chain; and that the recognition thread has marked what it has passed.
  `TimeAssumption` is needed for the window only.
- `CacheInvHolds`, from which `TypeCorrect` of `AddressIndex` and
  `CacheFollowsStore` (`CacheMatchesStore`), without a hypothesis: for both ways of
  cleaning the cache, and also after a crash that tore a row. `CacheInv` says of
  every cached object that it is the one of the store or that the row under way
  has changed it and has its flush still to come. That needs two facts about the
  control: a phase is jumped over only when it has nothing to do (`Arrive`,
  `Advance`), and the changes of one row to an address never cancel out
  (`Changed`), so that a cleaning which spares changed objects drops nothing the
  row has loaded;
- `ListsStayExact` (`ListsExact`), `OrderStaysExact` (`ConfirmedFirst`),
  `TotalsStayExact` (`TotalsExact`): each property holds in every state in which
  `Whole` does; `UnspentStayListed` (`UnspentListed`) and `TparserNeverFails`
  (`NeverFails`) likewise, for graphs with `PaysOnce` (no output names an address
  twice). `Whole` says that no change of an address object was lost: the cache has
  not been cleaned so far, or a cleaning drops only flushed objects
  (`~EvictDirty`). The first is the code as it is, until more than `kMaxCacheCount`
  addresses are cached; from then on `Parser.cc:706-716` drops the oldest half,
  flushed or not, and `address_evict` is the counterexample. The second is what
  the run checks, which says that nothing else is wrong with a cleaning. As to
  `PaysOnce`, nothing in `Parser.cc:958-1001` and `893-928`, which insert and delete
  the nodes of an output address by address, would notice an address that occurs
  twice.

The last five speak of the moments between two rows. In the middle of a row some
keys are those of the new ledger state and some those of the old one, and after a
crash the rounds that were done are done again on keys that have them already.
Their invariant, `OutputsInv`, therefore describes every kind of key as a function
of the ledger and of the rounds that are left (`Rest(p)`), and once more as if all
rounds were left (`Full(p)`), as long as the row is `Repeatable`: a step removes one
round from the first description and must leave the second alone, and a crash
replaces the first by the second. Its parts:

- `CacheInv`, as above; with `Whole` it says that the object a handler gets
  is the one of the store plus what this row has changed (`GetAddressInfo`), for
  what a cleaning drops is in the 20_ keys (`DropsSaved`, `PutInfo`). The other
  parts are invariants under `Whole`, which can only become false (`WholeNext`);
- `LedgerInv`: which states the ledger can be in (`LedgerOK`). What is confirmed
  lies on the chain of the tip, a block before its transactions and these in the
  order of the block; parents are present and conflicts are not. From it follows
  what each row may rely on (`RowOK`, `Takes`): the transaction that is confirmed
  comes after all confirmed ones (`OnTop`), the one that is unconfirmed was the
  last of them, a rejected one has no child left. This is what `confirmTx()`,
  `unconfirmTx()` and `rejectTx()` need and check nowhere, or by an assert;
- `BookInv`: for every address the list, its index, its order, the heights and the
  totals (`BookAt`), now (`BooksNow`, with the object a handler sees) and after a
  crash (`BooksAgain`, with the object in the store). Rows that accept or reject
  cannot be repeated from "list" on; one that confirms or unconfirms can, and
  finds its node already exchanged, or its height already the new one
  (`ExemptAt`). During the exchange of two nodes the list is seen with both of them
  (`ListView`, which fills in the one that the first write has taken away), and
  `MoveOK` says which writes are done. The index is kept apart from the nodes:
  `LinksOK` allows it to lag behind for the node of a `confirm` row still to come
  and the node it was exchanged with, which is what an interrupted exchange
  leaves. `BookFirstNode` to `BookSecondIndex` are the four writes, and the last
  one leaves index and nodes in agreement (`Settled`);
- `KeysInv`: 01_, 02_, 03_ and the counter, each given the rounds of its phase. A
  key of the row counts for nothing until its round is done, so these need no
  second description;
- `SpentInv` and `UnspentInv`: the outputs that a row inserts or deletes, and for
  every address its 23_ and 24_ keys, the highest index and the counter
  (`UnspentAt`, `CountedAt`). After a crash the nodes that a row has inserted lie
  above the index of the object in the store; the row writes the same number of
  nodes over them, which is why none is left over;
- `PlacedInv` and `NeverFails` itself: an unconfirmed row has a place in the chain,
  and the other parts say that what the handlers look up is there (`UnspentThere`,
  `ListRuns`).

Sums over sets (`SumOver` in `SetSums`) are folds, recursive in the set. `SumsExist`
in `BlockTreeProofs` shows, by the least size for which it fails, that a function satisfying the recursion exists on
the subsets of a finite set, and from that the sum of a set with one member more
or less.

### Notifications (`NotifyLogProofs`)

- `TypeCorrect`, `RepeatsBounded` (`RepeatsOnlyAfterFault`: at most one repetition
  per kill of tnotify or INSERT run twice, an earlier line after a later one only
  by a kill) and `NothingSkipped` (`NoEventSkipped`). The invariants relate the place where tnotify reads, the
  place it has saved and what each application was told (`ToldInv`), and say that
  the lines on disk are the events up to the writer's place, in order
  (`WrittenInv`), unless a kill cut a line.

### Assumptions about constants

`BlockTreeAssumption` (a tree with consecutive heights), `TxGraphAssumption`
(types; `Tx` finite), `BlockAssumption` (the consensus rule that no block contains
a transaction twice or a double spend), `ConsensusAssumption` of `Log2System` (the
transactions of a block are new to its chain, have their parents there or before
them in the block, and conflict with nothing there; no transaction spends an
output of its own), `TimeAssumption` (above),
`NotifyAssumption` (types; a row makes at least one call of `write()`; a
subscription is either constant or changed by requests), `AddressAssumption`
(types; finitely many addresses and outputs), `OutputAssumption` (an output has one
creator, and a transaction spends outputs of other transactions or of the time
before the initial load: that a coinbase is spent, 100 blocks after its block, is
left out of this model, as it is out of `TxLedger`), `ChainAssumption` (a chain has
a transaction once), and the types of the bounds.

### Only model-checked

- Liveness (`CatchesUp`, `StopWithRoomEnds`, `EventsArrive`), which is out of the
  prover's reach, as is `ENABLED`.

## Not modelled

- Switching and removal of log0 and log1 files (one sequence of lines stands for
  the files of a log; log2producer may remove a file that a starting log1producer
  has just listed, `Log2Producer.cc:494`, which ends that one start); the begin height -1 of log1producer.
- `raw_txs` and `0_raw_blocks`, tables of constants that are inserted once, and
  `TxInfoCache` over them, whose answers do not depend on what it keeps (its
  eviction reads an iterator that may just have been erased, `Parser.cc:253`).
  `0_raw_blocks` is cleaned behind the highest id that log2producer inserted, not
  behind what tparser consumed (`Parser.cc:1928`): a backlog of more than 4320
  blocks could not be consumed.
- Notifications between the programs: one only shortens a wait of three seconds.
- RPC, SQL and HTTP syntax; the contents of transactions beyond inputs, outputs,
  addresses and values; the tagging of coinbases with pools.
- The request handlers of `HttpAPI`: they read the store, keep no state, and are
  formatting for the rest. They run beside the consumer thread, so a handler may
  see an address object and its list from two moments of a row
  (`HttpAPI.cc:407`); the properties of `AddressIndex` hold between rows.
- `jiexi.bootstrap`, the offline loader: it fills an empty store once from a fixed
  chain, without forks, recovery or other programs. What it leaves in the store is
  the initial state of `BlockIndex` and `AddressIndex`; two of its stages read the
  number of running producers after they have emptied the buffer
  (`PreAddress.cc:162`, `PreTx.cc:97`), so a last block may stay unwritten.
- The second failure of `execute()` within one statement, and a failed `COMMIT`, whose
  result is not looked at (`Log2Producer.cc:688`, `855`): `ConnectionLost` models
  the one reconnect, and what it shows is not changed by a second one.

Of the roughly 72000 lines of C and C++ in the repository about four fifths are
copies of bitcoin's sources (twice), RocksDB's and FlatBuffers' headers,
inotify-cxx, a JSON reader, gtest and generated code, none of which is the
program's own logic. The modules cover the handlers of the four programs; what
remains of the repository's own lines is configuration, logging, option parsing,
formatting, SQL text and sockets, in which there is no state for a property to
be about.

## Plan

Every invariant and refinement that a passing run checks is also proved;
what remains is liveness. What the model could still take in:

- transactions that spend a coinbase: `TxLedger` would need the blocks among the
  parents of a transaction, and `Bitcoind` the removal of its spenders when the
  block is undone;
- the requests of `HttpAPI` beside the consumer thread, with what they may see of
  a row under way.
