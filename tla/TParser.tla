------------------------------ MODULE TParser ------------------------------
(***************************************************************************)
(* The threads of tparser: threadProduceTxlogs() fetches the rows of       *)
(* 0_txlogs2 and puts them into a bounded buffer, threadHandleTxlogs()     *)
(* takes them out, runs their handlers and writes the id of the last row   *)
(* to the key-value store, and stop(), run by the signal handler in the    *)
(* main thread, puts an empty row into the buffer so that the consumer     *)
(* wakes up.  The destructor then joins the threads.                       *)
(*                                                                         *)
(* BoundedBuffer is modelled with its mutex.  pushFront() and popBack()    *)
(* unlock it twice: by hand before the notification, and when the          *)
(* unique_lock goes out of scope.  The second unlock frees the mutex for   *)
(* others even if another thread has taken it in between (undefined by the *)
(* standard, what an ordinary glibc mutex does); StrayUnlock says whether  *)
(* that happens.                                                           *)
(*                                                                         *)
(* Abstractions: a row is its id and its handler is one step (AddressIndex *)
(* and BlockIndex look inside); the wait for new rows polls, so the        *)
(* notifications only shorten it; threadWatchNotifyFile() and              *)
(* threadRecognizeBlock() end by themselves after stop().                  *)
(***************************************************************************)
EXTENDS Integers, Sequences

CONSTANTS
    Capacity,     \* of txlogsBuffer_ (200)
    KeepNum,      \* kKeepNum: rows that stay behind the fetched one (2000000)
    CleanEvery,   \* every how many rows old ones are deleted (20000)
    StrayUnlock,  \* a second unlock may fall into another thread's section
    MaxRows,      \* bound: rows ever committed by log2producer
    MaxCrash,     \* bound: crashes
    MaxStop       \* bound: signals

\* The rows in the buffer and in the hands of the two threads are not deleted.
ASSUME TParserAssumption ==
    /\ Capacity \in Nat \ {0} /\ CleanEvery \in Nat \ {0}
    /\ KeepNum \in Nat /\ KeepNum > Capacity + 1
    /\ StrayUnlock \in BOOLEAN
    /\ MaxRows \in Nat /\ MaxCrash \in Nat /\ MaxStop \in Nat

VARIABLES
    table,       \* the ids of the committed rows in 0_txlogs2
    top,         \* the highest id ever committed
    saved,       \* 90_tparser_txlogs_offset_id
    running,     \* running_
    container,   \* container_, the newest row first; rows already read stay
    unread,      \* unread_
    locked,      \* the mutex of the buffer
    pc,          \* pc[th]: where a thread is
    row,         \* row[th]: the row it holds, Empty for the row of stop()
    tmp,         \* tmp[th]: unread_ as it read it inside its section
    lastId,      \* lastTxLog2Id of the producer
    done,        \* history: the handled rows
    redo,        \* history: the last handled row was not saved before a crash
    crashes, stops

bufVars == <<container, unread, locked>>
vars == <<table, top, saved, running, bufVars, pc, row, tmp, lastId, done, redo,
          crashes, stops>>

Thread == {"producer", "consumer", "main"}
Empty == 0
PCs == [producer |-> {"start", "fetch", "check", "push", "in", "out", "gone"},
        consumer |-> {"loop", "pop", "in", "out", "handle", "save", "gone"},
        main |-> {"serve", "push", "in", "out", "join", "down"}]

Up == pc["main"] # "down"

TypeOK ==
    /\ top \in 0..MaxRows
    /\ table \subseteq 1..top
    /\ saved \in 0..top /\ lastId \in 0..top
    /\ running \in BOOLEAN /\ locked \in BOOLEAN
    /\ container \in Seq(0..top) /\ Len(container) <= Capacity
    /\ unread \in 0..Len(container)
    /\ pc \in [Thread -> UNION {PCs[th] : th \in Thread}]
    /\ \A th \in Thread : pc[th] \in PCs[th]
    /\ row \in [Thread -> 0..top]
    /\ tmp \in [Thread -> 0..Capacity]
    /\ done \in Seq(1..top)
    /\ redo \in {0, 1} /\ crashes \in 0..MaxCrash /\ stops \in 0..MaxStop

\* Parser::Parser() and init(): the threads start.
Started(r) ==
    /\ running' = r
    /\ container' = <<>> /\ unread' = 0 /\ locked' = FALSE
    /\ row' = [th \in Thread |-> Empty]
    /\ tmp' = [th \in Thread |-> 0]
    /\ lastId' = 0

Init ==
    /\ table = {} /\ top = 0 /\ saved = 0
    /\ running = TRUE
    /\ container = <<>> /\ unread = 0 /\ locked = FALSE
    /\ pc = [producer |-> "start", consumer |-> "loop", main |-> "serve"]
    /\ row = [th \in Thread |-> Empty]
    /\ tmp = [th \in Thread |-> 0]
    /\ lastId = 0
    /\ done = <<>> /\ redo = 0 /\ crashes = 0 /\ stops = 0

-----------------------------------------------------------------------------
(* BoundedBuffer. *)

At(th, from, to) == pc[th] = from /\ pc' = [pc EXCEPT ![th] = to]

\* The thread gets the mutex.  Unless StrayUnlock, nobody is between the two
\* unlocks then.
Lock(th) ==
    /\ ~locked
    /\ StrayUnlock \/ \A other \in Thread : pc[other] # "out"
    /\ locked' = TRUE
    /\ UNCHANGED <<container, unread>>

\* Mutant of Room: one row too many.
RoomForOneMore == unread <= Capacity

\* The predicate of notFull_.wait().
Room == unread < Capacity

\* pushFront(): the mutex, the wait for room, and what the section reads ...
PushEnter(th) ==
    /\ Room
    /\ Lock(th)
    /\ tmp' = [tmp EXCEPT ![th] = unread]
    /\ At(th, "push", "in")
    /\ UNCHANGED row

PushFront(x) ==
    <<x>> \o SubSeq(container, 1, IF Len(container) < Capacity THEN Len(container)
                                  ELSE Capacity - 1)

\* ... what it writes, up to the first unlock.
PushLeave(th) ==
    /\ At(th, "in", "out")
    /\ container' = PushFront(row[th])
    /\ unread' = tmp[th] + 1
    /\ locked' = FALSE
    /\ UNCHANGED <<row, tmp>>

\* The second unlock.
UnlockAgain(th, next) ==
    /\ At(th, "out", next)
    /\ locked' = FALSE
    /\ UNCHANGED <<container, unread, row, tmp>>

\* popBack(): the oldest unread row.
PopEnter ==
    /\ unread > 0
    /\ Lock("consumer")
    /\ tmp' = [tmp EXCEPT !["consumer"] = unread - 1]
    /\ row' = [row EXCEPT !["consumer"] = container[unread]]
    /\ At("consumer", "pop", "in")

PopLeave ==
    /\ At("consumer", "in", "out")
    /\ unread' = tmp["consumer"]
    /\ locked' = FALSE
    /\ UNCHANGED <<container, row, tmp>>

\* A thread's step in the buffer changes nothing else.
InBuffer(step) ==
    /\ step
    /\ UNCHANGED <<table, top, saved, running, lastId, done, redo, crashes, stops>>

-----------------------------------------------------------------------------
(* threadProduceTxlogs() *)

ProducerIdle == UNCHANGED <<top, saved, running, bufVars, tmp, done, redo, crashes, stops>>

\* Mutant of GetLastTxLog2Id: a restart goes on behind the newest row.
GetLastTxLog2IdOfTable ==
    /\ At("producer", "start", "fetch")
    /\ lastId' = top
    /\ ProducerIdle /\ UNCHANGED <<table, row>>

GetLastTxLog2Id ==
    /\ At("producer", "start", "fetch")
    /\ lastId' = saved
    /\ ProducerIdle /\ UNCHANGED <<table, row>>

\* Mutant of Expired: the rows in the buffer are not spared.
ExpiredByCount(i, id) == i < id

\* The rows that the DELETE of tryFetchTxLog2FromDB() removes.
Expired(i, id) == i < id - KeepNum

\* tryFetchTxLog2FromDB(): the next row, and now and then the old ones go.
\* Without a row the thread waits up to three seconds and asks again.
TryFetchTxLog2FromDB ==
    /\ running
    /\ At("producer", "fetch", "check")
    /\ \E id \in table :
          /\ id > lastId
          /\ \A i \in table : i > lastId => id <= i
          /\ row' = [row EXCEPT !["producer"] = id]
          /\ table' = IF id > KeepNum /\ id % CleanEvery = 0
                      THEN {i \in table : ~Expired(i, id)} ELSE table
    /\ ProducerIdle /\ UNCHANGED lastId

CheckRunning ==
    /\ running
    /\ At("producer", "check", "push")
    /\ ProducerIdle /\ UNCHANGED <<table, row, lastId>>

\* The end of the loop body: the row is in the buffer.
PushedRow ==
    /\ UnlockAgain("producer", "fetch")
    /\ lastId' = row["producer"]
    /\ UNCHANGED <<table, top, saved, running, done, redo, crashes, stops>>

ProducerEnds ==
    /\ ~running
    /\ At("producer", "fetch", "gone") \/ At("producer", "check", "gone")
    /\ ProducerIdle /\ UNCHANGED <<table, row, lastId>>

Producer ==
    \/ GetLastTxLog2Id \/ TryFetchTxLog2FromDB \/ CheckRunning \/ PushedRow
    \/ ProducerEnds
    \/ InBuffer(PushEnter("producer")) \/ InBuffer(PushLeave("producer"))

-----------------------------------------------------------------------------
(* threadHandleTxlogs() *)

ConsumerIdle == UNCHANGED <<table, top, running, bufVars, row, tmp, lastId, redo, crashes, stops>>

ConsumerLoops ==
    /\ running
    /\ At("consumer", "loop", "pop")
    /\ ConsumerIdle /\ UNCHANGED <<saved, done>>

ConsumerEnds ==
    /\ ~running
    /\ At("consumer", "loop", "gone")
    /\ ConsumerIdle /\ UNCHANGED <<saved, done>>

\* An empty row is skipped.
GotRow ==
    InBuffer(UnlockAgain("consumer", IF row["consumer"] = Empty THEN "loop" ELSE "handle"))

\* Mutant of HandleRow: the id is written before the handler runs.
HandleRowSaved ==
    /\ At("consumer", "handle", "save")
    /\ saved' = row["consumer"]
    /\ done' = done
    /\ ConsumerIdle

\* acceptTx(), confirmTx(), acceptBlock() ...
HandleRow ==
    /\ At("consumer", "handle", "save")
    /\ done' = Append(done, row["consumer"])
    /\ redo' = 0
    /\ UNCHANGED <<table, top, saved, running, bufVars, row, tmp, lastId, crashes, stops>>

UpdateLastTxlog2Id ==
    /\ At("consumer", "save", "loop")
    /\ saved' = row["consumer"]
    /\ ConsumerIdle /\ UNCHANGED done

Consumer ==
    \/ ConsumerLoops \/ ConsumerEnds \/ GotRow \/ HandleRow \/ UpdateLastTxlog2Id
    \/ InBuffer(PopEnter) \/ InBuffer(PopLeave)

-----------------------------------------------------------------------------
(* The main thread, and what happens to the process. *)

\* Mutant of Wake: stop() does not put the empty row into the buffer.
WakeNobody == [pc EXCEPT !["main"] = "join"]

\* Where stop() goes on after it has cleared running_.
Wake == [pc EXCEPT !["main"] = "push"]

\* The signal handler calls stop(); a second signal finds running_ cleared.
Stop ==
    /\ stops < MaxStop
    /\ pc["main"] = "serve"
    /\ running' = FALSE
    /\ pc' = Wake
    /\ stops' = stops + 1
    /\ UNCHANGED <<table, top, saved, bufVars, row, tmp, lastId, done, redo, crashes>>

\* The empty row is in the buffer: the event loop ends, run() returns, and the
\* destructor joins the threads.
Woken == InBuffer(UnlockAgain("main", "join"))

Exit ==
    /\ pc["producer"] = "gone" /\ pc["consumer"] = "gone"
    /\ At("main", "join", "down")
    /\ UNCHANGED <<table, top, saved, running, bufVars, row, tmp, lastId, done, redo,
                   crashes, stops>>

Main ==
    \/ Stop \/ Woken \/ Exit
    \/ InBuffer(PushEnter("main")) \/ InBuffer(PushLeave("main"))

\* kill -9, or an exception in a thread, which ends the process.
Crash ==
    /\ Up
    /\ crashes < MaxCrash
    /\ crashes' = crashes + 1
    /\ pc' = [producer |-> "gone", consumer |-> "gone", main |-> "down"]
    /\ redo' = IF done # <<>> /\ saved # done[Len(done)] THEN 1 ELSE 0
    /\ Started(FALSE)
    /\ UNCHANGED <<table, top, saved, done, stops>>

\* The supervisor starts tparser again.
Restart ==
    /\ ~Up
    /\ pc' = [producer |-> "start", consumer |-> "loop", main |-> "serve"]
    /\ Started(TRUE)
    /\ UNCHANGED <<table, top, saved, done, redo, crashes, stops>>

\* log2producer commits a row.
CommitRow ==
    /\ top < MaxRows
    /\ top' = top + 1
    /\ table' = table \cup {top + 1}
    /\ UNCHANGED <<saved, running, bufVars, pc, row, tmp, lastId, done, redo, crashes, stops>>

Next == Producer \/ Consumer \/ Main \/ Crash \/ Restart \/ CommitRow

Spec == Init /\ [][Next]_vars

\* Every thread is scheduled, and a dead process is started again.
FairSpec ==
    /\ Spec
    /\ WF_vars(Producer) /\ WF_vars(Consumer) /\ WF_vars(Main /\ ~Stop)
    /\ WF_vars(Restart)

-----------------------------------------------------------------------------
\* The handlers run in the order of the ids, leave no row out, and run a second
\* time only after a crash between the handler and the write of the id, whatever
\* the threads, a stop() and the deletion of old rows do in between.
Feed == INSTANCE RowFeed
RowsFedInOrder == Feed!FeedSpec

\* The rows that a restart asks for are still in 0_txlogs2: the deletion of old
\* rows is driven by the producer, which is ahead of the saved id.
NeededRowsKept == (saved + 1)..top \subseteq table

\* As long as nobody stops tparser, it catches up with log2producer again, also
\* after crashes.
CatchesUp == []<>(saved = top \/ pc["main"] \in {"push", "in", "out", "join"})

\* A stop() that finds room for its own row and for the one the producer may
\* still be adding ends the process.
StopWithRoomEnds ==
    (~running /\ Up /\ unread + 2 <= Capacity) ~> ~Up

\* "填入一个空的 txlogs ，使得 popback 时，不会卡住，线程可顺利退出" (Parser::stop): the
\* empty row lets the threads end.
StopEnds == (~running /\ Up) ~> ~Up
=============================================================================
