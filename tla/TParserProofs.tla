--------------------------- MODULE TParserProofs ---------------------------
(***************************************************************************)
(* Theorems about TParser for every capacity of the buffer, every number   *)
(* of rows, crashes and signals.  The types hold whatever the second       *)
(* unlock of the mutex does; the order of the rows is proved for a mutex   *)
(* that only its holder releases (StrayUnlock = FALSE).                    *)
(***************************************************************************)
EXTENDS TParser, TLAPS

-----------------------------------------------------------------------------
(* Types. *)

\* What a thread in its section has read is still a possible number of unread
\* rows, and the row that is handled is not the empty one.
SectionType ==
    /\ \A th \in Thread : pc[th] = "in" => tmp[th] <= Len(container)
    /\ \A th \in {"producer", "main"} : pc[th] = "in" => tmp[th] < Capacity
    /\ pc["consumer"] \in {"handle", "save"} => row["consumer"] # Empty

TypeInv == TypeOK /\ SectionType

\* A push puts the row in front and keeps the others behind it, as far as they fit.
LEMMA PushFrontIs ==
    ASSUME NEW S, NEW x \in S, container \in Seq(S), Len(container) <= Capacity
    PROVE  /\ PushFront(x) \in Seq(S)
           /\ Len(PushFront(x)) = IF Len(container) < Capacity THEN Len(container) + 1 ELSE Capacity
           /\ \A i \in 1..Len(PushFront(x)) :
                 PushFront(x)[i] = IF i = 1 THEN x ELSE container[i - 1]
<1> DEFINE n == IF Len(container) < Capacity THEN Len(container) ELSE Capacity - 1
           q == SubSeq(container, 1, n)
<1>1. Len(container) \in Nat /\ Capacity \in Nat \ {0}
  BY TParserAssumption
<1>2. n \in 0..Len(container)
  BY <1>1
<1>3. q \in Seq(S) /\ Len(q) = n /\ \A i \in 1..n : q[i] = container[i]
  BY <1>2
<1>4. PushFront(x) = <<x>> \o q
  BY DEF PushFront
<1>5. <<x>> \in Seq(S) /\ Len(<<x>>) = 1 /\ <<x>>[1] = x
  OBVIOUS
<1> HIDE DEF q
<1>6. /\ <<x>> \o q \in Seq(S) /\ Len(<<x>> \o q) = n + 1
      /\ \A i \in 1..(n + 1) : (<<x>> \o q)[i] = IF i = 1 THEN x ELSE q[i - 1]
  BY <1>1, <1>2, <1>3, <1>5
<1>7. n + 1 = IF Len(container) < Capacity THEN Len(container) + 1 ELSE Capacity
  BY <1>1
<1>8. ASSUME NEW i \in 1..(n + 1), i # 1 PROVE q[i - 1] = container[i - 1]
  BY <1>2, <1>3, <1>8
<1> HIDE DEF n
<1> QED BY <1>4, <1>6, <1>7, <1>8

\* The places of the threads when the process starts and when it is gone.
LEMMA ProcessPlaces ==
    ASSUME NEW p, p \in {[producer |-> "start", consumer |-> "loop", main |-> "serve"],
                         [producer |-> "gone", consumer |-> "gone", main |-> "down"]}
    PROVE  /\ p \in [Thread -> UNION {PCs[th] : th \in Thread}]
           /\ \A th \in Thread : p[th] \in PCs[th] /\ p[th] \notin {"in", "out", "handle", "save"}
<1>1. p = [th \in Thread |-> p[th]]
  BY DEF Thread
<1>2. \A th \in Thread : p[th] \in PCs[th] /\ p[th] \notin {"in", "out", "handle", "save"}
  BY DEF Thread, PCs
<1> QED BY <1>1, <1>2

\* The types hold when the threads start.
LEMMA TypeInit == Init => TypeInv
<1> SUFFICES ASSUME Init PROVE TypeInv
  OBVIOUS
<1>1. pc = [producer |-> "start", consumer |-> "loop", main |-> "serve"]
  BY DEF Init
<1>2. /\ pc \in [Thread -> UNION {PCs[th] : th \in Thread}]
      /\ \A th \in Thread : pc[th] \in PCs[th] /\ pc[th] \notin {"in", "out", "handle", "save"}
  BY <1>1, ProcessPlaces
<1>3. SectionType
  BY <1>2 DEF SectionType, Thread
<1>4. /\ top \in 0..MaxRows /\ table \subseteq 1..top /\ saved \in 0..top /\ lastId \in 0..top
      /\ redo \in {0, 1} /\ crashes \in 0..MaxCrash /\ stops \in 0..MaxStop
  BY TParserAssumption DEF Init
<1>7. running \in BOOLEAN /\ locked \in BOOLEAN
  BY DEF Init
<1>5. /\ container \in Seq(0..top) /\ Len(container) <= Capacity /\ done \in Seq(1..top)
      /\ unread \in 0..Len(container)
  BY TParserAssumption DEF Init
<1>6. row \in [Thread -> 0..top] /\ tmp \in [Thread -> 0..Capacity]
  BY TParserAssumption DEF Init, Empty
<1> QED BY <1>2, <1>3, <1>4, <1>5, <1>6, <1>7 DEF TypeInv, TypeOK

\* The step that puts a row into the buffer keeps the types.
LEMMA TypePush ==
    ASSUME TypeInv, NEW th \in {"producer", "main"}, InBuffer(PushLeave(th))
    PROVE  TypeInv'
<1>1. /\ container' \in Seq(0..top) /\ Len(container') <= Capacity
      /\ Len(container') >= Len(container) /\ Len(container') >= tmp[th] + 1
  <2>1. pc[th] = "in" /\ container' = PushFront(row[th]) /\ row[th] \in 0..top
    BY DEF InBuffer, PushLeave, At, TypeInv, TypeOK, Thread
  <2>2. Len(container) \in Nat /\ Capacity \in Nat /\ container \in Seq(0..top) /\ Len(container) <= Capacity
    BY TParserAssumption DEF TypeInv, TypeOK
  <2>3. /\ PushFront(row[th]) \in Seq(0..top)
        /\ Len(PushFront(row[th])) = IF Len(container) < Capacity THEN Len(container) + 1 ELSE Capacity
    BY <2>1, <2>2, PushFrontIs
  <2>4. tmp[th] <= Len(container) /\ tmp[th] < Capacity /\ tmp[th] \in Nat
    BY <2>1 DEF TypeInv, TypeOK, SectionType, Thread
  <2> HIDE DEF TypeInv
  <2> QED BY <2>1, <2>2, <2>3, <2>4
<1>2. pc[th] = "in" /\ tmp[th] \in Nat
    BY DEF InBuffer, PushLeave, At, TypeInv, TypeOK, Thread
<1>3. unread' \in 0..Len(container') 
  BY <1>1, <1>2 DEF InBuffer, PushLeave
<1>4. SectionType'
  BY <1>1, TParserAssumption DEF InBuffer, PushLeave, At, TypeInv, TypeOK, SectionType, Thread
<1>5. pc' \in [Thread -> UNION {PCs[t] : t \in Thread}] /\ \A t \in Thread : pc'[t] \in PCs[t]
  BY DEF InBuffer, PushLeave, At, TypeInv, TypeOK, Thread, PCs
<1> QED BY <1>1, <1>3, <1>4, <1>5, TParserAssumption
   DEF InBuffer, PushLeave, At, bufVars, TypeInv, TypeOK, SectionType, PCs, Thread, Empty

\* The steps of threadProduceTxlogs() keep the types.
LEMMA TypeProducer == TypeInv /\ Producer => TypeInv'
<1> SUFFICES ASSUME TypeInv, Producer PROVE TypeInv'
  OBVIOUS
<1> USE TParserAssumption
<1>1. CASE GetLastTxLog2Id
  BY <1>1
     DEF GetLastTxLog2Id, ProducerIdle, At, bufVars, TypeInv, TypeOK, SectionType, PCs,
         Thread, Empty
<1>2. CASE TryFetchTxLog2FromDB
  <2>1. locked' \in BOOLEAN /\ running' \in BOOLEAN
    BY <1>2 DEF TryFetchTxLog2FromDB, ProducerIdle, At, bufVars, TypeInv, TypeOK
  <2>2. pc' \in [Thread -> UNION {PCs[th] : th \in Thread}] /\ \A th \in Thread : pc'[th] \in PCs[th]
    BY <1>2 DEF TryFetchTxLog2FromDB, ProducerIdle, At, bufVars, TypeInv, TypeOK, PCs, Thread
  <2>3. table' \subseteq 1..top /\ row' \in [Thread -> 0..top]
    <3>1. table' \subseteq table
      BY <1>2 DEF TryFetchTxLog2FromDB
    <3>2. PICK id \in table : row' = [row EXCEPT !["producer"] = id]
      BY <1>2 DEF TryFetchTxLog2FromDB
    <3>3. id \in 0..top
      BY DEF TypeInv, TypeOK
    <3> QED BY <3>1, <3>2, <3>3 DEF TypeInv, TypeOK, Thread
  <2>4. SectionType'
    BY <1>2, <2>3
       DEF TryFetchTxLog2FromDB, ProducerIdle, At, bufVars, TypeInv, TypeOK, SectionType,
           PCs, Thread, Empty
  <2> QED BY <1>2, <2>1, <2>2, <2>3, <2>4
     DEF TryFetchTxLog2FromDB, ProducerIdle, At, bufVars, TypeInv, TypeOK
<1>3. CASE CheckRunning
  BY <1>3
     DEF CheckRunning, ProducerIdle, At, bufVars, TypeInv, TypeOK, SectionType, PCs, Thread,
         Empty
<1>4. CASE PushedRow
  <2>1. locked' \in BOOLEAN /\ running' \in BOOLEAN
    BY <1>4 DEF PushedRow, UnlockAgain, At, bufVars, TypeInv, TypeOK
  <2>2. pc' \in [Thread -> UNION {PCs[th] : th \in Thread}] /\ \A th \in Thread : pc'[th] \in PCs[th]
    BY <1>4 DEF PushedRow, UnlockAgain, At, bufVars, TypeInv, TypeOK, PCs, Thread
  <2>4. SectionType'
    BY <1>4
       DEF PushedRow, UnlockAgain, At, bufVars, TypeInv, TypeOK, SectionType, PCs, Thread,
           Empty
  <2>5. lastId' \in 0..top
    BY <1>4 DEF PushedRow, TypeInv, TypeOK, Thread
  <2> QED BY <1>4, <2>1, <2>2, <2>4, <2>5
     DEF PushedRow, UnlockAgain, At, bufVars, TypeInv, TypeOK
<1>5. CASE ProducerEnds
  BY <1>5
     DEF ProducerEnds, ProducerIdle, At, bufVars, TypeInv, TypeOK, SectionType, PCs, Thread,
         Empty
<1>6. CASE InBuffer(PushEnter("producer"))
  BY <1>6
     DEF InBuffer, PushEnter, Lock, Room, At, bufVars, TypeInv, TypeOK, SectionType, PCs,
         Thread, Empty
<1>7. CASE InBuffer(PushLeave("producer"))
  BY <1>7, TypePush
<1> QED BY <1>1, <1>2, <1>3, <1>4, <1>5, <1>6, <1>7 DEF Producer

\* The steps of threadHandleTxlogs() keep the types.
LEMMA TypeConsumer == TypeInv /\ Consumer => TypeInv'
<1> SUFFICES ASSUME TypeInv, Consumer PROVE TypeInv'
  OBVIOUS
<1> USE TParserAssumption
<1>1. CASE ConsumerLoops
  BY <1>1
     DEF ConsumerLoops, ConsumerIdle, At, bufVars, TypeInv, TypeOK, SectionType, PCs, Thread,
         Empty
<1>2. CASE ConsumerEnds
  BY <1>2
     DEF ConsumerEnds, ConsumerIdle, At, bufVars, TypeInv, TypeOK, SectionType, PCs, Thread,
         Empty
<1>3. CASE GotRow
  <2>1. locked' \in BOOLEAN /\ running' \in BOOLEAN
    BY <1>3 DEF GotRow, InBuffer, UnlockAgain, At, bufVars, TypeInv, TypeOK
  <2>2. pc' \in [Thread -> UNION {PCs[th] : th \in Thread}] /\ \A th \in Thread : pc'[th] \in PCs[th]
    BY <1>3 DEF GotRow, InBuffer, UnlockAgain, At, bufVars, TypeInv, TypeOK, PCs, Thread
  <2>4. SectionType'
    BY <1>3
       DEF GotRow, InBuffer, UnlockAgain, At, bufVars, TypeInv, TypeOK, SectionType, PCs,
           Thread, Empty
  <2> QED BY <1>3, <2>1, <2>2, <2>4
     DEF GotRow, InBuffer, UnlockAgain, At, bufVars, TypeInv, TypeOK
<1>4. CASE HandleRow
  BY <1>4 DEF HandleRow, At, bufVars, TypeInv, TypeOK, SectionType, PCs, Thread, Empty
<1>5. CASE UpdateLastTxlog2Id
  BY <1>5
     DEF UpdateLastTxlog2Id, ConsumerIdle, At, bufVars, TypeInv, TypeOK, SectionType, PCs,
         Thread, Empty
<1>6. CASE InBuffer(PopEnter)
  <2>1. locked' \in BOOLEAN /\ running' \in BOOLEAN
    BY <1>6 DEF InBuffer, PopEnter, Lock, At, bufVars, TypeInv, TypeOK
  <2>2. pc' \in [Thread -> UNION {PCs[th] : th \in Thread}] /\ \A th \in Thread : pc'[th] \in PCs[th]
    BY <1>6 DEF InBuffer, PopEnter, Lock, At, bufVars, TypeInv, TypeOK, PCs, Thread
  <2>3. row' \in [Thread -> 0..top] /\ tmp' \in [Thread -> 0..Capacity] /\ tmp'["consumer"] = unread - 1
    <3>1. unread \in 1..Len(container) /\ container[unread] \in 0..top /\ unread - 1 \in 0..Capacity
      BY <1>6 DEF InBuffer, PopEnter, TypeInv, TypeOK
    <3> QED BY <1>6, <3>1 DEF InBuffer, PopEnter, TypeInv, TypeOK, Thread
  <2>4. SectionType'
    BY <1>6, <2>3
       DEF InBuffer, PopEnter, Lock, At, bufVars, TypeInv, TypeOK, SectionType, PCs, Thread,
           Empty
  <2> QED BY <1>6, <2>1, <2>2, <2>3, <2>4
     DEF InBuffer, PopEnter, Lock, At, bufVars, TypeInv, TypeOK
<1>7. CASE InBuffer(PopLeave)
  <2>1. locked' \in BOOLEAN /\ running' \in BOOLEAN
    BY <1>7 DEF InBuffer, PopLeave, At, bufVars, TypeInv, TypeOK
  <2>2. pc' \in [Thread -> UNION {PCs[th] : th \in Thread}] /\ \A th \in Thread : pc'[th] \in PCs[th]
    BY <1>7 DEF InBuffer, PopLeave, At, bufVars, TypeInv, TypeOK, PCs, Thread
  <2>3. unread' \in 0..Len(container)
    BY <1>7 DEF InBuffer, PopLeave, At, TypeInv, TypeOK, SectionType, Thread
  <2>4. SectionType'
    BY <1>7, <2>3
       DEF InBuffer, PopLeave, At, bufVars, TypeInv, TypeOK, SectionType, PCs, Thread, Empty
  <2> QED BY <1>7, <2>1, <2>2, <2>3, <2>4 DEF InBuffer, PopLeave, At, bufVars, TypeInv, TypeOK
<1> QED BY <1>1, <1>2, <1>3, <1>4, <1>5, <1>6, <1>7 DEF Consumer

\* The steps of the main thread keep the types.
LEMMA TypeMain == TypeInv /\ Main => TypeInv'
<1> SUFFICES ASSUME TypeInv, Main PROVE TypeInv'
  OBVIOUS
<1> USE TParserAssumption
<1>1. CASE Stop
  <2>1. locked' \in BOOLEAN /\ running' \in BOOLEAN
    BY <1>1 DEF Stop, Wake, bufVars, TypeInv, TypeOK
  <2>2. pc' \in [Thread -> UNION {PCs[th] : th \in Thread}] /\ \A th \in Thread : pc'[th] \in PCs[th]
    BY <1>1 DEF Stop, Wake, bufVars, TypeInv, TypeOK, PCs, Thread
  <2>4. SectionType'
    BY <1>1 DEF Stop, Wake, bufVars, TypeInv, TypeOK, SectionType, PCs, Thread, Empty
  <2>5. stops' \in 0..MaxStop
    BY <1>1 DEF Stop, TypeInv, TypeOK
  <2> QED BY <1>1, <2>1, <2>2, <2>4, <2>5 DEF Stop, Wake, bufVars, TypeInv, TypeOK
<1>2. CASE Woken
  <2>1. locked' \in BOOLEAN /\ running' \in BOOLEAN
    BY <1>2 DEF Woken, InBuffer, UnlockAgain, At, bufVars, TypeInv, TypeOK
  <2>2. pc' \in [Thread -> UNION {PCs[th] : th \in Thread}] /\ \A th \in Thread : pc'[th] \in PCs[th]
    BY <1>2 DEF Woken, InBuffer, UnlockAgain, At, bufVars, TypeInv, TypeOK, PCs, Thread
  <2>4. SectionType'
    BY <1>2
       DEF Woken, InBuffer, UnlockAgain, At, bufVars, TypeInv, TypeOK, SectionType, PCs,
           Thread, Empty
  <2> QED BY <1>2, <2>1, <2>2, <2>4
     DEF Woken, InBuffer, UnlockAgain, At, bufVars, TypeInv, TypeOK
<1>3. CASE Exit
  BY <1>3 DEF Exit, At, bufVars, TypeInv, TypeOK, SectionType, PCs, Thread, Empty
<1>4. CASE InBuffer(PushEnter("main"))
  BY <1>4
     DEF InBuffer, PushEnter, Lock, Room, At, bufVars, TypeInv, TypeOK, SectionType, PCs,
         Thread, Empty
<1>5. CASE InBuffer(PushLeave("main"))
  BY <1>5, TypePush
<1> QED BY <1>1, <1>2, <1>3, <1>4, <1>5 DEF Main

\* A process that starts or dies has an empty buffer.
LEMMA TypeStarted ==
    ASSUME TypeInv, NEW r \in BOOLEAN, Started(r), UNCHANGED <<table, top, saved, done, stops>>,
           redo' \in {0, 1}, crashes' \in 0..MaxCrash,
           pc' \in {[producer |-> "start", consumer |-> "loop", main |-> "serve"],
                    [producer |-> "gone", consumer |-> "gone", main |-> "down"]}
    PROVE  TypeInv'
<1>1. /\ pc' \in [Thread -> UNION {PCs[th] : th \in Thread}]
      /\ \A th \in Thread : pc'[th] \in PCs[th] /\ pc'[th] \notin {"in", "out", "handle", "save"}
  BY ProcessPlaces
<1>2. SectionType'
  BY <1>1 DEF SectionType, Thread
<1>3. running' \in BOOLEAN /\ locked' \in BOOLEAN
  BY DEF Started
<1>4. /\ container' \in Seq(0..top) /\ Len(container') <= Capacity
      /\ unread' \in 0..Len(container') /\ lastId' \in 0..top
  BY TParserAssumption DEF Started, TypeInv, TypeOK
<1>5. row' \in [Thread -> 0..top] /\ tmp' \in [Thread -> 0..Capacity]
  BY TParserAssumption DEF Started, TypeInv, TypeOK, Empty
<1> QED BY <1>1, <1>2, <1>3, <1>4, <1>5 DEF TypeInv, TypeOK

\* Every step keeps the types.
LEMMA TypeStep == TypeInv /\ [Next]_vars => TypeInv'
<1> SUFFICES ASSUME TypeInv, [Next]_vars PROVE TypeInv'
  OBVIOUS
<1>1. CASE Producer
  BY <1>1, TypeProducer
<1>2. CASE Consumer
  BY <1>2, TypeConsumer
<1>3. CASE Main
  BY <1>3, TypeMain
<1>4. CASE Crash
  <2>1. crashes' \in 0..MaxCrash /\ redo' \in {0, 1}
    BY <1>4, TParserAssumption DEF Crash, TypeInv, TypeOK
  <2> QED BY <1>4, <2>1, TypeStarted DEF Crash
<1>5. CASE Restart
  <2>1. crashes' \in 0..MaxCrash /\ redo' \in {0, 1}
    BY <1>5 DEF Restart, TypeInv, TypeOK
  <2> QED BY <1>5, <2>1, TypeStarted DEF Restart
<1>6. CASE CommitRow
  <2>1. top' \in 0..MaxRows /\ 0..top \subseteq 0..top' /\ 1..top \subseteq 1..top' /\ top + 1 \in 1..top'
    BY <1>6, TParserAssumption DEF CommitRow, TypeInv, TypeOK
  <2>2. container \in Seq(0..top') /\ done \in Seq(1..top')
    BY <2>1 DEF TypeInv, TypeOK
  <2>3. row \in [Thread -> 0..top'] /\ table' \subseteq 1..top'
    BY <1>6, <2>1 DEF CommitRow, TypeInv, TypeOK
  <2> QED BY <1>6, <2>1, <2>2, <2>3 DEF CommitRow, bufVars, TypeInv, TypeOK, SectionType
<1>7. CASE UNCHANGED vars
  BY <1>7 DEF vars, bufVars, TypeInv, TypeOK, SectionType
<1> QED BY <1>1, <1>2, <1>3, <1>4, <1>5, <1>6, <1>7 DEF Next

\* The types, and the limit of the buffer: the ring never holds more than its
\* capacity and never counts more unread rows than it holds, even if the second
\* unlock lets two threads into their sections at once.
THEOREM TypeCorrect == Spec => []TypeOK
<1>1. Spec => []TypeInv
  BY TypeInit, TypeStep, PTL DEF Spec
<1> QED BY <1>1, PTL DEF TypeInv
-----------------------------------------------------------------------------
(* The buffer between the two threads. *)

\* The id of the newest row that was put into the buffer, and of the newest one
\* that was taken out of it.
Pushed ==
    CASE pc["producer"] = "start" -> saved
      [] pc["producer"] = "out" -> row["producer"]
      [] OTHER -> lastId

Taken ==
    IF pc["consumer"] \in {"out", "handle", "save"} /\ row["consumer"] # Empty
    THEN row["consumer"] ELSE saved

\* At most one thread is between the lock and the second unlock.
Exclusive ==
    /\ \A t, u \in Thread : t # u => ~(pc[t] \in {"in", "out"} /\ pc[u] \in {"in", "out"})
    /\ \A t \in Thread : pc[t] = "in" => locked

\* What a thread has read in its section is still so when it writes.
Sections ==
    /\ \A th \in {"producer", "main"} : pc[th] = "in" => tmp[th] = unread /\ unread < Capacity
    /\ pc["consumer"] = "in" =>
          /\ unread > 0 /\ tmp["consumer"] = unread - 1
          /\ row["consumer"] = container[unread]

\* The unread rows are the ones after Taken up to Pushed, newest first, without
\* a gap; the empty row of stop() may stand at place e among them.
Unread(e) ==
    /\ \A i \in 1..unread :
          container[i] = IF i = e THEN Empty
                         ELSE IF e # 0 /\ e < i THEN Pushed - i + 2
                         ELSE Pushed - i + 1
    /\ Taken = Pushed - unread + (IF e = 0 THEN 0 ELSE 1)
    /\ e # 0 => pc["main"] \in {"out", "join"}

\* Every thread holds the row it should hold.
Hands ==
    /\ row["main"] = Empty
    /\ pc["producer"] \in {"check", "push", "in", "out"} => row["producer"] = lastId + 1
    /\ pc["consumer"] \in {"handle", "save"} => row["consumer"] = saved + 1
    /\ pc["consumer"] = "out" => row["consumer"] \in {Empty, saved + 1}

\* The handled rows and the saved id.
History ==
    /\ pc["consumer"] = "save" => redo = 0 /\ Feed!LastDone = saved + 1
    /\ pc["consumer"] # "save" => Feed!LastDone = saved + redo

FeedInv ==
    /\ Exclusive /\ Sections
    /\ Up => Hands /\ \E e \in 0..unread : Unread(e)
    /\ ~Up => \A th \in Thread : pc[th] \in {"gone", "down"}
    /\ History
    /\ NeededRowsKept

\* The unread rows stay what they are when a step changes neither the buffer nor
\* the ids at its ends.
LEMMA UnreadSame ==
    ASSUME NEW e \in 0..unread, Unread(e), UNCHANGED <<container, unread>>,
           Pushed' = Pushed, Taken' = Taken,
           pc["main"] \in {"out", "join"} => pc'["main"] \in {"out", "join"}
    PROVE  \E f \in 0..unread' : Unread(f)'
<1>1. Unread(e)'
  BY DEF Unread
<1> QED BY <1>1

\* The producer is ahead of the saved id by no more than the rows in the buffer
\* and the one in the hands of the consumer.
LEMMA Distance ==
    ASSUME TypeInv, FeedInv, Up
    PROVE  saved <= Pushed /\ Pushed <= saved + Capacity + 1 /\ Pushed \in Int
<1>1. PICK e \in 0..unread : Unread(e)
  BY DEF FeedInv
<1>2. Taken \in {saved, saved + 1}
  BY DEF FeedInv, Hands, Taken
<1>3. unread \in 0..Capacity /\ saved \in Nat /\ Capacity \in Nat
  BY TParserAssumption DEF TypeInv, TypeOK
<1>4. Pushed \in Int
  BY DEF Pushed, TypeInv, TypeOK, Thread
<1>5. Taken = Pushed - unread + (IF e = 0 THEN 0 ELSE 1)
  BY <1>1 DEF Unread
<1> QED BY <1>1, <1>2, <1>3, <1>4, <1>5

\* The next row the producer fetches is the one behind the last it pushed.
LEMMA FeedFetch ==
    ASSUME TypeInv, FeedInv, TryFetchTxLog2FromDB
    PROVE  FeedInv'
<1>0. pc["producer"] = "fetch" /\ Up /\ pc' = [pc EXCEPT !["producer"] = "check"]
  BY DEF TryFetchTxLog2FromDB, At, FeedInv, Thread
<1>1. PICK id \in table :
          /\ id > lastId
          /\ \A i \in table : i > lastId => id <= i
          /\ row' = [row EXCEPT !["producer"] = id]
          /\ table' = IF id > KeepNum /\ id % CleanEvery = 0
                      THEN {i \in table : ~Expired(i, id)} ELSE table
  BY DEF TryFetchTxLog2FromDB
<1>2. Pushed = lastId /\ lastId \in Nat /\ saved \in Nat /\ top \in Nat /\ id \in 1..top
  BY <1>0, <1>1 DEF Pushed, TypeInv, TypeOK
<1>3. saved <= lastId /\ lastId <= saved + Capacity + 1
  BY <1>0, <1>2, Distance
<1>4. id = lastId + 1
  <2>1. lastId + 1 \in (saved + 1)..top
    BY <1>1, <1>2, <1>3
  <2>2. lastId + 1 \in table
    BY <2>1 DEF FeedInv, NeededRowsKept
  <2> QED BY <1>1, <1>2, <2>2
<1>5. NeededRowsKept'
  <2>1. \A i \in (saved + 1)..top : i \in table /\ ~Expired(i, id)
    BY <1>2, <1>3, <1>4, TParserAssumption DEF FeedInv, NeededRowsKept, Expired
  <2>2. UNCHANGED <<saved, top>>
    BY DEF TryFetchTxLog2FromDB, ProducerIdle
  <2> QED BY <1>1, <2>1, <2>2 DEF NeededRowsKept
<1>6. UNCHANGED <<saved, running, container, unread, locked, tmp, done, redo, lastId>>
  BY DEF TryFetchTxLog2FromDB, ProducerIdle, bufVars
<1>7. Exclusive' /\ Sections'
  BY <1>0, <1>1, <1>6 DEF FeedInv, Exclusive, Sections, TypeInv, TypeOK, Thread
<1>8. Hands'
  BY <1>0, <1>1, <1>4, <1>6 DEF FeedInv, Hands, TypeInv, TypeOK, Thread
<1>9. History'
  BY <1>0, <1>6 DEF FeedInv, History, Feed!LastDone, TypeInv, TypeOK, Thread
<1>10. \E f \in 0..unread' : Unread(f)'
  <2>1. PICK e \in 0..unread : Unread(e)
    BY <1>0 DEF FeedInv
  <2>2. Pushed' = Pushed
    BY <1>0, <1>2, <1>6 DEF Pushed, TypeInv, TypeOK, Thread
  <2>3. Taken' = Taken
    BY <1>0, <1>1, <1>6 DEF Taken, TypeInv, TypeOK, Thread
  <2>4. pc'["main"] = pc["main"]
    BY <1>0 DEF TypeInv, TypeOK, Thread
  <2> QED BY <1>6, <2>1, <2>2, <2>3, <2>4, UnreadSame
<1>11. Up'
  BY <1>0 DEF Up, TypeInv, TypeOK, Thread
<1> QED BY <1>5, <1>7, <1>8, <1>9, <1>10, <1>11 DEF FeedInv

\* The producer reads the saved id.
LEMMA FeedStart ==
    ASSUME TypeInv, FeedInv, GetLastTxLog2Id
    PROVE  FeedInv'
<1>0. pc["producer"] \in {"start"} /\ Up /\ Up'
  BY DEF GetLastTxLog2Id, ProducerIdle, bufVars, At, FeedInv, Up, TypeInv, TypeOK, Thread
<1>1. UNCHANGED <<table, top, saved, running, container, unread, locked, tmp, done, redo, row>>
  BY DEF GetLastTxLog2Id, ProducerIdle, bufVars
<1>2. Exclusive' /\ Sections'
  BY <1>0, <1>1
     DEF GetLastTxLog2Id, ProducerIdle, bufVars, At, FeedInv, Exclusive, Sections, TypeInv,
         TypeOK, Thread
<1>3. Hands'
  BY <1>0, <1>1
     DEF GetLastTxLog2Id, ProducerIdle, bufVars, At, FeedInv, Hands, TypeInv, TypeOK, Thread
<1>4. History'
  BY <1>0, <1>1
     DEF GetLastTxLog2Id, ProducerIdle, bufVars, At, FeedInv, History, Feed!LastDone,
         TypeInv, TypeOK, Thread
<1>5. \E f \in 0..unread' : Unread(f)'
  <2>1. PICK e \in 0..unread : Unread(e)
    BY <1>0 DEF FeedInv
  <2>2. Pushed' = Pushed
    BY <1>0, <1>1
       DEF GetLastTxLog2Id, ProducerIdle, bufVars, At, FeedInv, Hands, Pushed, TypeInv,
           TypeOK, Thread
  <2>3. Taken' = Taken
    BY <1>0, <1>1
       DEF GetLastTxLog2Id, ProducerIdle, bufVars, At, FeedInv, Hands, Taken, TypeInv,
           TypeOK, Thread
  <2>4. pc["main"] \in {"out", "join"} => pc'["main"] \in {"out", "join"}
    BY <1>0 DEF GetLastTxLog2Id, ProducerIdle, bufVars, At, TypeInv, TypeOK, Thread
  <2> QED BY <1>1, <2>1, <2>2, <2>3, <2>4, UnreadSame
<1>6. NeededRowsKept'
  BY <1>1
     DEF GetLastTxLog2Id, ProducerIdle, bufVars, FeedInv, NeededRowsKept, TypeInv, TypeOK,
         Thread
<1> QED BY <1>0, <1>2, <1>3, <1>4, <1>5, <1>6 DEF FeedInv

\* The producer goes on with the row it fetched.
LEMMA FeedCheck ==
    ASSUME TypeInv, FeedInv, CheckRunning
    PROVE  FeedInv'
<1>0. pc["producer"] \in {"check"} /\ Up /\ Up'
  BY DEF CheckRunning, ProducerIdle, bufVars, At, FeedInv, Up, TypeInv, TypeOK, Thread
<1>1. UNCHANGED <<table, top, saved, running, container, unread, locked, tmp, done, redo, row, lastId>>
  BY DEF CheckRunning, ProducerIdle, bufVars
<1>2. Exclusive' /\ Sections'
  BY <1>0, <1>1
     DEF CheckRunning, ProducerIdle, bufVars, At, FeedInv, Exclusive, Sections, TypeInv,
         TypeOK, Thread
<1>3. Hands'
  BY <1>0, <1>1
     DEF CheckRunning, ProducerIdle, bufVars, At, FeedInv, Hands, TypeInv, TypeOK, Thread
<1>4. History'
  BY <1>0, <1>1
     DEF CheckRunning, ProducerIdle, bufVars, At, FeedInv, History, Feed!LastDone, TypeInv,
         TypeOK, Thread
<1>5. \E f \in 0..unread' : Unread(f)'
  <2>1. PICK e \in 0..unread : Unread(e)
    BY <1>0 DEF FeedInv
  <2>2. Pushed' = Pushed
    BY <1>0, <1>1
       DEF CheckRunning, ProducerIdle, bufVars, At, FeedInv, Hands, Pushed, TypeInv, TypeOK,
           Thread
  <2>3. Taken' = Taken
    BY <1>0, <1>1
       DEF CheckRunning, ProducerIdle, bufVars, At, FeedInv, Hands, Taken, TypeInv, TypeOK,
           Thread
  <2>4. pc["main"] \in {"out", "join"} => pc'["main"] \in {"out", "join"}
    BY <1>0 DEF CheckRunning, ProducerIdle, bufVars, At, TypeInv, TypeOK, Thread
  <2> QED BY <1>1, <2>1, <2>2, <2>3, <2>4, UnreadSame
<1>6. NeededRowsKept'
  BY <1>1
     DEF CheckRunning, ProducerIdle, bufVars, FeedInv, NeededRowsKept, TypeInv, TypeOK,
         Thread
<1> QED BY <1>0, <1>2, <1>3, <1>4, <1>5, <1>6 DEF FeedInv

\* The producer ends.
LEMMA FeedProducerEnds ==
    ASSUME TypeInv, FeedInv, ProducerEnds
    PROVE  FeedInv'
<1>0. pc["producer"] \in {"fetch", "check"} /\ Up /\ Up'
  BY DEF ProducerEnds, ProducerIdle, bufVars, At, FeedInv, Up, TypeInv, TypeOK, Thread
<1>1. UNCHANGED <<table, top, saved, running, container, unread, locked, tmp, done, redo, row, lastId>>
  BY DEF ProducerEnds, ProducerIdle, bufVars
<1>2. Exclusive' /\ Sections'
  BY <1>0, <1>1
     DEF ProducerEnds, ProducerIdle, bufVars, At, FeedInv, Exclusive, Sections, TypeInv,
         TypeOK, Thread
<1>3. Hands'
  BY <1>0, <1>1
     DEF ProducerEnds, ProducerIdle, bufVars, At, FeedInv, Hands, TypeInv, TypeOK, Thread
<1>4. History'
  BY <1>0, <1>1
     DEF ProducerEnds, ProducerIdle, bufVars, At, FeedInv, History, Feed!LastDone, TypeInv,
         TypeOK, Thread
<1>5. \E f \in 0..unread' : Unread(f)'
  <2>1. PICK e \in 0..unread : Unread(e)
    BY <1>0 DEF FeedInv
  <2>2. Pushed' = Pushed
    BY <1>0, <1>1
       DEF ProducerEnds, ProducerIdle, bufVars, At, FeedInv, Hands, Pushed, TypeInv, TypeOK,
           Thread
  <2>3. Taken' = Taken
    BY <1>0, <1>1
       DEF ProducerEnds, ProducerIdle, bufVars, At, FeedInv, Hands, Taken, TypeInv, TypeOK,
           Thread
  <2>4. pc["main"] \in {"out", "join"} => pc'["main"] \in {"out", "join"}
    BY <1>0 DEF ProducerEnds, ProducerIdle, bufVars, At, TypeInv, TypeOK, Thread
  <2> QED BY <1>1, <2>1, <2>2, <2>3, <2>4, UnreadSame
<1>6. NeededRowsKept'
  BY <1>1
     DEF ProducerEnds, ProducerIdle, bufVars, FeedInv, NeededRowsKept, TypeInv, TypeOK,
         Thread
<1> QED BY <1>0, <1>2, <1>3, <1>4, <1>5, <1>6 DEF FeedInv

\* The producer leaves the buffer for good: its row counts as pushed.
LEMMA FeedPushed ==
    ASSUME TypeInv, FeedInv, PushedRow
    PROVE  FeedInv'
<1>0. pc["producer"] \in {"out"} /\ Up /\ Up'
  BY DEF PushedRow, UnlockAgain, At, FeedInv, Up, TypeInv, TypeOK, Thread
<1>1. UNCHANGED <<table, top, saved, running, container, unread, tmp, done, redo, row>>
  BY DEF PushedRow, UnlockAgain
<1>2. Exclusive' /\ Sections'
  BY <1>0, <1>1
     DEF PushedRow, UnlockAgain, At, FeedInv, Exclusive, Sections, TypeInv, TypeOK, Thread
<1>3. Hands'
  BY <1>0, <1>1 DEF PushedRow, UnlockAgain, At, FeedInv, Hands, TypeInv, TypeOK, Thread
<1>4. History'
  BY <1>0, <1>1
     DEF PushedRow, UnlockAgain, At, FeedInv, History, Feed!LastDone, TypeInv, TypeOK,
         Thread
<1>5. \E f \in 0..unread' : Unread(f)'
  <2>1. PICK e \in 0..unread : Unread(e)
    BY <1>0 DEF FeedInv
  <2>2. Pushed' = Pushed
    BY <1>0, <1>1
       DEF PushedRow, UnlockAgain, At, FeedInv, Hands, Pushed, TypeInv, TypeOK, Thread
  <2>3. Taken' = Taken
    BY <1>0, <1>1 DEF PushedRow, UnlockAgain, At, FeedInv, Hands, Taken, TypeInv, TypeOK, Thread
  <2>4. pc["main"] \in {"out", "join"} => pc'["main"] \in {"out", "join"}
    BY <1>0 DEF PushedRow, UnlockAgain, At, TypeInv, TypeOK, Thread
  <2> QED BY <1>1, <2>1, <2>2, <2>3, <2>4, UnreadSame
<1>6. NeededRowsKept'
  BY <1>1 DEF PushedRow, UnlockAgain, FeedInv, NeededRowsKept, TypeInv, TypeOK, Thread
<1> QED BY <1>0, <1>2, <1>3, <1>4, <1>5, <1>6 DEF FeedInv

\* A thread enters the buffer alone, and there is room.
LEMMA FeedPushEnter ==
    ASSUME TypeInv, FeedInv, ~StrayUnlock, NEW th \in {"producer", "main"}, InBuffer(PushEnter(th))
    PROVE  FeedInv'
<1>0. pc[th] \in {"push"} /\ Up /\ Up'
  BY DEF InBuffer, PushEnter, Lock, Room, At, FeedInv, Up, TypeInv, TypeOK, Thread
<1>1. UNCHANGED <<table, top, saved, running, lastId, done, redo, container, unread, row>>
  BY DEF InBuffer, PushEnter, Lock, Room
<1>2. Exclusive' /\ Sections'
  BY <1>0, <1>1
     DEF InBuffer, PushEnter, Lock, Room, At, FeedInv, Exclusive, Sections, TypeInv, TypeOK,
         Thread
<1>3. Hands'
  BY <1>0, <1>1 DEF InBuffer, PushEnter, Lock, Room, At, FeedInv, Hands, TypeInv, TypeOK, Thread
<1>4. History'
  BY <1>0, <1>1
     DEF InBuffer, PushEnter, Lock, Room, At, FeedInv, History, Feed!LastDone, TypeInv,
         TypeOK, Thread
<1>5. \E f \in 0..unread' : Unread(f)'
  <2>1. PICK e \in 0..unread : Unread(e)
    BY <1>0 DEF FeedInv
  <2>2. Pushed' = Pushed
    BY <1>0, <1>1
       DEF InBuffer, PushEnter, Lock, Room, At, FeedInv, Hands, Pushed, TypeInv, TypeOK,
           Thread
  <2>3. Taken' = Taken
    BY <1>0, <1>1
       DEF InBuffer, PushEnter, Lock, Room, At, FeedInv, Hands, Taken, TypeInv, TypeOK,
           Thread
  <2>4. pc["main"] \in {"out", "join"} => pc'["main"] \in {"out", "join"}
    BY <1>0 DEF InBuffer, PushEnter, Lock, Room, At, TypeInv, TypeOK, Thread
  <2> QED BY <1>1, <2>1, <2>2, <2>3, <2>4, UnreadSame
<1>6. NeededRowsKept'
  BY <1>1 DEF InBuffer, PushEnter, Lock, Room, FeedInv, NeededRowsKept, TypeInv, TypeOK, Thread
<1> QED BY <1>0, <1>2, <1>3, <1>4, <1>5, <1>6 DEF FeedInv

\* The consumer enters the buffer alone, and there is an unread row.
LEMMA FeedPopEnter ==
    ASSUME TypeInv, FeedInv, ~StrayUnlock, InBuffer(PopEnter)
    PROVE  FeedInv'
<1>0. pc["consumer"] \in {"pop"} /\ Up /\ Up'
  BY DEF InBuffer, PopEnter, Lock, At, FeedInv, Up, TypeInv, TypeOK, Thread
<1>1. UNCHANGED <<table, top, saved, running, lastId, done, redo, container, unread>>
  BY DEF InBuffer, PopEnter, Lock
<1>2. Exclusive' /\ Sections'
  BY <1>0, <1>1
     DEF InBuffer, PopEnter, Lock, At, FeedInv, Exclusive, Sections, TypeInv, TypeOK, Thread
<1>3. Hands'
  BY <1>0, <1>1 DEF InBuffer, PopEnter, Lock, At, FeedInv, Hands, TypeInv, TypeOK, Thread
<1>4. History'
  BY <1>0, <1>1
     DEF InBuffer, PopEnter, Lock, At, FeedInv, History, Feed!LastDone, TypeInv, TypeOK,
         Thread
<1>5. \E f \in 0..unread' : Unread(f)'
  <2>1. PICK e \in 0..unread : Unread(e)
    BY <1>0 DEF FeedInv
  <2>2. Pushed' = Pushed
    BY <1>0, <1>1
       DEF InBuffer, PopEnter, Lock, At, FeedInv, Hands, Pushed, TypeInv, TypeOK, Thread
  <2>3. Taken' = Taken
    BY <1>0, <1>1
       DEF InBuffer, PopEnter, Lock, At, FeedInv, Hands, Taken, TypeInv, TypeOK, Thread
  <2>4. pc["main"] \in {"out", "join"} => pc'["main"] \in {"out", "join"}
    BY <1>0 DEF InBuffer, PopEnter, Lock, At, TypeInv, TypeOK, Thread
  <2> QED BY <1>1, <2>1, <2>2, <2>3, <2>4, UnreadSame
<1>6. NeededRowsKept'
  BY <1>1 DEF InBuffer, PopEnter, Lock, FeedInv, NeededRowsKept, TypeInv, TypeOK, Thread
<1> QED BY <1>0, <1>2, <1>3, <1>4, <1>5, <1>6 DEF FeedInv

\* The consumer asks for a row.
LEMMA FeedLoops ==
    ASSUME TypeInv, FeedInv, ConsumerLoops
    PROVE  FeedInv'
<1>0. pc["consumer"] \in {"loop"} /\ Up /\ Up'
  BY DEF ConsumerLoops, ConsumerIdle, bufVars, At, FeedInv, Up, TypeInv, TypeOK, Thread
<1>1. UNCHANGED <<table, top, running, container, unread, locked, row, tmp, lastId, saved, done, redo>>
  BY DEF ConsumerLoops, ConsumerIdle, bufVars
<1>2. Exclusive' /\ Sections'
  BY <1>0, <1>1
     DEF ConsumerLoops, ConsumerIdle, bufVars, At, FeedInv, Exclusive, Sections, TypeInv,
         TypeOK, Thread
<1>3. Hands'
  BY <1>0, <1>1
     DEF ConsumerLoops, ConsumerIdle, bufVars, At, FeedInv, Hands, TypeInv, TypeOK, Thread
<1>4. History'
  BY <1>0, <1>1
     DEF ConsumerLoops, ConsumerIdle, bufVars, At, FeedInv, History, Feed!LastDone, TypeInv,
         TypeOK, Thread
<1>5. \E f \in 0..unread' : Unread(f)'
  <2>1. PICK e \in 0..unread : Unread(e)
    BY <1>0 DEF FeedInv
  <2>2. Pushed' = Pushed
    BY <1>0, <1>1
       DEF ConsumerLoops, ConsumerIdle, bufVars, At, FeedInv, Hands, Pushed, TypeInv, TypeOK,
           Thread
  <2>3. Taken' = Taken
    BY <1>0, <1>1
       DEF ConsumerLoops, ConsumerIdle, bufVars, At, FeedInv, Hands, Taken, TypeInv, TypeOK,
           Thread
  <2>4. pc["main"] \in {"out", "join"} => pc'["main"] \in {"out", "join"}
    BY <1>0 DEF ConsumerLoops, ConsumerIdle, bufVars, At, TypeInv, TypeOK, Thread
  <2> QED BY <1>1, <2>1, <2>2, <2>3, <2>4, UnreadSame
<1>6. NeededRowsKept'
  BY <1>1
     DEF ConsumerLoops, ConsumerIdle, bufVars, FeedInv, NeededRowsKept, TypeInv, TypeOK,
         Thread
<1> QED BY <1>0, <1>2, <1>3, <1>4, <1>5, <1>6 DEF FeedInv

\* The consumer ends.
LEMMA FeedConsumerEnds ==
    ASSUME TypeInv, FeedInv, ConsumerEnds
    PROVE  FeedInv'
<1>0. pc["consumer"] \in {"loop"} /\ Up /\ Up'
  BY DEF ConsumerEnds, ConsumerIdle, bufVars, At, FeedInv, Up, TypeInv, TypeOK, Thread
<1>1. UNCHANGED <<table, top, running, container, unread, locked, row, tmp, lastId, saved, done, redo>>
  BY DEF ConsumerEnds, ConsumerIdle, bufVars
<1>2. Exclusive' /\ Sections'
  BY <1>0, <1>1
     DEF ConsumerEnds, ConsumerIdle, bufVars, At, FeedInv, Exclusive, Sections, TypeInv,
         TypeOK, Thread
<1>3. Hands'
  BY <1>0, <1>1
     DEF ConsumerEnds, ConsumerIdle, bufVars, At, FeedInv, Hands, TypeInv, TypeOK, Thread
<1>4. History'
  BY <1>0, <1>1
     DEF ConsumerEnds, ConsumerIdle, bufVars, At, FeedInv, History, Feed!LastDone, TypeInv,
         TypeOK, Thread
<1>5. \E f \in 0..unread' : Unread(f)'
  <2>1. PICK e \in 0..unread : Unread(e)
    BY <1>0 DEF FeedInv
  <2>2. Pushed' = Pushed
    BY <1>0, <1>1
       DEF ConsumerEnds, ConsumerIdle, bufVars, At, FeedInv, Hands, Pushed, TypeInv, TypeOK,
           Thread
  <2>3. Taken' = Taken
    BY <1>0, <1>1
       DEF ConsumerEnds, ConsumerIdle, bufVars, At, FeedInv, Hands, Taken, TypeInv, TypeOK,
           Thread
  <2>4. pc["main"] \in {"out", "join"} => pc'["main"] \in {"out", "join"}
    BY <1>0 DEF ConsumerEnds, ConsumerIdle, bufVars, At, TypeInv, TypeOK, Thread
  <2> QED BY <1>1, <2>1, <2>2, <2>3, <2>4, UnreadSame
<1>6. NeededRowsKept'
  BY <1>1
     DEF ConsumerEnds, ConsumerIdle, bufVars, FeedInv, NeededRowsKept, TypeInv, TypeOK,
         Thread
<1> QED BY <1>0, <1>2, <1>3, <1>4, <1>5, <1>6 DEF FeedInv

\* The consumer leaves the buffer with its row.
LEMMA FeedGotRow ==
    ASSUME TypeInv, FeedInv, GotRow
    PROVE  FeedInv'
<1>0. pc["consumer"] \in {"out"} /\ Up /\ Up'
  BY DEF GotRow, InBuffer, UnlockAgain, At, FeedInv, Up, TypeInv, TypeOK, Thread
<1>1. UNCHANGED <<table, top, saved, running, lastId, done, redo, container, unread, row, tmp>>
  BY DEF GotRow, InBuffer, UnlockAgain
<1>2. Exclusive' /\ Sections'
  BY <1>0, <1>1
     DEF GotRow, InBuffer, UnlockAgain, At, FeedInv, Exclusive, Sections, TypeInv, TypeOK,
         Thread
<1>3. Hands'
  BY <1>0, <1>1 DEF GotRow, InBuffer, UnlockAgain, At, FeedInv, Hands, TypeInv, TypeOK, Thread
<1>4. History'
  BY <1>0, <1>1
     DEF GotRow, InBuffer, UnlockAgain, At, FeedInv, History, Feed!LastDone, TypeInv, TypeOK,
         Thread
<1>5. \E f \in 0..unread' : Unread(f)'
  <2>1. PICK e \in 0..unread : Unread(e)
    BY <1>0 DEF FeedInv
  <2>2. Pushed' = Pushed
    BY <1>0, <1>1
       DEF GotRow, InBuffer, UnlockAgain, At, FeedInv, Hands, Pushed, TypeInv, TypeOK,
           Thread
  <2>3. Taken' = Taken
    BY <1>0, <1>1
       DEF GotRow, InBuffer, UnlockAgain, At, FeedInv, Hands, Taken, TypeInv, TypeOK, Thread
  <2>4. pc["main"] \in {"out", "join"} => pc'["main"] \in {"out", "join"}
    BY <1>0 DEF GotRow, InBuffer, UnlockAgain, At, TypeInv, TypeOK, Thread
  <2> QED BY <1>1, <2>1, <2>2, <2>3, <2>4, UnreadSame
<1>6. NeededRowsKept'
  BY <1>1 DEF GotRow, InBuffer, UnlockAgain, FeedInv, NeededRowsKept, TypeInv, TypeOK, Thread
<1> QED BY <1>0, <1>2, <1>3, <1>4, <1>5, <1>6 DEF FeedInv

\* The row that is handled is the one behind the saved id.
LEMMA FeedHandle ==
    ASSUME TypeInv, FeedInv, HandleRow
    PROVE  FeedInv'
<1>0. pc["consumer"] \in {"handle"} /\ Up /\ Up'
  BY DEF HandleRow, bufVars, At, FeedInv, Up, TypeInv, TypeOK, Thread
<1>1. UNCHANGED <<table, top, running, container, unread, locked, row, tmp, lastId, saved>>
  BY DEF HandleRow, bufVars
<1>7. Feed!LastDone' = saved + 1 /\ redo' = 0
  <2>1. row["consumer"] = saved + 1
    BY <1>0 DEF FeedInv, Hands
  <2>2. done \in Seq(1..top) /\ done' = Append(done, row["consumer"])
    BY DEF HandleRow, TypeInv, TypeOK
  <2>3. done' # <<>> /\ done'[Len(done')] = row["consumer"]
    BY <2>2
  <2> QED BY <2>1, <2>3 DEF HandleRow, Feed!LastDone
<1>2. Exclusive' /\ Sections'
  BY <1>0, <1>1
     DEF HandleRow, bufVars, At, FeedInv, Exclusive, Sections, TypeInv, TypeOK, Thread
<1>3. Hands'
  BY <1>0, <1>1 DEF HandleRow, bufVars, At, FeedInv, Hands, TypeInv, TypeOK, Thread
<1>4. History'
  BY <1>0, <1>1, <1>7
     DEF HandleRow, bufVars, At, FeedInv, History, Feed!LastDone, TypeInv, TypeOK, Thread
<1>5. \E f \in 0..unread' : Unread(f)'
  <2>1. PICK e \in 0..unread : Unread(e)
    BY <1>0 DEF FeedInv
  <2>2. Pushed' = Pushed
    BY <1>0, <1>1 DEF HandleRow, bufVars, At, FeedInv, Hands, Pushed, TypeInv, TypeOK, Thread
  <2>3. Taken' = Taken
    BY <1>0, <1>1 DEF HandleRow, bufVars, At, FeedInv, Hands, Taken, TypeInv, TypeOK, Thread
  <2>4. pc["main"] \in {"out", "join"} => pc'["main"] \in {"out", "join"}
    BY <1>0 DEF HandleRow, bufVars, At, TypeInv, TypeOK, Thread
  <2> QED BY <1>1, <2>1, <2>2, <2>3, <2>4, UnreadSame
<1>6. NeededRowsKept'
  BY <1>1 DEF HandleRow, bufVars, FeedInv, NeededRowsKept, TypeInv, TypeOK, Thread
<1> QED BY <1>0, <1>2, <1>3, <1>4, <1>5, <1>6 DEF FeedInv

\* The id of the handled row is saved; a producer that has not read the saved id yet has pushed nothing.
LEMMA FeedSave ==
    ASSUME TypeInv, FeedInv, UpdateLastTxlog2Id
    PROVE  FeedInv'
<1>0. pc["consumer"] \in {"save"} /\ Up /\ Up'
  BY DEF UpdateLastTxlog2Id, ConsumerIdle, bufVars, At, FeedInv, Up, TypeInv, TypeOK, Thread
<1>1. UNCHANGED <<table, top, running, container, unread, locked, row, tmp, lastId, done, redo>>
  BY DEF UpdateLastTxlog2Id, ConsumerIdle, bufVars
<1>7. row["consumer"] = saved + 1 /\ saved' = saved + 1 /\ saved \in Nat /\ top \in Nat
  BY <1>0 DEF FeedInv, Hands, UpdateLastTxlog2Id, TypeInv, TypeOK
<1>2. Exclusive' /\ Sections'
  BY <1>0, <1>1
     DEF UpdateLastTxlog2Id, ConsumerIdle, bufVars, At, FeedInv, Exclusive, Sections,
         TypeInv, TypeOK, Thread
<1>3. Hands'
  BY <1>0, <1>1
     DEF UpdateLastTxlog2Id, ConsumerIdle, bufVars, At, FeedInv, Hands, TypeInv, TypeOK,
         Thread
<1>4. History'
  BY <1>0, <1>1, <1>7
     DEF UpdateLastTxlog2Id, ConsumerIdle, bufVars, At, FeedInv, History, Feed!LastDone,
         TypeInv, TypeOK, Thread
<1>5. \E f \in 0..unread' : Unread(f)'
  <2>1. PICK e \in 0..unread : Unread(e)
    BY <1>0 DEF FeedInv
  <2>2. pc["producer"] # "start"
    <3>1. Taken = saved + 1 /\ Taken = Pushed - unread + (IF e = 0 THEN 0 ELSE 1)
      BY <1>0, <1>7, <2>1 DEF Unread, Taken, Empty
    <3>2. pc["producer"] = "start" => Pushed = saved
      BY DEF Pushed
    <3>3. unread \in Nat
      BY DEF TypeInv, TypeOK
    <3> QED BY <1>7, <3>1, <3>2, <3>3
  <2>3. Pushed' = Pushed
    BY <1>0, <1>1, <2>2 DEF UpdateLastTxlog2Id, At, Pushed, TypeInv, TypeOK, Thread
  <2>4. Taken' = Taken
    BY <1>0, <1>1
       DEF UpdateLastTxlog2Id, At, FeedInv, Hands, Taken, TypeInv, TypeOK, Thread, Empty
  <2>5. pc'["main"] = pc["main"]
    BY DEF UpdateLastTxlog2Id, At, TypeInv, TypeOK, Thread
  <2> QED BY <1>1, <2>1, <2>3, <2>4, <2>5, UnreadSame
<1>6. NeededRowsKept'
  BY <1>1, <1>7
     DEF UpdateLastTxlog2Id, ConsumerIdle, bufVars, FeedInv, NeededRowsKept, TypeInv, TypeOK,
         Thread
<1> QED BY <1>0, <1>2, <1>3, <1>4, <1>5, <1>6 DEF FeedInv

\* A signal.
LEMMA FeedStop ==
    ASSUME TypeInv, FeedInv, Stop
    PROVE  FeedInv'
<1>0. pc["main"] \in {"serve"} /\ Up /\ Up'
  BY DEF Stop, Wake, bufVars, At, FeedInv, Up, TypeInv, TypeOK, Thread
<1>1. UNCHANGED <<table, top, saved, container, unread, locked, row, tmp, lastId, done, redo>>
  BY DEF Stop, Wake, bufVars
<1>2. Exclusive' /\ Sections'
  BY <1>0, <1>1
     DEF Stop, Wake, bufVars, At, FeedInv, Exclusive, Sections, TypeInv, TypeOK, Thread
<1>3. Hands'
  BY <1>0, <1>1 DEF Stop, Wake, bufVars, At, FeedInv, Hands, TypeInv, TypeOK, Thread
<1>4. History'
  BY <1>0, <1>1
     DEF Stop, Wake, bufVars, At, FeedInv, History, Feed!LastDone, TypeInv, TypeOK, Thread
<1>5. \E f \in 0..unread' : Unread(f)'
  <2>1. PICK e \in 0..unread : Unread(e)
    BY <1>0 DEF FeedInv
  <2>2. Pushed' = Pushed
    BY <1>0, <1>1 DEF Stop, Wake, bufVars, At, FeedInv, Hands, Pushed, TypeInv, TypeOK, Thread
  <2>3. Taken' = Taken
    BY <1>0, <1>1 DEF Stop, Wake, bufVars, At, FeedInv, Hands, Taken, TypeInv, TypeOK, Thread
  <2>4. pc["main"] \in {"out", "join"} => pc'["main"] \in {"out", "join"}
    BY <1>0 DEF Stop, Wake, bufVars, At, TypeInv, TypeOK, Thread
  <2> QED BY <1>1, <2>1, <2>2, <2>3, <2>4, UnreadSame
<1>6. NeededRowsKept'
  BY <1>1 DEF Stop, Wake, bufVars, FeedInv, NeededRowsKept, TypeInv, TypeOK, Thread
<1> QED BY <1>0, <1>2, <1>3, <1>4, <1>5, <1>6 DEF FeedInv

\* stop() has put its row into the buffer.
LEMMA FeedWoken ==
    ASSUME TypeInv, FeedInv, Woken
    PROVE  FeedInv'
<1>0. pc["main"] \in {"out"} /\ Up /\ Up'
  BY DEF Woken, InBuffer, UnlockAgain, At, FeedInv, Up, TypeInv, TypeOK, Thread
<1>1. UNCHANGED <<table, top, saved, running, lastId, done, redo, container, unread, row, tmp>>
  BY DEF Woken, InBuffer, UnlockAgain
<1>2. Exclusive' /\ Sections'
  BY <1>0, <1>1
     DEF Woken, InBuffer, UnlockAgain, At, FeedInv, Exclusive, Sections, TypeInv, TypeOK,
         Thread
<1>3. Hands'
  BY <1>0, <1>1 DEF Woken, InBuffer, UnlockAgain, At, FeedInv, Hands, TypeInv, TypeOK, Thread
<1>4. History'
  BY <1>0, <1>1
     DEF Woken, InBuffer, UnlockAgain, At, FeedInv, History, Feed!LastDone, TypeInv, TypeOK,
         Thread
<1>5. \E f \in 0..unread' : Unread(f)'
  <2>1. PICK e \in 0..unread : Unread(e)
    BY <1>0 DEF FeedInv
  <2>2. Pushed' = Pushed
    BY <1>0, <1>1
       DEF Woken, InBuffer, UnlockAgain, At, FeedInv, Hands, Pushed, TypeInv, TypeOK, Thread
  <2>3. Taken' = Taken
    BY <1>0, <1>1
       DEF Woken, InBuffer, UnlockAgain, At, FeedInv, Hands, Taken, TypeInv, TypeOK, Thread
  <2>4. pc["main"] \in {"out", "join"} => pc'["main"] \in {"out", "join"}
    BY <1>0 DEF Woken, InBuffer, UnlockAgain, At, TypeInv, TypeOK, Thread
  <2> QED BY <1>1, <2>1, <2>2, <2>3, <2>4, UnreadSame
<1>6. NeededRowsKept'
  BY <1>1 DEF Woken, InBuffer, UnlockAgain, FeedInv, NeededRowsKept, TypeInv, TypeOK, Thread
<1> QED BY <1>0, <1>2, <1>3, <1>4, <1>5, <1>6 DEF FeedInv

\* A row put into the buffer comes before all the others.
LEMMA FeedPushLeave ==
    ASSUME TypeInv, FeedInv, NEW th \in {"producer", "main"}, InBuffer(PushLeave(th))
    PROVE  FeedInv'
<1>0. pc[th] = "in" /\ pc' = [pc EXCEPT ![th] = "out"] /\ Up /\ Up'
  BY DEF InBuffer, PushLeave, At, FeedInv, Up, TypeInv, TypeOK, Thread
<1>1. UNCHANGED <<table, top, saved, running, lastId, done, redo, row, tmp>>
  BY DEF InBuffer, PushLeave
<1>2. /\ unread < Capacity /\ unread \in 0..Len(container) /\ unread' = unread + 1
      /\ Capacity \in Nat /\ Len(container) \in Nat
  <2>1. tmp[th] = unread /\ unread < Capacity
    BY <1>0 DEF FeedInv, Sections
  <2>2. unread' = tmp[th] + 1
    BY DEF InBuffer, PushLeave
  <2> QED BY <2>1, <2>2, TParserAssumption DEF TypeInv, TypeOK
<1>3. \A i \in 1..unread' : container'[i] = IF i = 1 THEN row[th] ELSE container[i - 1]
  <2>1. container \in Seq(0..top) /\ Len(container) <= Capacity /\ row[th] \in 0..top
    BY DEF TypeInv, TypeOK, Thread
  <2>2. /\ Len(PushFront(row[th])) = IF Len(container) < Capacity THEN Len(container) + 1 ELSE Capacity
        /\ \A i \in 1..Len(PushFront(row[th])) :
              PushFront(row[th])[i] = IF i = 1 THEN row[th] ELSE container[i - 1]
    BY <2>1, PushFrontIs
  <2>3. container' = PushFront(row[th])
    BY DEF InBuffer, PushLeave
  <2> QED BY <1>2, <2>2, <2>3
<1>4. Exclusive'
  BY <1>0 DEF FeedInv, Exclusive, TypeInv, TypeOK, Thread
<1>5. Sections'
  BY <1>0 DEF FeedInv, Exclusive, Sections, TypeInv, TypeOK, Thread
<1>6. Hands'
  BY <1>0, <1>1 DEF FeedInv, Hands, TypeInv, TypeOK, Thread
<1>7. History'
  BY <1>0, <1>1 DEF FeedInv, History, Feed!LastDone, TypeInv, TypeOK, Thread
<1>8. NeededRowsKept'
  BY <1>1 DEF FeedInv, NeededRowsKept
<1>9. Taken' = Taken /\ Taken \in Int
  BY <1>0, <1>1 DEF Taken, TypeInv, TypeOK, Thread
<1>10. PICK e \in 0..unread : Unread(e)
  BY <1>0 DEF FeedInv
<1>11. Pushed \in Int
  BY DEF Pushed, TypeInv, TypeOK, Thread
<1>12. CASE th = "producer"
  <2>1. row[th] = lastId + 1 /\ Pushed = lastId /\ Pushed' = Pushed + 1
    BY <1>0, <1>1, <1>12 DEF FeedInv, Hands, Pushed, TypeInv, TypeOK, Thread
  <2> DEFINE f == IF e = 0 THEN 0 ELSE e + 1
  <2>2. f \in 0..unread'
    BY <1>2
  <2>3. \A i \in 1..unread' :
          container'[i] = IF i = f THEN Empty
                          ELSE IF f # 0 /\ f < i THEN Pushed' - i + 2
                          ELSE Pushed' - i + 1
    <3> SUFFICES ASSUME NEW i \in 1..unread'
                 PROVE  container'[i] = IF i = f THEN Empty
                                        ELSE IF f # 0 /\ f < i THEN Pushed' - i + 2
                                        ELSE Pushed' - i + 1
      OBVIOUS
    <3>1. CASE i = 1
      BY <1>2, <1>3, <1>11, <2>1, <3>1
    <3>2. CASE i # 1
      <4>1. i - 1 \in 1..unread /\ container'[i] = container[i - 1]
        BY <1>2, <1>3, <3>2
      <4>2. container[i - 1] = IF i - 1 = e THEN Empty
                               ELSE IF e # 0 /\ e < i - 1 THEN Pushed - (i - 1) + 2
                               ELSE Pushed - (i - 1) + 1
        BY <1>10, <4>1 DEF Unread
      <4> QED BY <1>2, <1>11, <2>1, <4>1, <4>2
    <3> QED BY <3>1, <3>2
  <2>4. Taken' = Pushed' - unread' + (IF f = 0 THEN 0 ELSE 1)
    BY <1>2, <1>9, <1>10, <1>11, <2>1 DEF Unread
  <2>5. f # 0 => pc'["main"] \in {"out", "join"}
    BY <1>0, <1>10, <1>12 DEF Unread, TypeInv, TypeOK, Thread
  <2>6. Unread(f)'
    BY <2>3, <2>4, <2>5 DEF Unread
  <2> QED BY <1>0, <1>4, <1>5, <1>6, <1>7, <1>8, <2>2, <2>6 DEF FeedInv
<1>13. CASE th = "main"
  <2>1. row[th] = Empty /\ Pushed' = Pushed
    BY <1>0, <1>1, <1>13 DEF FeedInv, Hands, Pushed, TypeInv, TypeOK, Thread
  <2>2. e = 0
    BY <1>0, <1>10, <1>13 DEF Unread
  <2>3. \A i \in 1..unread' : container'[i] = IF i = 1 THEN Empty ELSE Pushed' - i + 2
    <3> SUFFICES ASSUME NEW i \in 1..unread', i # 1
                 PROVE  container'[i] = Pushed' - i + 2
      BY <1>3, <2>1
    <3>1. i - 1 \in 1..unread /\ container'[i] = container[i - 1]
      BY <1>2, <1>3
    <3>2. container[i - 1] = Pushed - (i - 1) + 1
      BY <1>10, <2>2, <3>1 DEF Unread
    <3> QED BY <1>11, <2>1, <3>1, <3>2
  <2>4. Taken' = Pushed' - unread' + 1
    BY <1>2, <1>9, <1>10, <1>11, <2>1, <2>2 DEF Unread
  <2>5. pc'["main"] = "out"
    BY <1>0, <1>13 DEF TypeInv, TypeOK, Thread
  <2>6. Unread(1)'
    BY <1>2, <2>3, <2>4, <2>5 DEF Unread
  <2>7. 1 \in 0..unread'
    BY <1>2
  <2> QED BY <1>0, <1>4, <1>5, <1>6, <1>7, <1>8, <2>6, <2>7 DEF FeedInv
<1> QED BY <1>12, <1>13

\* The consumer takes the oldest unread row, the one behind the saved id.
LEMMA FeedPopLeave ==
    ASSUME TypeInv, FeedInv, InBuffer(PopLeave)
    PROVE  FeedInv'
<1>0. pc["consumer"] = "in" /\ pc' = [pc EXCEPT !["consumer"] = "out"] /\ Up /\ Up'
  BY DEF InBuffer, PopLeave, At, FeedInv, Up, TypeInv, TypeOK, Thread
<1>1. UNCHANGED <<table, top, saved, running, lastId, done, redo, container, row, tmp>>
  BY DEF InBuffer, PopLeave
<1>2. /\ unread \in Nat /\ unread > 0 /\ unread' = unread - 1
      /\ row["consumer"] = container[unread] /\ saved \in Nat
  BY <1>0 DEF FeedInv, Sections, InBuffer, PopLeave, TypeInv, TypeOK
<1>3. PICK e \in 0..unread : Unread(e)
  BY <1>0 DEF FeedInv
<1>4. Pushed \in Int /\ Pushed' = Pushed /\ Taken = saved
  BY <1>0, <1>1 DEF Pushed, Taken, TypeInv, TypeOK, Thread
<1>5. row["consumer"] = IF e = unread THEN Empty ELSE saved + 1
  <2>1. row["consumer"] = IF unread = e THEN Empty
                          ELSE IF e # 0 /\ e < unread THEN Pushed - unread + 2
                          ELSE Pushed - unread + 1
    BY <1>2, <1>3 DEF Unread
  <2>2. saved = Pushed - unread + (IF e = 0 THEN 0 ELSE 1)
    BY <1>3, <1>4 DEF Unread
  <2> QED BY <1>2, <1>4, <2>1, <2>2
<1>6. Exclusive'
  BY <1>0 DEF FeedInv, Exclusive, TypeInv, TypeOK, Thread
<1>7. Sections'
  BY <1>0 DEF FeedInv, Exclusive, Sections, TypeInv, TypeOK, Thread
<1>8. Hands'
  BY <1>0, <1>1, <1>5 DEF FeedInv, Hands, TypeInv, TypeOK, Thread
<1>9. History'
  BY <1>0, <1>1 DEF FeedInv, History, Feed!LastDone, TypeInv, TypeOK, Thread
<1>10. NeededRowsKept'
  BY <1>1 DEF FeedInv, NeededRowsKept
<1>11. Taken' = IF e = unread THEN saved ELSE saved + 1
  BY <1>0, <1>1, <1>2, <1>5 DEF Taken, Empty, TypeInv, TypeOK, Thread
<1>17. PICK f \in 0..unread : f = IF e = unread THEN 0 ELSE e
  BY <1>2
<1>12. f \in 0..unread' /\ (f # 0 => f = e)
  BY <1>2, <1>3, <1>17
<1>13. Taken' = Pushed' - unread' + (IF f = 0 THEN 0 ELSE 1)
  <2>1. saved = Pushed - unread + (IF e = 0 THEN 0 ELSE 1)
    BY <1>3, <1>4 DEF Unread
  <2> QED BY <1>2, <1>4, <1>11, <1>17, <2>1
<1>14. \A i \in 1..unread' :
          container'[i] = IF i = f THEN Empty
                          ELSE IF f # 0 /\ f < i THEN Pushed' - i + 2
                          ELSE Pushed' - i + 1
  <2> SUFFICES ASSUME NEW i \in 1..unread'
               PROVE  container'[i] = IF i = f THEN Empty
                                      ELSE IF f # 0 /\ f < i THEN Pushed' - i + 2
                                      ELSE Pushed' - i + 1
    OBVIOUS
  <2>1. i \in 1..unread /\ i < unread
    BY <1>2
  <2>2. container[i] = IF i = e THEN Empty
                       ELSE IF e # 0 /\ e < i THEN Pushed - i + 2
                       ELSE Pushed - i + 1
    BY <1>3, <2>1 DEF Unread
  <2> QED BY <1>1, <1>2, <1>4, <1>17, <2>1, <2>2
<1>15. f # 0 => pc'["main"] \in {"out", "join"}
  BY <1>0, <1>3, <1>12 DEF Unread, TypeInv, TypeOK, Thread
<1>16. Unread(f)'
  BY <1>13, <1>14, <1>15 DEF Unread
<1> QED BY <1>0, <1>6, <1>7, <1>8, <1>9, <1>10, <1>12, <1>16 DEF FeedInv

\* A crash forgets the buffer; whether the last handled row comes again depends
\* on whether its id was saved.
LEMMA FeedCrash ==
    ASSUME TypeInv, FeedInv, Crash
    PROVE  FeedInv'
<1>1. pc' = [producer |-> "gone", consumer |-> "gone", main |-> "down"]
  BY DEF Crash
<1>2. pc'["producer"] = "gone" /\ pc'["consumer"] = "gone" /\ pc'["main"] = "down"
  BY <1>1
<1>3. Exclusive' /\ Sections' /\ ~Up' /\ \A th \in Thread : pc'[th] \in {"gone", "down"}
  BY <1>2 DEF Exclusive, Sections, Up, Thread
<1>4. UNCHANGED <<table, top, saved, done>> /\ redo' = IF done # <<>> /\ saved # done[Len(done)] THEN 1 ELSE 0
  BY DEF Crash
<1>5. Feed!LastDone = saved \/ Feed!LastDone = saved + 1
  BY DEF FeedInv, History, TypeInv, TypeOK
<1>6. History'
  BY <1>2, <1>4, <1>5 DEF History, Feed!LastDone, TypeInv, TypeOK
<1>7. NeededRowsKept'
  BY <1>4 DEF FeedInv, NeededRowsKept
<1> QED BY <1>3, <1>6, <1>7 DEF FeedInv

\* A restart begins behind the saved id with an empty buffer.
LEMMA FeedRestart ==
    ASSUME TypeInv, FeedInv, Restart
    PROVE  FeedInv'
<1>1. pc' = [producer |-> "start", consumer |-> "loop", main |-> "serve"]
  BY DEF Restart
<1>2. pc'["producer"] = "start" /\ pc'["consumer"] = "loop" /\ pc'["main"] = "serve"
  BY <1>1
<1>3. Exclusive' /\ Sections' /\ Up'
  BY <1>2 DEF Exclusive, Sections, Up, Thread
<1>4. pc["consumer"] # "save"
  BY DEF Restart, FeedInv, Thread
<1>5. UNCHANGED <<table, top, saved, done, redo>> /\ unread' = 0 /\ row' = [th \in Thread |-> Empty]
  BY DEF Restart, Started
<1>6. History'
  BY <1>2, <1>4, <1>5 DEF FeedInv, History, Feed!LastDone
<1>7. NeededRowsKept'
  BY <1>5 DEF FeedInv, NeededRowsKept
<1>8. Hands'
  BY <1>2, <1>5 DEF Hands, Thread
<1>9. Pushed' = saved /\ Taken' = saved
  BY <1>2, <1>5 DEF Pushed, Taken
<1>10. Unread(0)'
  BY <1>5, <1>9 DEF Unread, TypeInv, TypeOK
<1> QED BY <1>3, <1>5, <1>6, <1>7, <1>8, <1>10 DEF FeedInv

\* The process exits, and log2producer commits a row.
LEMMA FeedOther ==
    ASSUME TypeInv, FeedInv, Exit \/ CommitRow \/ UNCHANGED vars
    PROVE  FeedInv'
<1>1. CASE Exit
  <2>1. pc["producer"] = "gone" /\ pc["consumer"] = "gone" /\ pc' = [pc EXCEPT !["main"] = "down"]
    BY <1>1 DEF Exit, At
  <2>2. Exclusive' /\ Sections' /\ ~Up' /\ \A th \in Thread : pc'[th] \in {"gone", "down"}
    BY <2>1 DEF Exclusive, Sections, Up, TypeInv, TypeOK, Thread
  <2>3. History' /\ NeededRowsKept'
    BY <1>1, <2>1
       DEF Exit, FeedInv, History, NeededRowsKept, Feed!LastDone, TypeInv, TypeOK, Thread
  <2> QED BY <2>2, <2>3 DEF FeedInv
<1>2. CASE CommitRow
  <2>1. UNCHANGED <<saved, running, container, unread, locked, pc, row, tmp, lastId, done, redo>>
    BY <1>2 DEF CommitRow, bufVars
  <2>2. NeededRowsKept'
    BY <1>2 DEF CommitRow, FeedInv, NeededRowsKept, TypeInv, TypeOK
  <2>3. Exclusive' /\ Sections' /\ History' /\ (Up' <=> Up)
    BY <2>1 DEF FeedInv, Exclusive, Sections, History, Feed!LastDone, Up
  <2>4. Up => Hands' /\ \E f \in 0..unread' : Unread(f)'
    BY <2>1 DEF FeedInv, Hands, Unread, Pushed, Taken
  <2>5. ~Up => \A th \in Thread : pc'[th] \in {"gone", "down"}
    BY <2>1 DEF FeedInv
  <2> QED BY <2>2, <2>3, <2>4, <2>5 DEF FeedInv
<1>3. CASE UNCHANGED vars
  <2>1. UNCHANGED <<table, top, saved, running, container, unread, locked, pc, row, tmp, lastId, done, redo>>
    BY <1>3 DEF vars, bufVars
  <2>2. NeededRowsKept' /\ Exclusive' /\ Sections' /\ History' /\ (Up' <=> Up)
    BY <2>1 DEF FeedInv, NeededRowsKept, Exclusive, Sections, History, Feed!LastDone, Up
  <2>3. Up => Hands' /\ \E f \in 0..unread' : Unread(f)'
    BY <2>1 DEF FeedInv, Hands, Unread, Pushed, Taken
  <2>4. ~Up => \A th \in Thread : pc'[th] \in {"gone", "down"}
    BY <2>1 DEF FeedInv
  <2> QED BY <2>2, <2>3, <2>4 DEF FeedInv
<1> QED BY <1>1, <1>2, <1>3

\* FeedInv holds when the threads start with an empty table.
LEMMA FeedInvInit == Init => FeedInv
<1> SUFFICES ASSUME Init PROVE FeedInv
  OBVIOUS
<1>1. pc = [producer |-> "start", consumer |-> "loop", main |-> "serve"]
  BY DEF Init
<1>2. pc["producer"] = "start" /\ pc["consumer"] = "loop" /\ pc["main"] = "serve"
  BY <1>1
<1>3. Exclusive /\ Sections /\ Up
  BY <1>2 DEF Exclusive, Sections, Up, Thread
<1>4. History /\ NeededRowsKept
  BY <1>2 DEF Init, History, NeededRowsKept, Feed!LastDone
<1>5. Hands
  BY <1>2 DEF Init, Hands, Thread
<1>6. Unread(0)
  BY <1>2 DEF Init, Unread, Pushed, Taken
<1> QED BY <1>3, <1>4, <1>5, <1>6 DEF FeedInv, Init

\* Every step keeps FeedInv, if only its holder releases the mutex.
LEMMA FeedInvStep ==
    ASSUME TypeInv, FeedInv, ~StrayUnlock, [Next]_vars
    PROVE  FeedInv'
<1>1. CASE Producer
  BY <1>1, FeedStart, FeedFetch, FeedCheck, FeedPushed, FeedProducerEnds, FeedPushEnter, FeedPushLeave
     DEF Producer
<1>2. CASE Consumer
  BY <1>2, FeedLoops, FeedConsumerEnds, FeedGotRow, FeedHandle, FeedSave, FeedPopEnter, FeedPopLeave
     DEF Consumer
<1>3. CASE Main
  BY <1>3, FeedStop, FeedWoken, FeedOther, FeedPushEnter, FeedPushLeave DEF Main
<1>4. CASE Crash \/ Restart
  BY <1>4, FeedCrash, FeedRestart
<1>5. CASE CommitRow \/ UNCHANGED vars
  BY <1>5, FeedOther
<1> QED BY <1>1, <1>2, <1>3, <1>4, <1>5 DEF Next

\* The mutex keeps the threads apart, the buffer holds the rows between the saved
\* id and the producer without a gap, and no row that a restart needs is deleted.
THEOREM FeedInvHolds == ~StrayUnlock /\ Spec => []FeedInv
<1>1. Init => TypeInv /\ FeedInv
  BY TypeInit, FeedInvInit
<1>2. (~StrayUnlock /\ TypeInv /\ FeedInv) /\ [Next]_vars => (~StrayUnlock /\ TypeInv /\ FeedInv)'
  BY TypeStep, FeedInvStep
<1> QED BY <1>1, <1>2, PTL DEF Spec

\* Whatever the producer deletes, the rows behind the saved id stay in 0_txlogs2.
THEOREM NeededRowsStay == ~StrayUnlock /\ Spec => []NeededRowsKept
  BY FeedInvHolds, PTL DEF FeedInv

-----------------------------------------------------------------------------
(* The refinement of RowFeed. *)

\* Every step of the threads is a step of RowFeed or changes nothing it sees.
LEMMA FeedStep ==
    ASSUME TypeInv, FeedInv, [Next]_vars
    PROVE  [Feed!FeedNext]_<<done, saved, redo>>
<1>1. CASE HandleRow
  <2>1. pc["consumer"] = "handle" /\ Up
    BY <1>1 DEF HandleRow, At, FeedInv, Thread
  <2>2. row["consumer"] = saved + 1 /\ Feed!LastDone = saved + redo
    BY <2>1 DEF FeedInv, Hands, History
  <2>3. done' = Append(done, saved + 1) /\ redo' = 0 /\ saved' = saved /\ redo \in {0, 1} /\ saved \in Nat
    BY <1>1, <2>2 DEF HandleRow, TypeInv, TypeOK
  <2>4. CASE redo = 0
    <3>1. Feed!Feed
      BY <2>2, <2>3, <2>4 DEF Feed!Feed
    <3> QED BY <3>1 DEF Feed!FeedNext
  <2>5. CASE redo = 1
    <3>1. Feed!FeedAgain
      BY <2>2, <2>3, <2>5 DEF Feed!FeedAgain
    <3> QED BY <3>1 DEF Feed!FeedNext
  <2> QED BY <2>3, <2>4, <2>5
<1>2. CASE UpdateLastTxlog2Id
  <2>1. pc["consumer"] = "save" /\ Up
    BY <1>2 DEF UpdateLastTxlog2Id, At, FeedInv, Thread
  <2>2. row["consumer"] = saved + 1 /\ Feed!LastDone = saved + 1 /\ saved \in Nat
    BY <2>1 DEF FeedInv, Hands, History, TypeInv, TypeOK
  <2>3. Feed!Save
    BY <1>2, <2>2 DEF Feed!Save, UpdateLastTxlog2Id, ConsumerIdle
  <2> QED BY <2>3 DEF Feed!FeedNext
<1>3. CASE Crash
  <2>1. done = <<>> => saved = Feed!LastDone
    BY DEF FeedInv, History, Feed!LastDone, TypeInv, TypeOK
  <2>2. Feed!Forget
    BY <1>3, <2>1 DEF Crash, Feed!Forget, Feed!LastDone
  <2> QED BY <2>2 DEF Feed!FeedNext
<1>4. CASE Producer
  BY <1>4 DEF Producer, GetLastTxLog2Id, TryFetchTxLog2FromDB, CheckRunning, PushedRow,
              ProducerEnds, InBuffer, ProducerIdle
<1>5. CASE Consumer /\ ~HandleRow /\ ~UpdateLastTxlog2Id
  BY <1>5 DEF Consumer, ConsumerLoops, ConsumerEnds, GotRow, InBuffer, ConsumerIdle
<1>6. CASE Main
  BY <1>6 DEF Main, Stop, Woken, Exit, InBuffer
<1>7. CASE Restart \/ CommitRow \/ UNCHANGED vars
  BY <1>7 DEF Restart, CommitRow, vars
<1> QED BY <1>1, <1>2, <1>3, <1>4, <1>5, <1>6, <1>7 DEF Next

\* The threads, the buffer, stop(), crashes and the deletion of old rows together
\* implement RowFeed: the handlers run in the order of the ids, none is left out,
\* and a row is handled twice only after a crash between its handler and the
\* write of its id.
THEOREM RowsFed == ~StrayUnlock /\ Spec => RowsFedInOrder
<1>1. Init => Feed!FeedInit
  BY DEF Init, Feed!FeedInit
<1>2. TypeInv /\ FeedInv /\ [Next]_vars => [Feed!FeedNext]_<<done, saved, redo>>
  BY FeedStep
<1>3. Spec => []TypeInv
  BY TypeInit, TypeStep, PTL DEF Spec
<1> QED BY <1>1, <1>2, <1>3, FeedInvHolds, PTL DEF Spec, RowsFedInOrder, Feed!FeedSpec
=============================================================================
