----------------------------- MODULE NotifyLog -----------------------------
(***************************************************************************)
(* The event notifications: the consumer thread of tparser writes a line   *)
(* per event to numbered files (NotifyProducer), tnotify reads the files   *)
(* and inserts every event into the table event_app_<id> of each           *)
(* application that subscribed to its address (Notify, NotifyLogReader),   *)
(* while HTTP requests add and remove subscriptions.                       *)
(*                                                                         *)
(* A row of 0_txlogs2 makes one or two calls of NotifyProducer::write(),   *)
(* each with the lines of its events (none if the transaction has no       *)
(* address); the row's id is saved afterwards, so a killed tparser writes  *)
(* the events again.  The lines of one call reach the file in two pieces,  *)
(* cut between two lines or inside one.                                    *)
(*                                                                         *)
(* MySQLConnection::execute() repeats a statement whose answer was lost    *)
(* (error 2013) after a reconnect; if the server had run it, an INSERT is  *)
(* there twice (DeliverTwice).  A repeated UPDATE of the status changes no *)
(* row, which updateOrThrowEx() takes for an error: tnotify ends there, as *)
(* after a second failure, like a kill after the step.                     *)
(*                                                                         *)
(* Abstractions: a line is the event it tells, an offset counts whole      *)
(* lines; file numbers start at 1; the event tables keep every row (the    *)
(* code deletes beyond three million); inotify only shortens a polling     *)
(* wait; the height notification.begin.height is taken as reached.         *)
(***************************************************************************)
EXTENDS Integers, Sequences, FiniteSets

CONSTANTS
    Address, App,
    Block,        \* the destination of a block event: every application
    Writes,       \* Writes[r]: the calls of write() for row r, each a sequence
                  \* of destinations
    Fixed,        \* subscriptions <<app, address>> that are there from the start
                  \* and stay
    Loose,        \* subscriptions that come and go
    MaxFileLines, \* kFileMaxSize_, in lines
    ReadMax,      \* lines that one call of readLines() returns (501)
    MaxCrash,     \* bound: kills of tparser
    MaxDown,      \* bound: kills of tnotify
    MaxRepeat,    \* bound: INSERTs that are run twice
    MaxRequest    \* bound: HTTP requests that change a subscription

ASSUME NotifyAssumption ==
    /\ Block \notin Address
    /\ Writes \in Seq(Seq(Seq(Address \cup {Block})))
    /\ \A r \in DOMAIN Writes : Writes[r] # <<>>
    /\ Fixed \subseteq App \X Address /\ Loose \subseteq App \X Address
    /\ Fixed \cap Loose = {}
    /\ MaxFileLines \in Nat /\ ReadMax \in Nat \ {0}
    /\ MaxCrash \in Nat /\ MaxDown \in Nat /\ MaxRepeat \in Nat /\ MaxRequest \in Nat

VARIABLES
    wpc,        \* tparser: "write", "rest", "save", "down"
    row,        \* the row under way
    call,       \* the call of write() under way
    part,       \* lines of it in the file
    saved,      \* 90_tparser_txlogs_offset_id
    wIndex,     \* fileIndex_ of NotifyProducer
    wOpen,      \* fileHandler_ # nullptr
    files,      \* files[i]: its whole lines, and whether it ends inside a line
    torn,       \* history: a kill left a piece of a line behind
    rpc,        \* tnotify: "down", "check", "read", "nothing", "line", "deliver"
    rIndex, rOffset,  \* logFileIndex_, logFileOffset_
    isNew,      \* isNewFileExist of threadConsumeNotifyLogs()
    lines,      \* how many lines readLines() returned and are not handled yet
    todo,       \* applications that the event still goes to
    hit,        \* cnt > 0
    status,     \* notify.file.status in meta_notifyd
    subs,       \* addressTable_
    appIds,     \* appIds_
    appSubcribe,\* the table app_subcribe
    inbox,      \* inbox[a]: the rows of event_app_<a>, as places of lines
    crashes, downs, repeats, requests

writerVars == <<wpc, row, call, part, saved, wIndex, wOpen, files, torn, crashes>>
readerVars == <<rpc, rIndex, rOffset, isNew, lines, todo, hit, status, inbox, downs, repeats>>
subVars == <<subs, appIds, appSubcribe, requests>>
vars == <<writerVars, readerVars, subVars>>

Rows == DOMAIN Writes
Event == UNION {UNION {{<<r, c, k>> : k \in DOMAIN Writes[r][c]} : c \in DOMAIN Writes[r]} :
                     r \in Rows}
Dest(e) == Writes[e[1]][e[2]][e[3]]

\* A line: its event, or Garbled if a piece of another line stands before it.
Garbled == <<0, 0, 0>>
File == [lines : Seq(Event \cup {Garbled}), cut : BOOLEAN]
Place == Nat \X Nat

TypeOK ==
    /\ wpc \in {"write", "rest", "save", "down"}
    /\ row \in Rows \cup {Len(Writes) + 1} /\ call \in Nat \ {0} /\ part \in Nat
    /\ saved \in {0} \cup Rows
    /\ files \in Seq(File)
    /\ wIndex \in 0..(Len(files) + 1) /\ wOpen \in BOOLEAN
    /\ torn \in BOOLEAN
    /\ rpc \in {"down", "check", "read", "nothing", "line", "deliver"}
    /\ rIndex \in 1..(Len(files) + 1) /\ rOffset \in Nat
    /\ rIndex \in DOMAIN files => rOffset + lines <= Len(files[rIndex].lines)
    /\ isNew \in BOOLEAN /\ lines \in 0..ReadMax
    /\ todo \subseteq App /\ hit \in BOOLEAN
    /\ status \in Place
    /\ subs \subseteq App \X Address /\ appSubcribe \subseteq App \X Address
    /\ appIds \subseteq App
    /\ inbox \in [App -> Seq(Place)]
    /\ crashes \in 0..MaxCrash /\ downs \in 0..MaxDown
    /\ repeats \in 0..MaxRepeat /\ requests \in 0..MaxRequest

AppsOf(pairs) == {p[1] : p \in pairs}

Init ==
    /\ wpc = "write" /\ row = 1 /\ call = 1 /\ part = 0 /\ saved = 0
    /\ wIndex = 0 /\ wOpen = FALSE /\ files = <<>> /\ torn = FALSE
    /\ rpc = "check" /\ rIndex = 1 /\ rOffset = 0 /\ isNew = FALSE
    /\ lines = 0 /\ todo = {} /\ hit = FALSE /\ status = <<1, 0>>
    /\ subs = Fixed /\ appIds = AppsOf(Fixed) /\ appSubcribe = Fixed
    /\ inbox = [a \in App |-> <<>>]
    /\ crashes = 0 /\ downs = 0 /\ repeats = 0 /\ requests = 0

-----------------------------------------------------------------------------
(* tparser: NotifyProducer. *)

\* The lines of the call under way.
Lines == [k \in DOMAIN Writes[row][call] |-> <<row, call, k>>]

\* fopen(..., "a") creates the file if it is not there.
Opened(i) == IF i > Len(files) THEN Append(files, [lines |-> <<>>, cut |-> FALSE])
             ELSE files

\* new lines at the end of a file that ends inside a line spoil the first one.
AppendTo(f, new) ==
    IF f.cut /\ new # <<>> THEN <<Garbled>> \o Tail(new) ELSE new

\* write() up to the end of line n, or up to a point inside line n + 1.
WriteSome ==
    /\ wpc = "write" /\ row \in Rows
    /\ LET i == IF wIndex = 0 THEN 1 ELSE wIndex
           open == Opened(i)
           f == open[i] IN
       /\ ~f.cut
       /\ \E n \in 0..Len(Lines), c \in BOOLEAN :
            /\ c => n < Len(Lines)
            /\ files' = [open EXCEPT ![i] = [lines |-> f.lines \o SubSeq(Lines, 1, n),
                                             cut |-> c]]
            /\ part' = n
       /\ wIndex' = i
    /\ wOpen' = TRUE
    /\ wpc' = "rest"
    /\ UNCHANGED <<row, call, saved, torn, crashes, readerVars, subVars>>

\* fileOffset_ > kFileMaxSize_
Full(f) == Len(f.lines) > MaxFileLines

\* The rest of write(), from line n + 1 of the call on: after the last line a
\* full file is closed, and the next call opens the next one.  Then the next
\* call of the row, or its end.  A call without a line mends no piece of one.
WriteTo(i, open, new) ==
    LET f == [lines |-> open[i].lines \o new, cut |-> open[i].cut /\ new = <<>>] IN
    /\ files' = [open EXCEPT ![i] = f]
    /\ wOpen' = ~Full(f)
    /\ wIndex' = IF Full(f) THEN i + 1 ELSE i
    /\ part' = 0
    /\ IF call < Len(Writes[row])
       THEN call' = call + 1 /\ wpc' = "write"
       ELSE call' = call /\ wpc' = "save"
    /\ UNCHANGED <<row, saved, torn, crashes, readerVars, subVars>>

WriteRest ==
    /\ wpc = "rest"
    /\ WriteTo(wIndex, files, SubSeq(Lines, part + 1, Len(Lines)))

\* A call after a kill that left a piece of a line behind.
WriteAfterCut ==
    /\ wpc = "write" /\ row \in Rows
    /\ wIndex \in DOMAIN files /\ files[wIndex].cut
    /\ WriteTo(wIndex, files, AppendTo(files[wIndex], Lines))

\* Mutant of SaveId: the id of the next row is saved.
SaveIdAhead ==
    /\ wpc = "save"
    /\ saved' = IF row + 1 \in Rows THEN row + 1 ELSE row
    /\ row' = row + 1 /\ call' = 1
    /\ wpc' = "write"
    /\ UNCHANGED <<part, wIndex, wOpen, files, torn, crashes, readerVars, subVars>>

\* updateLastTxlog2Id()
SaveId ==
    /\ wpc = "save"
    /\ saved' = row
    /\ row' = row + 1 /\ call' = 1
    /\ wpc' = "write"
    /\ UNCHANGED <<part, wIndex, wOpen, files, torn, crashes, readerVars, subVars>>

KillParser ==
    /\ wpc # "down"
    /\ crashes < MaxCrash
    /\ crashes' = crashes + 1
    /\ torn' = (torn \/ (wpc = "rest" /\ files[wIndex].cut))
    /\ wpc' = "down" /\ call' = 1 /\ part' = 0
    /\ wIndex' = 0 /\ wOpen' = FALSE
    /\ UNCHANGED <<row, saved, files, readerVars, subVars>>

\* Mutant of NewestFile: a restart opens a file of its own.
NewestFileAndOne == Len(files) + 2

\* NotifyProducer::init() goes on in the file with the highest number; if there
\* is none, write() begins with the first.
NewestFile == Len(files)

StartParser ==
    /\ wpc = "down"
    /\ wIndex' = NewestFile
    /\ row' = saved + 1
    /\ wpc' = "write"
    /\ UNCHANGED <<call, part, saved, wOpen, files, torn, crashes, readerVars, subVars>>

Parser == WriteSome \/ WriteRest \/ WriteAfterCut \/ SaveId

-----------------------------------------------------------------------------
(* tnotify: threadConsumeNotifyLogs(). *)

\* "必须在读之前检测是否存在新文件，否则可能漏读"
IsNewFileExist ==
    /\ rpc = "check"
    /\ isNew' = (rIndex + 1 \in DOMAIN files)
    /\ rpc' = "read"
    /\ UNCHANGED <<rIndex, rOffset, lines, todo, hit, status, inbox, downs, repeats, writerVars, subVars>>

\* readLines() stops at the end of the file or inside a line.
ReadLines ==
    /\ rpc = "read"
    /\ rIndex \in DOMAIN files
    /\ LET n == Len(files[rIndex].lines) - rOffset IN
          lines' = IF n < ReadMax THEN n ELSE ReadMax
    /\ rpc' = IF lines' = 0 THEN "nothing" ELSE "line"
    /\ UNCHANGED <<rIndex, rOffset, isNew, todo, hit, status, inbox, downs, repeats, writerVars, subVars>>

\* Mutant of NewSeen: the check comes after the read.
NewSeenLate == rIndex + 1 \in DOMAIN files

\* The answer that decides whether an exhausted file is left.
NewSeen == isNew

\* Mutant of NextFile: the index stays where it is.
SameFile == rIndex

\* logFileIndex_++
NextFile == rIndex + 1

\* Nothing was read: on to the next file if there is one, else wait.
SwitchOrWait ==
    /\ rpc = "nothing"
    /\ rIndex' = IF NewSeen THEN NextFile ELSE rIndex
    /\ rOffset' = IF NewSeen THEN 0 ELSE rOffset
    /\ rpc' = "check"
    /\ UNCHANGED <<isNew, lines, todo, hit, status, inbox, downs, repeats, writerVars, subVars>>

Gone ==
    /\ rpc' = "down"
    /\ rIndex' = 1 /\ rOffset' = 0 /\ isNew' = FALSE
    /\ lines' = 0 /\ todo' = {} /\ hit' = FALSE
    /\ subs' = {} /\ appIds' = {}
    /\ UNCHANGED <<status, inbox, repeats, appSubcribe, requests, writerVars>>

\* The exception of readLines(): tparser has not written its first line yet.
ReadFails ==
    /\ rpc = "read"
    /\ rIndex \notin DOMAIN files
    /\ Gone
    /\ UNCHANGED downs

\* handleBlockEvent() goes through appIds_, handleTxEvent() through the
\* subscribers of the address.
Receivers(e) == IF Dest(e) = Block THEN appIds ELSE {p[1] : p \in {s \in subs : s[2] = Dest(e)}}

\* One line, under lock_ until its status is written: the offset moves first.
TakeLine ==
    /\ rpc = "line"
    /\ LET l == files[rIndex].lines[rOffset + 1] IN
       /\ l # Garbled
       /\ todo' = Receivers(l)
       /\ hit' = (Receivers(l) # {})
    /\ rOffset' = rOffset + 1
    /\ lines' = lines - 1
    /\ rpc' = "deliver"
    /\ UNCHANGED <<rIndex, isNew, status, inbox, downs, repeats, writerVars, subVars>>

\* parse() of a garbled line: an assert about the number of fields ends the
\* process, or the line passes for an event of unknown content, or for none.
TakeGarbled ==
    /\ rpc = "line"
    /\ files[rIndex].lines[rOffset + 1] = Garbled
    /\ \/ Gone /\ UNCHANGED downs
       \/ /\ \E A \in SUBSET appIds : todo' = A /\ hit' = (A # {})
          /\ rOffset' = rOffset + 1
          /\ lines' = lines - 1
          /\ rpc' = "deliver"
          /\ UNCHANGED <<rIndex, isNew, status, inbox, downs, repeats, writerVars, subVars>>

\* INSERT INTO event_app_<a>
Deliver ==
    /\ rpc = "deliver"
    /\ \E a \in todo :
          /\ inbox' = [inbox EXCEPT ![a] = Append(@, <<rIndex, rOffset>>)]
          /\ todo' = todo \ {a}
    /\ UNCHANGED <<rpc, rIndex, rOffset, isNew, lines, hit, status, downs, repeats, writerVars, subVars>>

\* The same INSERT after a lost answer: execute() connects again and repeats it,
\* the table has it twice and the repetition reports one row.
DeliverTwice ==
    /\ rpc = "deliver"
    /\ repeats < MaxRepeat
    /\ \E a \in todo :
          /\ inbox' = [inbox EXCEPT ![a] = @ \o << <<rIndex, rOffset>>, <<rIndex, rOffset>> >>]
          /\ todo' = todo \ {a}
    /\ repeats' = repeats + 1
    /\ UNCHANGED <<rpc, rIndex, rOffset, isNew, lines, hit, status, downs, writerVars, subVars>>

\* updateStatus(): after an event for somebody, or if the last time was more
\* than three seconds ago.
UpdateStatus ==
    /\ rpc = "deliver"
    /\ todo = {}
    /\ status' \in {<<rIndex, rOffset>>} \cup (IF hit THEN {} ELSE {status})
    /\ rpc' = IF lines = 0 THEN "check" ELSE "line"
    /\ UNCHANGED <<rIndex, rOffset, isNew, lines, todo, hit, inbox, downs, repeats, writerVars, subVars>>

KillNotify ==
    /\ rpc # "down"
    /\ downs < MaxDown
    /\ downs' = downs + 1
    /\ Gone

\* Notify::init(): loadAddressTableFromDB() and getStatus().
StartNotify ==
    /\ rpc = "down"
    /\ rpc' = "check"
    /\ rIndex' = status[1] /\ rOffset' = status[2]
    /\ subs' = appSubcribe /\ appIds' = AppsOf(appSubcribe)
    /\ UNCHANGED <<isNew, lines, todo, hit, status, inbox, downs, repeats, appSubcribe,
                   requests, writerVars>>

Notify ==
    \/ IsNewFileExist \/ ReadLines \/ SwitchOrWait \/ ReadFails \/ TakeLine \/ TakeGarbled
    \/ Deliver \/ DeliverTwice \/ UpdateStatus \/ StartNotify

-----------------------------------------------------------------------------
(* tnotify: the HTTP requests, which wait for lock_. *)

Unlocked == rpc \notin {"down", "deliver"}

InsertAddress(p) ==
    /\ Unlocked
    /\ requests < MaxRequest
    /\ p \notin subs
    /\ subs' = subs \cup {p}
    /\ appIds' = appIds \cup {p[1]}
    /\ appSubcribe' = appSubcribe \cup {p}
    /\ requests' = requests + 1
    /\ UNCHANGED <<writerVars, readerVars>>

RemoveAddress(p) ==
    /\ Unlocked
    /\ requests < MaxRequest
    /\ p \in subs
    /\ subs' = subs \ {p}
    /\ appSubcribe' = appSubcribe \ {p}
    /\ requests' = requests + 1
    /\ UNCHANGED <<appIds, writerVars, readerVars>>

-----------------------------------------------------------------------------
Next ==
    \/ Parser \/ KillParser \/ StartParser
    \/ Notify \/ KillNotify
    \/ \E p \in Loose : InsertAddress(p) \/ RemoveAddress(p)

Spec == Init /\ [][Next]_vars

\* Both programs run, and their supervisors start them again.
FairSpec == Spec /\ WF_vars(Parser \/ StartParser) /\ WF_vars(Notify)

-----------------------------------------------------------------------------
LineAt(p) == files[p[1]].lines[p[2]]

\* Events in the order of the rows; a and b are the events of two lines.
Before(a, b) ==
    \/ a[1] < b[1]
    \/ a[1] = b[1] /\ a[2] < b[2]
    \/ a[1] = b[1] /\ a[2] = b[2] /\ a[3] < b[3]

\* The events that a subscriber from the start must get.
Due(a) == {e \in Event : Dest(e) = Block \/ <<a, Dest(e)>> \in Fixed}

\* An application that stays subscribed never sees an event before it has seen
\* all earlier ones that are for it: no kill of tparser or tnotify and no change
\* of files loses an event.  (A line cut by a kill of tparser is the exception.)
NoEventSkipped ==
    ~torn => \A a \in AppsOf(Fixed) : \A i \in DOMAIN inbox[a] : \A e \in Due(a) :
        Before(e, LineAt(inbox[a][i])) =>
            \E j \in 1..(i - 1) : LineAt(inbox[a][j]) = e

\* The places of the lines that reached an application go up, except where
\* tnotify was killed and began again at its last status, or where an INSERT was
\* repeated after a lost answer: an application is told a line again at most once
\* per kill or repetition, and an earlier line after a later one only by a kill.
PlaceUp(p, q) == p[1] < q[1] \/ (p[1] = q[1] /\ p[2] < q[2])
Returns(a) == {i \in 1..(Len(inbox[a]) - 1) : ~PlaceUp(inbox[a][i], inbox[a][i + 1])}
Backwards(a) == {i \in Returns(a) : inbox[a][i] # inbox[a][i + 1]}
RepeatsOnlyAfterFault ==
    \A a \in App :
        /\ Cardinality(Returns(a)) <= downs + repeats
        /\ Cardinality(Backwards(a)) <= downs

\* Every event of every row reaches every application that subscribed to it
\* from the start, after any kills.
AllDelivered ==
    \A a \in AppsOf(Fixed) : \A e \in Due(a) :
        \E i \in DOMAIN inbox[a] : LineAt(inbox[a][i]) = e
EventsArrive == <>[](torn \/ AllDelivered)
=============================================================================
