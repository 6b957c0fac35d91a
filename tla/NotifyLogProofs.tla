-------------------------- MODULE NotifyLogProofs --------------------------
(***************************************************************************)
(* Theorems about NotifyLog for every sequence of rows and events, every   *)
(* set of applications and subscriptions, every length of the files, and   *)
(* any number of kills, repeated INSERTs and requests.                     *)
(***************************************************************************)
EXTENDS NotifyLog, FiniteSetTheorems, TLAPS

-----------------------------------------------------------------------------
(* Types. *)

\* The file that tparser appends to is the newest one.
WriterInv ==
    /\ wIndex = 0 => wpc \in {"write", "down"} /\ (wpc = "write" => files = <<>>)
    /\ wIndex # 0 => wIndex \in {Len(files), Len(files) + 1}
    /\ wpc = "rest" => /\ wIndex = Len(files) /\ part <= Len(Writes[row][call])
                       /\ files[wIndex].cut => part < Len(Writes[row][call])
    /\ wpc = "down" => call = 1
    /\ wpc # "rest" => part = 0
    /\ wpc \in {"rest", "save"} => row \in Rows
    /\ row \in Rows => call \in DOMAIN Writes[row]
    /\ row \notin Rows => wpc \in {"write", "down"} /\ call = 1

\* tnotify's position and the one it has saved are in an existing file, or at
\* the start of the first one.
InFile(p) == p = <<1, 0>> \/ (p[1] \in DOMAIN files /\ p[2] <= Len(files[p[1]].lines))

ReaderInv ==
    /\ InFile(<<rIndex, rOffset>>) /\ InFile(status)
    /\ rpc \notin {"line", "deliver"} => lines = 0
    /\ rpc = "line" => lines > 0
    /\ rpc = "deliver" => rOffset > 0
    /\ rpc \in {"line", "deliver", "nothing"} => rIndex \in DOMAIN files
    /\ rpc \in {"line", "deliver"} => rOffset + lines <= Len(files[rIndex].lines)
    /\ rpc \in {"read", "nothing"} /\ isNew => rIndex + 1 \in DOMAIN files
    /\ rpc = "nothing" /\ isNew => rOffset = Len(files[rIndex].lines)

TypeInv == TypeOK /\ WriterInv /\ ReaderInv

\* TypeOK in three parts.
WriterType ==
    /\ wpc \in {"write", "rest", "save", "down"}
    /\ row \in Rows \cup {Len(Writes) + 1} /\ call \in Nat \ {0} /\ part \in Nat
    /\ saved \in {0} \cup Rows
    /\ files \in Seq(File)
    /\ wIndex \in 0..(Len(files) + 1) /\ wOpen \in BOOLEAN
    /\ torn \in BOOLEAN /\ crashes \in 0..MaxCrash

ReaderType ==
    /\ rpc \in {"down", "check", "read", "nothing", "line", "deliver"}
    /\ rIndex \in 1..(Len(files) + 1) /\ rOffset \in Nat
    /\ rIndex \in DOMAIN files => rOffset + lines <= Len(files[rIndex].lines)
    /\ isNew \in BOOLEAN /\ lines \in 0..ReadMax
    /\ todo \subseteq App /\ hit \in BOOLEAN
    /\ status \in Place
    /\ inbox \in [App -> Seq(Place)]
    /\ downs \in 0..MaxDown /\ repeats \in 0..MaxRepeat

SubType ==
    /\ subs \subseteq App \X Address /\ appSubcribe \subseteq App \X Address
    /\ appIds \subseteq App
    /\ requests \in 0..MaxRequest

\* Files only grow, and only the newest one does.
FilesGrow ==
    /\ Len(files) <= Len(files')
    /\ \A i \in 1..(Len(files) - 1) : files'[i] = files[i]
    /\ \A i \in DOMAIN files :
          /\ Len(files[i].lines) <= Len(files'[i].lines)
          /\ \A k \in DOMAIN files[i].lines : files'[i].lines[k] = files[i].lines[k]

\* What file i held, if it is there.
OldLines(i) == IF i \in DOMAIN files THEN files[i].lines ELSE <<>>

\* The step puts new lines at the end of file i, the newest one or the one after.
Puts(i, new) ==
    /\ i \in Nat \ {0} /\ i \in {Len(files), Len(files) + 1}
    /\ new \in Seq(Event \cup {Garbled})
    /\ files' \in Seq(File) /\ Len(files') = i
    /\ \A j \in DOMAIN files' : j # i => j \in DOMAIN files /\ files'[j] = files[j]
    /\ files'[i].lines = OldLines(i) \o new

\* An event is a triple of numbers.
LEMMA EventType ==
    ASSUME NEW e \in Event
    PROVE  /\ e \in Nat \X Nat \X Nat /\ e[1] \in Rows
           /\ e[2] \in DOMAIN Writes[e[1]] /\ e[3] \in DOMAIN Writes[e[1]][e[2]]
           /\ e[1] >= 1 /\ e[2] >= 1 /\ e[3] >= 1
<1>1. PICK r \in Rows : \E c \in DOMAIN Writes[r] : \E k \in DOMAIN Writes[r][c] :
                             e = <<r, c, k>>
  BY DEF Event
<1>a. PICK c \in DOMAIN Writes[r] : \E k \in DOMAIN Writes[r][c] : e = <<r, c, k>>
  BY <1>1
<1>b. PICK k \in DOMAIN Writes[r][c] : e = <<r, c, k>>
  BY <1>a
<1>2. Writes \in Seq(Seq(Seq(Address \cup {Block})))
  BY NotifyAssumption
<1>3. r \in 1..Len(Writes) /\ Writes[r] \in Seq(Seq(Address \cup {Block}))
  BY <1>2 DEF Rows
<1>4. c \in 1..Len(Writes[r]) /\ Writes[r][c] \in Seq(Address \cup {Block})
  BY <1>3
<1>5. k \in 1..Len(Writes[r][c])
  BY <1>4
<1> QED BY <1>b, <1>3, <1>4, <1>5

\* The lines of the call under way are events.
LEMMA LinesType ==
    ASSUME row \in Rows, call \in DOMAIN Writes[row]
    PROVE  /\ Lines \in Seq(Event) /\ Len(Lines) = Len(Writes[row][call])
           /\ Len(Lines) \in Nat
           /\ \A k \in 1..Len(Lines) : Lines[k] = <<row, call, k>>
<1>1. Writes \in Seq(Seq(Seq(Address \cup {Block})))
  BY NotifyAssumption
<1>2. Writes[row] \in Seq(Seq(Address \cup {Block}))
  BY <1>1 DEF Rows
<1>3. Writes[row][call] \in Seq(Address \cup {Block})
  BY <1>2
<1>4. DOMAIN Writes[row][call] = 1..Len(Writes[row][call]) /\ Len(Writes[row][call]) \in Nat
  BY <1>3
<1>5. \A k \in DOMAIN Writes[row][call] : <<row, call, k>> \in Event
  BY DEF Event
<1>6. Lines \in [1..Len(Writes[row][call]) -> Event]
  BY <1>4, <1>5 DEF Lines
<1> QED BY <1>4, <1>6 DEF Lines

\* The files and their lines are sequences.
LEMMA FilesType ==
    ASSUME NEW fs \in Seq(File)
    PROVE  /\ Len(fs) \in Nat /\ DOMAIN fs = 1..Len(fs)
           /\ \A i \in 1..Len(fs) :
                 /\ fs[i] \in File /\ fs[i].cut \in BOOLEAN
                 /\ fs[i].lines \in Seq(Event \cup {Garbled})
                 /\ Len(fs[i].lines) \in Nat
                 /\ DOMAIN fs[i].lines = 1..Len(fs[i].lines)
<1>1. \A f \in File : f.lines \in Seq(Event \cup {Garbled}) /\ f.cut \in BOOLEAN
  BY DEF File
<1>2. Len(fs) \in Nat /\ DOMAIN fs = 1..Len(fs) /\ \A i \in 1..Len(fs) : fs[i] \in File
  OBVIOUS
<1> QED BY <1>1, <1>2

\* Concatenation.
LEMMA Concat ==
    ASSUME NEW S, NEW s \in Seq(S), NEW t \in Seq(S)
    PROVE  /\ Len(s) \in Nat /\ Len(t) \in Nat /\ Len(s \o t) = Len(s) + Len(t)
           /\ s \o t \in Seq(S)
           /\ \A k \in DOMAIN s : k \in 1..Len(s) /\ (s \o t)[k] = s[k]
           /\ \A k \in 1..Len(t) : (s \o t)[Len(s) + k] = t[k]
           /\ \A k \in DOMAIN (s \o t) : k > Len(s) =>
                 k - Len(s) \in 1..Len(t) /\ (s \o t)[k] = t[k - Len(s)]
OBVIOUS

\* The file to append to, empty if it is not there yet.
LEMMA OpenedType ==
    ASSUME files \in Seq(File), NEW i \in Nat \ {0}, i \in {Len(files), Len(files) + 1}
    PROVE  /\ Opened(i) \in Seq(File) /\ Len(Opened(i)) = i
           /\ \A j \in 1..Len(files) : Opened(i)[j] = files[j]
           /\ Opened(i)[i].lines = OldLines(i) /\ OldLines(i) \in Seq(Event \cup {Garbled})
<1>1. Len(files) \in Nat
  BY FilesType
<1>d. DOMAIN files = 1..Len(files)
  BY FilesType
<1>2. \A j \in 1..Len(files) : files[j].lines \in Seq(Event \cup {Garbled})
  BY FilesType
<1>3. CASE i = Len(files)
  <2>1. Opened(i) = files
    BY <1>1, <1>3 DEF Opened
  <2>2. OldLines(i) = files[i].lines
    BY <1>1, <1>d, <1>3 DEF OldLines
  <2> QED BY <1>1, <1>2, <1>3, <2>1, <2>2
<1>4. CASE i = Len(files) + 1
  <2> DEFINE new == [lines |-> <<>>, cut |-> FALSE]
  <2>1. new \in File /\ new.lines = <<>>
    BY DEF File
  <2>2. Opened(i) = Append(files, new)
    BY <1>1, <1>4 DEF Opened
  <2> HIDE DEF new
  <2>3. Opened(i) \in Seq(File) /\ Len(Opened(i)) = i /\ Opened(i)[i] = new
    BY <1>1, <1>4, <2>1, <2>2
  <2>4. \A j \in 1..Len(files) : Opened(i)[j] = files[j]
    BY <1>1, <2>1, <2>2
  <2>5. OldLines(i) = <<>>
    BY <1>1, <1>d, <1>4 DEF OldLines
  <2> QED BY <2>1, <2>3, <2>4, <2>5
<1> QED BY <1>3, <1>4

\* What a write leaves of the files.
LEMMA PutLemma ==
    ASSUME files \in Seq(File),
           NEW i \in Nat \ {0}, i \in {Len(files), Len(files) + 1},
           NEW new \in Seq(Event \cup {Garbled}),
           NEW f \in File, f.lines = OldLines(i) \o new,
           files' = [Opened(i) EXCEPT ![i] = f]
    PROVE  Puts(i, new) /\ files'[i] = f /\ FilesGrow
<1>1. Len(files) \in Nat
  BY FilesType
<1>d. DOMAIN files = 1..Len(files)
  BY FilesType
<1>2. \A j \in 1..Len(files) : files[j].lines \in Seq(Event \cup {Garbled})
  BY FilesType
<1>3. /\ Opened(i) \in Seq(File) /\ Len(Opened(i)) = i
      /\ \A j \in 1..Len(files) : Opened(i)[j] = files[j]
  BY OpenedType
<1>8. files' \in Seq(File) /\ Len(files') = i /\ files'[i] = f
  BY <1>3
<1>9. \A j \in 1..i : j # i => j \in 1..Len(files) /\ files'[j] = files[j]
  BY <1>1, <1>3
<1>10. Puts(i, new)
  <2>1. DOMAIN files' = 1..i
    BY <1>8
  <2>2. files'[i].lines = OldLines(i) \o new
    BY <1>8
  <2> QED BY <1>1, <1>d, <1>8, <1>9, <2>1, <2>2 DEF Puts
<1>11. ASSUME NEW j \in 1..Len(files)
       PROVE  /\ Len(files[j].lines) <= Len(files'[j].lines)
              /\ \A k \in DOMAIN files[j].lines : files'[j].lines[k] = files[j].lines[k]
  <2>1. files[j].lines \in Seq(Event \cup {Garbled})
    BY <1>2
  <2>2. CASE j # i
    <3>1. files'[j] = files[j]
      BY <1>1, <1>9, <2>2
    <3> QED BY <2>1, <3>1
  <2>3. CASE j = i
    <3>1. files'[j].lines = files[j].lines \o new
      BY <1>1, <1>d, <1>8, <2>3 DEF OldLines
    <3> QED BY <2>1, <3>1, Concat
  <2> QED BY <2>2, <2>3
<1>12. FilesGrow
  <2>1. Len(files) <= Len(files') /\ \A j \in 1..(Len(files) - 1) : files'[j] = files[j]
    BY <1>1, <1>8, <1>9
  <2> QED BY <1>1, <1>d, <1>11, <2>1 DEF FilesGrow
<1> QED BY <1>8, <1>10, <1>12

\* The parts together.
LEMMA TypeParts == TypeOK <=> WriterType /\ ReaderType /\ SubType
BY DEF TypeOK, WriterType, ReaderType, SubType

\* The parts make up TypeOK after a step.
LEMMA TypePartsNext == WriterType' /\ ReaderType' /\ SubType' => TypeOK'
BY DEF TypeOK, WriterType, ReaderType, SubType

\* A write of NotifyProducer appends to the newest file or begins the next one.
LEMMA WriteSomePuts ==
    ASSUME TypeInv, WriteSome
    PROVE  \E i \in Nat \ {0}, n \in 0..Len(Lines) :
              /\ Puts(i, SubSeq(Lines, 1, n)) /\ FilesGrow
              /\ files'[i].cut => n < Len(Lines)
              /\ wIndex' = i /\ part' = n
<1> DEFINE i == IF wIndex = 0 THEN 1 ELSE wIndex
<1>1. files \in Seq(File) /\ wIndex \in 0..(Len(files) + 1)
  BY DEF TypeInv, TypeOK
<1>2. Len(files) \in Nat
  BY <1>1, FilesType
<1>3. i \in Nat \ {0} /\ i \in {Len(files), Len(files) + 1}
  <2>1. CASE wIndex = 0
    <3>1. files = <<>>
      BY <2>1 DEF TypeInv, WriterInv, WriteSome
    <3> QED BY <2>1, <3>1
  <2>2. CASE wIndex # 0
    BY <1>1, <1>2, <2>2 DEF TypeInv, WriterInv
  <2> QED BY <2>1, <2>2
<1>4. row \in Rows /\ call \in DOMAIN Writes[row]
  BY DEF WriteSome, TypeInv, WriterInv
<1>5. Lines \in Seq(Event) /\ Len(Lines) \in Nat
  BY <1>4, LinesType
<1>6. PICK n \in 0..Len(Lines), c \in BOOLEAN :
         /\ c => n < Len(Lines)
         /\ files' = [Opened(i) EXCEPT ![i] = [lines |-> Opened(i)[i].lines \o SubSeq(Lines, 1, n),
                                               cut |-> c]]
         /\ part' = n
  BY DEF WriteSome
<1>7. wIndex' = i
  BY DEF WriteSome
<1> HIDE DEF i
<1>8. SubSeq(Lines, 1, n) \in Seq(Event \cup {Garbled})
  <2>1. Lines \in Seq(Event \cup {Garbled})
    BY <1>5
  <2> QED BY <1>5, <2>1
<1> DEFINE new == SubSeq(Lines, 1, n)
           f == [lines |-> Opened(i)[i].lines \o new, cut |-> c]
<1>9. Opened(i)[i].lines = OldLines(i) /\ OldLines(i) \in Seq(Event \cup {Garbled})
  BY <1>1, <1>3, OpenedType
<1>10. OldLines(i) \o new \in Seq(Event \cup {Garbled})
  BY <1>8, <1>9, Concat
<1>11. f \in File /\ f.lines = OldLines(i) \o new /\ (f.cut => c)
  BY <1>9, <1>10 DEF File
<1>12. files' = [Opened(i) EXCEPT ![i] = f]
  BY <1>6
<1> HIDE DEF f, new
<1>13. Puts(i, new) /\ files'[i] = f /\ FilesGrow
  BY <1>1, <1>3, <1>8, <1>11, <1>12, PutLemma DEF new
<1> QED BY <1>3, <1>6, <1>7, <1>11, <1>13 DEF new

\* The rest of a write.
LEMMA WriteToPuts ==
    ASSUME files \in Seq(File), wIndex \in Nat \ {0}, wIndex = Len(files),
           NEW new \in Seq(Event \cup {Garbled}), WriteTo(wIndex, files, new)
    PROVE  /\ Puts(wIndex, new) /\ FilesGrow
           /\ files'[wIndex].cut => files[wIndex].cut /\ new = <<>>
           /\ wIndex' \in {wIndex, wIndex + 1} /\ wOpen' \in BOOLEAN /\ part' = 0
           /\ \/ call < Len(Writes[row]) /\ call' = call + 1 /\ wpc' = "write"
              \/ ~(call < Len(Writes[row])) /\ call' = call /\ wpc' = "save"
           /\ UNCHANGED <<row, saved, torn, crashes, readerVars, subVars>>
<1>1. Len(files) \in Nat
  BY FilesType
<1>2. Opened(wIndex) = files
  BY <1>1 DEF Opened
<1> DEFINE f == [lines |-> files[wIndex].lines \o new, cut |-> files[wIndex].cut /\ new = <<>>]
<1>3. /\ files' = [files EXCEPT ![wIndex] = f]
      /\ wOpen' = ~Full(f)
      /\ wIndex' = IF Full(f) THEN wIndex + 1 ELSE wIndex
      /\ part' = 0
      /\ IF call < Len(Writes[row]) THEN call' = call + 1 /\ wpc' = "write"
         ELSE call' = call /\ wpc' = "save"
      /\ UNCHANGED <<row, saved, torn, crashes, readerVars, subVars>>
  BY DEF WriteTo
<1>4. files[wIndex].lines = OldLines(wIndex) /\ OldLines(wIndex) \in Seq(Event \cup {Garbled})
  BY <1>2, OpenedType
<1>5. OldLines(wIndex) \o new \in Seq(Event \cup {Garbled})
  BY <1>4, Concat
<1>a. (files[wIndex].cut /\ new = <<>>) \in BOOLEAN
  OBVIOUS
<1>6. f \in File /\ f.lines = OldLines(wIndex) \o new /\ (f.cut => files[wIndex].cut /\ new = <<>>)
  BY <1>4, <1>5, <1>a DEF File
<1> HIDE DEF f
<1>7. Puts(wIndex, new) /\ files'[wIndex] = f /\ FilesGrow
  BY <1>2, <1>3, <1>6, PutLemma
<1>8. wOpen' \in BOOLEAN /\ wIndex' \in {wIndex, wIndex + 1}
  BY <1>3 DEF Full
<1> QED BY <1>3, <1>6, <1>7, <1>8

\* tnotify does not notice that files grow.
LEMMA ReaderKept ==
    ASSUME TypeInv, files' \in Seq(File), FilesGrow, UNCHANGED readerVars
    PROVE  ReaderType' /\ ReaderInv'
<1>1. files \in Seq(File)
  BY DEF TypeInv, TypeOK
<1>2. /\ Len(files) \in Nat /\ DOMAIN files = 1..Len(files)
      /\ \A i \in 1..Len(files) : Len(files[i].lines) \in Nat
  BY <1>1, FilesType
<1>3. /\ Len(files') \in Nat /\ DOMAIN files' = 1..Len(files')
      /\ \A i \in 1..Len(files') : Len(files'[i].lines) \in Nat
  BY FilesType
<1>4. UNCHANGED <<rpc, rIndex, rOffset, isNew, lines, todo, hit, status, inbox, downs, repeats>>
  BY DEF readerVars
<1>5. /\ Len(files) <= Len(files')
      /\ \A i \in 1..(Len(files) - 1) : files'[i] = files[i]
      /\ \A i \in 1..Len(files) : Len(files[i].lines) <= Len(files'[i].lines)
  BY <1>2 DEF FilesGrow
<1>6. ReaderType
  BY TypeParts DEF TypeInv
<1>a. rIndex \in Nat /\ rOffset \in Nat /\ lines \in Nat /\ status[1] \in Nat /\ status[2] \in Nat
  BY <1>2, <1>6, NotifyAssumption DEF ReaderType, Place
<1>7. ASSUME NEW q, q[1] \in Nat, q[2] \in Nat, InFile(q) PROVE InFile(q)'
  <2>1. CASE q = <<1, 0>>
    BY <2>1 DEF InFile
  <2>2. CASE q[1] \in DOMAIN files /\ q[2] <= Len(files[q[1]].lines)
    BY <1>2, <1>3, <1>5, <1>7, <2>2 DEF InFile
  <2> QED BY <1>7, <2>1, <2>2 DEF InFile
<1>8. InFile(<<rIndex, rOffset>>)' /\ InFile(status)'
  <2>1. InFile(<<rIndex, rOffset>>) /\ InFile(status)
    BY DEF TypeInv, ReaderInv
  <2>2. <<rIndex, rOffset>>[1] \in Nat /\ <<rIndex, rOffset>>[2] \in Nat
    BY <1>a
  <2>3. InFile(<<rIndex, rOffset>>)' /\ InFile(status)'
    BY <1>4, <1>a, <1>7, <2>1, <2>2 DEF InFile
  <2> QED BY <2>3
<1>9. ReaderInv'
  <2>1. (rpc \notin {"line", "deliver"} => lines = 0)' /\ (rpc = "line" => lines > 0)'
    BY <1>4 DEF TypeInv, ReaderInv
  <2>2. (rpc \in {"line", "deliver", "nothing"} => rIndex \in DOMAIN files)'
    BY <1>2, <1>3, <1>4, <1>5, <1>a DEF TypeInv, ReaderInv
  <2>3. (rpc \in {"line", "deliver"} => rOffset + lines <= Len(files[rIndex].lines))'
    BY <1>2, <1>3, <1>4, <1>5, <1>a DEF TypeInv, ReaderInv
  <2>4. (rpc \in {"read", "nothing"} /\ isNew => rIndex + 1 \in DOMAIN files)'
    BY <1>2, <1>3, <1>4, <1>5, <1>a DEF TypeInv, ReaderInv
  <2>5. (rpc = "nothing" /\ isNew => rOffset = Len(files[rIndex].lines))'
    BY <1>2, <1>3, <1>4, <1>5, <1>a DEF TypeInv, ReaderInv
  <2>6. (rpc = "deliver" => rOffset > 0)'
    BY <1>4 DEF TypeInv, ReaderInv
  <2> QED BY <1>8, <2>1, <2>2, <2>3, <2>4, <2>5, <2>6 DEF ReaderInv
<1>10. ReaderType'
  <2>1. (rIndex \in 1..(Len(files) + 1))'
    BY <1>2, <1>3, <1>4, <1>5, <1>6 DEF ReaderType
  <2>2. (rIndex \in DOMAIN files => rOffset + lines <= Len(files[rIndex].lines))'
    <3>1. CASE rIndex \in DOMAIN files
      BY <1>2, <1>3, <1>4, <1>5, <1>6, <1>a, <3>1 DEF ReaderType
    <3>2. CASE rIndex \notin DOMAIN files
      <4>1. rOffset = 0 /\ lines = 0
        BY <3>2 DEF TypeInv, ReaderInv, InFile
      <4> QED BY <1>3, <1>4, <4>1
    <3> QED BY <3>1, <3>2
  <2>3. (isNew \in BOOLEAN)' /\ (hit \in BOOLEAN)'
    BY <1>4, <1>6 DEF ReaderType
  <2> QED BY <1>4, <1>6, <2>1, <2>2, <2>3 DEF ReaderType
<1> QED BY <1>9, <1>10

\* Steps of tparser leave the subscriptions alone.
LEMMA SubKept ==
    ASSUME TypeInv, UNCHANGED subVars
    PROVE  SubType'
BY TypeParts DEF TypeInv, SubType, subVars

\* The files' state that is left when tparser stands still.
LEMMA WriterKept ==
    ASSUME TypeInv, UNCHANGED writerVars
    PROVE  WriterType' /\ WriterInv' /\ files' = files
<1>1. WriterType /\ WriterInv
  BY TypeParts DEF TypeInv
<1>2. WriterType'
  BY <1>1 DEF WriterType, writerVars
<1>3. WriterInv'
  BY <1>1 DEF WriterInv, writerVars
<1> QED BY <1>2, <1>3 DEF writerVars

\* The calls of a row.
LEMMA CallsType ==
    ASSUME NEW r \in Rows
    PROVE  /\ r \in Nat /\ r >= 1 /\ r <= Len(Writes) /\ Len(Writes) \in Nat
           /\ Rows = 1..Len(Writes)
           /\ DOMAIN Writes[r] = 1..Len(Writes[r]) /\ Len(Writes[r]) \in Nat /\ 1 <= Len(Writes[r])
<1>1. Writes \in Seq(Seq(Seq(Address \cup {Block}))) /\ Writes[r] # <<>>
  BY NotifyAssumption DEF Rows
<1>2. Rows = 1..Len(Writes) /\ Len(Writes) \in Nat
  BY <1>1 DEF Rows
<1>3. Writes[r] \in Seq(Seq(Address \cup {Block}))
  BY <1>1, <1>2
<1> QED BY <1>1, <1>2, <1>3

\* A part of a call of write().
LEMMA WriteSomeType ==
    ASSUME TypeInv, WriteSome
    PROVE  WriterType' /\ WriterInv' /\ FilesGrow
<1>1. PICK i \in Nat \ {0}, n \in 0..Len(Lines) :
              /\ Puts(i, SubSeq(Lines, 1, n)) /\ FilesGrow
              /\ files'[i].cut => n < Len(Lines)
              /\ wIndex' = i /\ part' = n
  BY WriteSomePuts
<1>2. /\ wpc' = "rest" /\ wOpen' = TRUE
      /\ UNCHANGED <<row, call, saved, torn, crashes>> /\ row \in Rows
  BY DEF WriteSome
<1>3. files' \in Seq(File) /\ Len(files') = i
  BY <1>1 DEF Puts
<1>4. call \in DOMAIN Writes[row]
  BY <1>2 DEF TypeInv, WriterInv
<1>5. n \in Nat /\ n <= Len(Writes[row][call]) /\ (files'[i].cut => n < Len(Writes[row][call]))
  BY <1>1, <1>2, <1>4, LinesType
<1>6. WriterType'
  <2>1. (wOpen \in BOOLEAN)' /\ (torn \in BOOLEAN)'
    BY <1>2 DEF TypeInv, TypeOK
  <2>2. (wIndex \in 0..(Len(files) + 1))' /\ (part \in Nat)'
    BY <1>1, <1>3, <1>5
  <2>3. (wpc \in {"write", "rest", "save", "down"})' /\ (saved \in {0} \cup Rows)'
    BY <1>2 DEF TypeInv, TypeOK
  <2>4. (row \in Rows \cup {Len(Writes) + 1})' /\ (call \in Nat \ {0})' /\ (crashes \in 0..MaxCrash)'
    BY <1>2 DEF TypeInv, TypeOK
  <2> QED BY <1>3, <2>1, <2>2, <2>3, <2>4 DEF WriterType
<1>8. /\ wIndex' # 0 /\ wIndex' = Len(files') /\ part' <= Len(Writes[row'][call'])
      /\ files'[wIndex'].cut => part' < Len(Writes[row'][call'])
  BY <1>1, <1>2, <1>3, <1>5
<1>9. WriterInv'
  BY <1>2, <1>4, <1>8 DEF WriterInv
<1> QED BY <1>1, <1>6, <1>9

\* The rest of a write keeps the types.
LEMMA WriteToType ==
    ASSUME TypeInv, row \in Rows, wIndex \in Nat \ {0}, wIndex = Len(files),
           NEW new \in Seq(Event \cup {Garbled}), WriteTo(wIndex, files, new)
    PROVE  WriterType' /\ WriterInv' /\ FilesGrow
<1>1. /\ Puts(wIndex, new) /\ FilesGrow
      /\ wIndex' \in {wIndex, wIndex + 1} /\ wOpen' \in BOOLEAN /\ part' = 0
      /\ \/ call < Len(Writes[row]) /\ call' = call + 1 /\ wpc' = "write"
         \/ ~(call < Len(Writes[row])) /\ call' = call /\ wpc' = "save"
      /\ UNCHANGED <<row, saved, torn, crashes>>
  <2>1. files \in Seq(File)
    BY DEF TypeInv, TypeOK
  <2> QED BY <2>1, WriteToPuts
<1>2. files' \in Seq(File) /\ Len(files') = wIndex /\ DOMAIN files' = 1..wIndex
  BY <1>1, FilesType DEF Puts
<1>3. call \in DOMAIN Writes[row] /\ DOMAIN Writes[row] = 1..Len(Writes[row]) /\ Len(Writes[row]) \in Nat
  BY CallsType DEF TypeInv, WriterInv
<1>4. call' \in Nat \ {0} /\ call' \in DOMAIN Writes[row'] /\ row' \in Rows /\ wpc' \in {"write", "save"}
  BY <1>1, <1>3
<1>7. WriterType'
  <2>1. (wOpen \in BOOLEAN)' /\ (torn \in BOOLEAN)'
    BY <1>1 DEF TypeInv, TypeOK
  <2>2. (wIndex \in 0..(Len(files) + 1))' /\ (part \in Nat)'
    BY <1>1, <1>2
  <2>3. (saved \in {0} \cup Rows)' /\ (crashes \in 0..MaxCrash)'
    BY <1>1 DEF TypeInv, TypeOK
  <2> QED BY <1>2, <1>4, <2>1, <2>2, <2>3 DEF WriterType
<1>8. wIndex' # 0 /\ wIndex' \in {Len(files'), Len(files') + 1}
  BY <1>1, <1>2
<1>9. WriterInv'
  BY <1>1, <1>4, <1>8 DEF WriterInv
<1> QED BY <1>1, <1>7, <1>9

\* The rest of a call of write().
LEMMA WriteRestNew ==
    ASSUME TypeInv, WriteRest
    PROVE  /\ row \in Rows /\ call \in DOMAIN Writes[row]
           /\ wIndex \in Nat \ {0} /\ wIndex = Len(files)
           /\ SubSeq(Lines, part + 1, Len(Lines)) \in Seq(Event)
           /\ part \in Nat /\ part <= Len(Lines) /\ Len(Lines) \in Nat
           /\ files[wIndex].cut => part < Len(Lines)
<1>1. /\ row \in Rows /\ wIndex # 0 /\ wIndex = Len(files) /\ part <= Len(Writes[row][call])
      /\ files[wIndex].cut => part < Len(Writes[row][call])
  BY DEF TypeInv, WriterInv, WriteRest
<1>2. wIndex \in Nat \ {0} /\ part \in Nat
  <2>1. files \in Seq(File) /\ wIndex \in 0..(Len(files) + 1) /\ part \in Nat
    BY DEF TypeInv, TypeOK
  <2>2. Len(files) \in Nat
    BY <2>1, FilesType
  <2> QED BY <1>1, <2>1, <2>2
<1>3. call \in DOMAIN Writes[row]
  BY <1>1 DEF TypeInv, WriterInv
<1>4. Lines \in Seq(Event) /\ Len(Lines) \in Nat /\ Len(Lines) = Len(Writes[row][call])
  BY <1>1, <1>3, LinesType
<1>5. SubSeq(Lines, part + 1, Len(Lines)) \in Seq(Event)
  BY <1>2, <1>4
<1> QED BY <1>1, <1>2, <1>3, <1>4, <1>5

\* A call of write() after a piece of a line.
LEMMA WriteAfterCutNew ==
    ASSUME TypeInv, WriteAfterCut
    PROVE  /\ row \in Rows /\ call \in DOMAIN Writes[row]
           /\ wIndex \in Nat \ {0} /\ wIndex = Len(files)
           /\ AppendTo(files[wIndex], Lines) \in Seq(Event \cup {Garbled})
<1>1. row \in Rows /\ wIndex \in DOMAIN files /\ files[wIndex].cut
  BY DEF WriteAfterCut
<1>2. Len(files) \in Nat /\ DOMAIN files = 1..Len(files)
  BY FilesType DEF TypeInv, TypeOK
<1>3. wIndex \in Nat \ {0} /\ wIndex = Len(files)
  BY <1>1, <1>2 DEF TypeInv, WriterInv
<1>4. call \in DOMAIN Writes[row]
  BY <1>1 DEF TypeInv, WriterInv
<1>5. Lines \in Seq(Event \cup {Garbled})
  <2>1. Lines \in Seq(Event)
    BY <1>1, <1>4, LinesType
  <2> QED BY <2>1
<1>6. Lines # <<>> => Tail(Lines) \in Seq(Event \cup {Garbled})
  BY <1>5
<1>7. <<Garbled>> \in Seq(Event \cup {Garbled})
  OBVIOUS
<1>8. Lines # <<>> => <<Garbled>> \o Tail(Lines) \in Seq(Event \cup {Garbled})
  BY <1>6, <1>7, Concat
<1>9. AppendTo(files[wIndex], Lines) \in Seq(Event \cup {Garbled})
  BY <1>5, <1>8 DEF AppendTo
<1> QED BY <1>1, <1>3, <1>4, <1>9

\* The id of the row is saved.
LEMMA SaveIdType ==
    ASSUME TypeInv, SaveId
    PROVE  WriterType' /\ WriterInv' /\ files' = files
<1>1. /\ row \in Rows /\ wpc' = "write" /\ row' = row + 1 /\ call' = 1 /\ saved' = row
      /\ wpc = "save" /\ UNCHANGED <<part, wIndex, wOpen, files, torn, crashes>>
  BY DEF TypeInv, WriterInv, SaveId
<1>2. WriterType
  BY TypeParts DEF TypeInv
<1>3. /\ row \in Nat /\ row >= 1 /\ row <= Len(Writes) /\ Len(Writes) \in Nat
      /\ Rows = 1..Len(Writes)
  BY <1>1, CallsType
<1>4. row' \in Rows \cup {Len(Writes) + 1}
  BY <1>1, <1>3
<1>5. row' \in Rows => call' \in DOMAIN Writes[row']
  <2>1. ASSUME row' \in Rows PROVE 1 \in DOMAIN Writes[row']
    BY <2>1, CallsType
  <2> QED BY <1>1, <2>1
<1>6. WriterType'
  BY <1>1, <1>2, <1>4 DEF WriterType
<1>7. wIndex' # 0
  BY <1>1 DEF TypeInv, WriterInv
<1>8. WriterInv'
  BY <1>1, <1>5, <1>7 DEF TypeInv, WriterInv
<1> QED BY <1>1, <1>6, <1>8

\* A kill of tparser.
LEMMA KillParserType ==
    ASSUME TypeInv, KillParser
    PROVE  WriterType' /\ WriterInv' /\ files' = files
<1>0. (torn \/ (wpc = "rest" /\ files[wIndex].cut)) \in BOOLEAN
  OBVIOUS
<1>1. /\ wpc' = "down" /\ call' = 1 /\ part' = 0 /\ wIndex' = 0 /\ wOpen' = FALSE
      /\ crashes < MaxCrash /\ crashes' = crashes + 1 /\ torn' \in BOOLEAN
      /\ UNCHANGED <<row, saved, files>>
  BY <1>0 DEF KillParser
<1>2. WriterType
  BY TypeParts DEF TypeInv
<1>3. Len(files) \in Nat
  BY <1>2, FilesType DEF WriterType
<1>4. row' \in Rows => call' \in DOMAIN Writes[row']
  <2>1. ASSUME row' \in Rows PROVE 1 \in DOMAIN Writes[row']
    BY <2>1, CallsType
  <2> QED BY <1>1, <2>1
<1>5. WriterType'
  <2>1. (wOpen \in BOOLEAN)' /\ (torn \in BOOLEAN)'
    BY <1>1, <1>2 DEF WriterType
  <2>2. (crashes \in 0..MaxCrash)'
    BY <1>1, <1>2, NotifyAssumption DEF WriterType
  <2>3. (wIndex \in 0..(Len(files) + 1))'
    BY <1>1, <1>3
  <2> QED BY <1>1, <1>2, <2>1, <2>2, <2>3 DEF WriterType
<1>6. wIndex' # Len(files') + 1
  BY <1>1, <1>3
<1>7. WriterInv'
  BY <1>1, <1>4, <1>6 DEF TypeInv, WriterInv
<1> QED BY <1>1, <1>5, <1>7

\* A start of tparser.
LEMMA StartParserType ==
    ASSUME TypeInv, StartParser
    PROVE  WriterType' /\ WriterInv' /\ files' = files
<1>1. /\ wpc' = "write" /\ wIndex' = Len(files) /\ row' = saved + 1 /\ call = 1 /\ part = 0
      /\ UNCHANGED <<call, part, saved, wOpen, files, torn, crashes>>
  BY DEF StartParser, NewestFile, TypeInv, WriterInv
<1>2. WriterType
  BY TypeParts DEF TypeInv
<1>3. Len(files) \in Nat /\ files \in Seq(File)
  BY <1>2, FilesType DEF WriterType
<1>4. Rows = 1..Len(Writes) /\ Len(Writes) \in Nat
  <2>1. Writes \in Seq(Seq(Seq(Address \cup {Block})))
    BY NotifyAssumption
  <2> QED BY <2>1 DEF Rows
<1>5. row' \in Rows \cup {Len(Writes) + 1}
  BY <1>1, <1>2, <1>4 DEF WriterType
<1>6. row' \in Rows => call' \in DOMAIN Writes[row']
  <2>1. ASSUME row' \in Rows PROVE 1 \in DOMAIN Writes[row']
    BY <2>1, CallsType
  <2> QED BY <1>1, <2>1
<1>7. WriterType'
  <2>1. (wIndex \in 0..(Len(files) + 1))'
    BY <1>1, <1>3
  <2> QED BY <1>1, <1>2, <1>5, <2>1 DEF WriterType
<1>8. wIndex' # Len(files') + 1 /\ (wIndex' = 0 => files' = <<>>)
  BY <1>1, <1>3
<1>9. WriterInv'
  BY <1>1, <1>6, <1>8 DEF TypeInv, WriterInv
<1> QED BY <1>1, <1>7, <1>9

\* Facts about the reader's numbers that its steps need.
LEMMA ReaderNumbers ==
    ASSUME TypeInv
    PROVE  /\ ReaderType /\ ReaderInv
           /\ Len(files) \in Nat /\ DOMAIN files = 1..Len(files)
           /\ \A i \in 1..Len(files) : Len(files[i].lines) \in Nat
           /\ rIndex \in Nat /\ rIndex >= 1 /\ rIndex <= Len(files) + 1
           /\ rOffset \in Nat /\ lines \in Nat /\ lines <= ReadMax /\ ReadMax \in Nat
<1>1. ReaderType /\ ReaderInv /\ files \in Seq(File)
  BY TypeParts DEF TypeInv, WriterType
<1>2. /\ Len(files) \in Nat /\ DOMAIN files = 1..Len(files)
      /\ \A i \in 1..Len(files) : Len(files[i].lines) \in Nat
  BY <1>1, FilesType
<1> QED BY <1>1, <1>2, NotifyAssumption DEF ReaderType

\* tnotify looks for the next file.
LEMMA IsNewFileExistType ==
    ASSUME TypeInv, IsNewFileExist
    PROVE  ReaderType' /\ ReaderInv'
<1>1. /\ rpc = "check" /\ rpc' = "read" /\ isNew' = (rIndex + 1 \in DOMAIN files)
      /\ UNCHANGED <<rIndex, rOffset, lines, todo, hit, status, inbox, downs, repeats, files>>
  BY DEF IsNewFileExist, writerVars
<1>2. ReaderType /\ ReaderInv
  BY ReaderNumbers
<1>3. isNew' \in BOOLEAN /\ hit' \in BOOLEAN
  BY <1>1, <1>2 DEF ReaderType
<1>4. ReaderType'
  BY <1>1, <1>2, <1>3 DEF ReaderType
<1>5. ReaderInv'
  BY <1>1, <1>2 DEF ReaderInv, InFile
<1> QED BY <1>4, <1>5

\* tnotify reads lines.
LEMMA ReadLinesType ==
    ASSUME TypeInv, ReadLines
    PROVE  ReaderType' /\ ReaderInv'
<1>1. /\ rpc = "read" /\ rIndex \in DOMAIN files
      /\ lines' = IF Len(files[rIndex].lines) - rOffset < ReadMax
                  THEN Len(files[rIndex].lines) - rOffset ELSE ReadMax
      /\ rpc' = IF lines' = 0 THEN "nothing" ELSE "line"
      /\ UNCHANGED <<rIndex, rOffset, isNew, todo, hit, status, inbox, downs, repeats, files>>
  BY DEF ReadLines, writerVars
<1>2. ReaderType /\ ReaderInv
  BY ReaderNumbers
<1>3. /\ Len(files[rIndex].lines) \in Nat /\ rOffset \in Nat /\ ReadMax \in Nat \ {0}
      /\ rOffset <= Len(files[rIndex].lines) /\ lines \in Nat
  BY <1>1, ReaderNumbers, NotifyAssumption DEF ReaderType
<1>4. /\ lines' \in 0..ReadMax /\ rOffset + lines' <= Len(files[rIndex].lines)
      /\ lines' = 0 => rOffset = Len(files[rIndex].lines)
  BY <1>1, <1>3
<1>5. isNew' \in BOOLEAN /\ hit' \in BOOLEAN
  BY <1>1, <1>2 DEF ReaderType
<1>6. rpc' \in {"nothing", "line"} /\ (rpc' = "nothing" <=> lines' = 0)
  BY <1>1
<1>7. ReaderType'
  BY <1>1, <1>2, <1>4, <1>5, <1>6 DEF ReaderType
<1>8. InFile(<<rIndex, rOffset>>)' /\ InFile(status)'
  BY <1>1, <1>2 DEF ReaderInv, InFile
<1>9. rpc = "read" /\ isNew => rIndex + 1 \in DOMAIN files
  BY <1>2 DEF ReaderInv
<1>10. lines' > 0 \/ lines' = 0
  BY <1>4
<1>11. ReaderInv'
  BY <1>1, <1>4, <1>6, <1>8, <1>9, <1>10 DEF ReaderInv
<1> QED BY <1>7, <1>11

\* tnotify switches to the next file or waits.
LEMMA SwitchOrWaitType ==
    ASSUME TypeInv, SwitchOrWait
    PROVE  ReaderType' /\ ReaderInv'
<1>1. /\ rpc = "nothing" /\ rpc' = "check"
      /\ rIndex' = IF isNew THEN rIndex + 1 ELSE rIndex
      /\ rOffset' = IF isNew THEN 0 ELSE rOffset
      /\ UNCHANGED <<isNew, lines, todo, hit, status, inbox, downs, repeats, files>>
  BY DEF SwitchOrWait, NewSeen, NextFile, writerVars
<1>2. ReaderType /\ ReaderInv
  BY ReaderNumbers
<1>3. isNew' \in BOOLEAN /\ hit' \in BOOLEAN
  BY <1>1, <1>2 DEF ReaderType
<1>4. lines = 0 /\ rIndex \in DOMAIN files
  BY <1>1, <1>2 DEF ReaderInv
<1>5. CASE isNew
  <2>1. rIndex' = rIndex + 1 /\ rOffset' = 0 /\ rIndex' \in DOMAIN files
    BY <1>1, <1>2, <1>5 DEF ReaderInv
  <2>2. rIndex' \in 1..Len(files) /\ 0 <= Len(files[rIndex'].lines) /\ Len(files[rIndex'].lines) \in Nat
    BY <2>1, ReaderNumbers
  <2>3. (rIndex \in 1..(Len(files) + 1))' /\ rOffset' + lines' <= Len(files'[rIndex'].lines)
    BY <1>1, <1>4, <2>1, <2>2
  <2>4. ReaderType'
    BY <1>1, <1>2, <1>3, <2>1, <2>3 DEF ReaderType
  <2>5. InFile(<<rIndex, rOffset>>)'
    BY <1>1, <2>1, <2>2 DEF InFile
  <2>6. ReaderInv'
    BY <1>1, <1>2, <1>4, <2>5 DEF ReaderInv, InFile
  <2> QED BY <2>4, <2>6
<1>6. CASE ~isNew
  <2>1. UNCHANGED <<rIndex, rOffset>>
    BY <1>1, <1>6
  <2>2. ReaderType'
    BY <1>1, <1>2, <1>3, <2>1 DEF ReaderType
  <2>3. ReaderInv'
    BY <1>1, <1>2, <1>4, <2>1 DEF ReaderInv, InFile
  <2> QED BY <2>2, <2>3
<1> QED BY <1>5, <1>6

\* A dead tnotify.
LEMMA GoneType ==
    ASSUME TypeInv, Gone, downs' \in 0..MaxDown
    PROVE  ReaderType' /\ ReaderInv' /\ SubType'
<1>1. /\ rpc' = "down" /\ rIndex' = 1 /\ rOffset' = 0 /\ isNew' = FALSE
      /\ lines' = 0 /\ todo' = {} /\ hit' = FALSE /\ subs' = {} /\ appIds' = {}
      /\ UNCHANGED <<status, inbox, repeats, appSubcribe, requests, files>>
  BY DEF Gone, writerVars
<1>2. ReaderType /\ ReaderInv /\ SubType
  BY ReaderNumbers, TypeParts DEF TypeInv
<1>3. isNew' \in BOOLEAN /\ hit' \in BOOLEAN
  BY <1>1
<1>4. /\ (rIndex \in 1..(Len(files) + 1))' /\ (lines \in 0..ReadMax)'
      /\ (rIndex \in DOMAIN files => rOffset + lines <= Len(files[rIndex].lines))'
  BY <1>1, ReaderNumbers
<1>5. ReaderType'
  BY <1>1, <1>2, <1>3, <1>4 DEF ReaderType
<1>6. ReaderInv'
  BY <1>1, <1>2 DEF ReaderInv, InFile
<1>7. SubType'
  BY <1>1, <1>2 DEF SubType
<1> QED BY <1>5, <1>6, <1>7

\* The line that tnotify is at is in the file.
LEMMA LineThere ==
    ASSUME TypeInv, rpc = "line"
    PROVE  /\ rIndex \in DOMAIN files /\ rOffset + 1 \in DOMAIN files[rIndex].lines
           /\ files[rIndex].lines[rOffset + 1] \in Event \cup {Garbled}
           /\ lines > 0 /\ rOffset + lines <= Len(files[rIndex].lines)
<1>1. /\ rIndex \in DOMAIN files /\ lines > 0 /\ rOffset + lines <= Len(files[rIndex].lines)
  BY ReaderNumbers DEF ReaderInv
<1>2. files \in Seq(File)
  BY DEF TypeInv, TypeOK
<1>3. rIndex \in 1..Len(files) /\ rOffset \in Nat /\ lines \in Nat
  BY <1>1, ReaderNumbers
<1>4. /\ files[rIndex].lines \in Seq(Event \cup {Garbled})
      /\ DOMAIN files[rIndex].lines = 1..Len(files[rIndex].lines)
      /\ Len(files[rIndex].lines) \in Nat
  BY <1>2, <1>3, FilesType
<1>5. rOffset + 1 \in DOMAIN files[rIndex].lines
  BY <1>1, <1>3, <1>4
<1> QED BY <1>1, <1>4, <1>5

\* The step that takes a line.
LEMMA TakeType ==
    ASSUME TypeInv, rpc = "line", todo' \subseteq App, hit' \in BOOLEAN,
           rOffset' = rOffset + 1, lines' = lines - 1, rpc' = "deliver",
           UNCHANGED <<rIndex, isNew, status, inbox, downs, repeats, files>>
    PROVE  ReaderType' /\ ReaderInv'
<1>1. ReaderType /\ ReaderInv
  BY ReaderNumbers
<1>2. /\ rIndex \in DOMAIN files /\ lines > 0 /\ rOffset + lines <= Len(files[rIndex].lines)
  BY LineThere
<1>3. rOffset \in Nat /\ lines \in Nat /\ lines <= ReadMax /\ ReadMax \in Nat
  BY ReaderNumbers
<1>4. Len(files[rIndex].lines) \in Nat
  BY <1>2, ReaderNumbers
<1>5. /\ lines' \in 0..ReadMax /\ rOffset' \in Nat
      /\ rOffset' + lines' <= Len(files[rIndex].lines) /\ rOffset' <= Len(files[rIndex].lines)
  BY <1>2, <1>3, <1>4
<1>6. isNew' \in BOOLEAN
  BY <1>1 DEF ReaderType
<1>7. ReaderType'
  BY <1>1, <1>5, <1>6 DEF ReaderType
<1>8. InFile(<<rIndex, rOffset>>)' /\ InFile(status)'
  BY <1>1, <1>2, <1>5 DEF ReaderInv, InFile
<1>9. ReaderInv'
  <2>1. rOffset' > 0
    BY <1>3
  <2> QED BY <1>2, <1>5, <1>8, <2>1 DEF ReaderInv
<1> QED BY <1>7, <1>9

\* Events go to applications.
LEMMA ReceiversType ==
    ASSUME TypeInv, NEW e
    PROVE  Receivers(e) \subseteq App
BY DEF TypeInv, TypeOK, Receivers

\* An INSERT, run w times: w places more in one table.
Adds(b, w) ==
    /\ b \in todo /\ todo' = todo \ {b}
    /\ inbox' \in [App -> Seq(Place)]
    /\ \A a \in App : a # b => inbox'[a] = inbox[a]
    /\ Len(inbox'[b]) = Len(inbox[b]) + w
    /\ \A n \in 1..Len(inbox[b]) : inbox'[b][n] = inbox[b][n]
    /\ \A n \in 1..w : inbox'[b][Len(inbox[b]) + n] = <<rIndex, rOffset>>

\* A table that w places were added to.
LEMMA AddsOf ==
    ASSUME TypeInv, NEW b \in todo, todo' = todo \ {b}, NEW w \in {1, 2}, NEW t,
           inbox' = [inbox EXCEPT ![b] = t],
           t \in Seq(Place), Len(t) = Len(inbox[b]) + w,
           \A n \in 1..Len(inbox[b]) : t[n] = inbox[b][n],
           \A n \in 1..w : t[Len(inbox[b]) + n] = <<rIndex, rOffset>>
    PROVE  Adds(b, w)
<1>1. b \in App /\ inbox \in [App -> Seq(Place)]
  BY DEF TypeInv, TypeOK
<1>2. inbox' \in [App -> Seq(Place)] /\ inbox'[b] = t /\ \A a \in App : a # b => inbox'[a] = inbox[a]
  BY <1>1
<1> QED BY <1>2 DEF Adds

\* The two ways in which an event is recorded.
LEMMA DeliverAdds ==
    ASSUME TypeInv, Deliver \/ DeliverTwice
    PROVE  /\ rpc = "deliver"
           /\ UNCHANGED <<rpc, rIndex, rOffset, isNew, lines, hit, status, downs, writerVars, subVars>>
           /\ \/ UNCHANGED repeats /\ \E b \in todo : Adds(b, 1)
              \/ /\ repeats' = repeats + 1 /\ repeats' \in 0..MaxRepeat
                 /\ \E b \in todo : Adds(b, 2)
<1> DEFINE p == <<rIndex, rOffset>>
<1>1. /\ p \in Place /\ repeats \in Nat /\ MaxRepeat \in Nat /\ todo \subseteq App
      /\ inbox \in [App -> Seq(Place)]
  BY ReaderNumbers, NotifyAssumption DEF ReaderType, Place
<1>2. CASE Deliver
  <2>1. PICK b \in todo : /\ inbox' = [inbox EXCEPT ![b] = Append(inbox[b], p)]
                          /\ todo' = todo \ {b}
    BY <1>2 DEF Deliver
  <2>2. inbox[b] \in Seq(Place)
    BY <1>1
  <2> HIDE DEF p
  <2>3. /\ Append(inbox[b], p) \in Seq(Place) /\ Len(Append(inbox[b], p)) = Len(inbox[b]) + 1
        /\ \A n \in 1..Len(inbox[b]) : Append(inbox[b], p)[n] = inbox[b][n]
        /\ \A n \in 1..1 : Append(inbox[b], p)[Len(inbox[b]) + n] = p
    BY <1>1, <2>2
  <2>4. Adds(b, 1)
    BY <2>1, <2>3, AddsOf DEF p
  <2> QED BY <1>2, <2>4 DEF Deliver
<1>3. CASE DeliverTwice
  <2>1. PICK b \in todo : /\ inbox' = [inbox EXCEPT ![b] = inbox[b] \o <<p, p>>]
                          /\ todo' = todo \ {b}
    BY <1>3 DEF DeliverTwice
  <2>2. inbox[b] \in Seq(Place)
    BY <1>1
  <2> HIDE DEF p
  <2>3. <<p, p>> \in Seq(Place) /\ Len(<<p, p>>) = 2 /\ \A n \in 1..2 : <<p, p>>[n] = p
    BY <1>1
  <2>4. /\ inbox[b] \o <<p, p>> \in Seq(Place) /\ Len(inbox[b] \o <<p, p>>) = Len(inbox[b]) + 2
        /\ \A n \in 1..Len(inbox[b]) : (inbox[b] \o <<p, p>>)[n] = inbox[b][n]
        /\ \A n \in 1..2 : (inbox[b] \o <<p, p>>)[Len(inbox[b]) + n] = p
    <3>1. inbox[b] \o <<p, p>> \in Seq(Place) /\ Len(inbox[b] \o <<p, p>>) = Len(inbox[b]) + 2
      BY <2>2, <2>3
    <3>2. \A n \in 1..Len(inbox[b]) : (inbox[b] \o <<p, p>>)[n] = inbox[b][n]
      BY <2>2, <2>3
    <3>3. \A n \in 1..2 : (inbox[b] \o <<p, p>>)[Len(inbox[b]) + n] = <<p, p>>[n]
      BY <2>2, <2>3
    <3> QED BY <2>3, <3>1, <3>2, <3>3
  <2>5. Adds(b, 2)
    BY <2>1, <2>4, AddsOf DEF p
  <2>6. repeats' = repeats + 1 /\ repeats' \in 0..MaxRepeat
    BY <1>1, <1>3 DEF DeliverTwice
  <2> QED BY <1>3, <2>5, <2>6 DEF DeliverTwice
<1> QED BY <1>2, <1>3

\* An INSERT into an event table, run once or twice.
LEMMA DeliverType ==
    ASSUME TypeInv, Deliver \/ DeliverTwice
    PROVE  ReaderType' /\ ReaderInv'
<1>1. /\ UNCHANGED <<rpc, rIndex, rOffset, isNew, lines, hit, status, downs, files>>
      /\ repeats' = repeats \/ repeats' \in 0..MaxRepeat
      /\ \E b \in todo, w \in {1, 2} : Adds(b, w)
  BY DeliverAdds DEF writerVars
<1>2. inbox' \in [App -> Seq(Place)] /\ todo' \subseteq todo
  BY <1>1 DEF Adds
<1>3. ReaderType /\ ReaderInv
  BY ReaderNumbers
<1>7. isNew' \in BOOLEAN /\ hit' \in BOOLEAN
  BY <1>1, <1>3 DEF ReaderType
<1>8. ReaderType'
  BY <1>1, <1>2, <1>3, <1>7 DEF ReaderType
<1>9. ReaderInv'
  BY <1>1, <1>3 DEF ReaderInv, InFile
<1> QED BY <1>8, <1>9

\* The position is saved.
LEMMA UpdateStatusType ==
    ASSUME TypeInv, UpdateStatus
    PROVE  ReaderType' /\ ReaderInv'
<1>1. /\ rpc = "deliver" /\ todo = {} /\ rpc' = IF lines = 0 THEN "check" ELSE "line"
      /\ UNCHANGED <<rIndex, rOffset, isNew, lines, todo, hit, inbox, downs, repeats, files>>
  BY DEF UpdateStatus, writerVars
<1>2. status' = <<rIndex, rOffset>> \/ status' = status
  BY DEF UpdateStatus
<1>3. ReaderType /\ ReaderInv
  BY ReaderNumbers
<1>4. isNew' \in BOOLEAN /\ hit' \in BOOLEAN
  BY <1>1, <1>3 DEF ReaderType
<1>5. status' \in Place /\ rIndex \in DOMAIN files
  BY <1>1, <1>2, <1>3, ReaderNumbers DEF ReaderType, ReaderInv, Place
<1>6. rpc' \in {"check", "line"} /\ (rpc' = "check" => lines = 0) /\ (rpc' = "line" => lines > 0)
  BY <1>1, ReaderNumbers
<1>7. ReaderType'
  BY <1>1, <1>3, <1>4, <1>5, <1>6 DEF ReaderType
<1>8. InFile(<<rIndex, rOffset>>)' /\ InFile(status)'
  BY <1>1, <1>2, <1>3 DEF ReaderInv, InFile
<1>9. ReaderInv'
  BY <1>1, <1>3, <1>5, <1>6, <1>8 DEF ReaderInv
<1> QED BY <1>7, <1>9

\* A start of tnotify.
LEMMA StartNotifyType ==
    ASSUME TypeInv, StartNotify
    PROVE  ReaderType' /\ ReaderInv' /\ SubType'
<1>1. /\ rpc = "down" /\ rpc' = "check" /\ rIndex' = status[1] /\ rOffset' = status[2]
      /\ subs' = appSubcribe /\ appIds' = AppsOf(appSubcribe)
      /\ UNCHANGED <<isNew, lines, todo, hit, status, inbox, downs, repeats, appSubcribe,
                     requests, files>>
  BY DEF StartNotify, writerVars
<1>2. ReaderType /\ ReaderInv /\ SubType
  BY ReaderNumbers, TypeParts DEF TypeInv
<1>3. isNew' \in BOOLEAN /\ hit' \in BOOLEAN
  BY <1>1, <1>2 DEF ReaderType
<1>4. status = <<rIndex', rOffset'>> /\ rIndex' \in Nat /\ rOffset' \in Nat
  BY <1>1, <1>2 DEF ReaderType, Place
<1>5. \/ rIndex' = 1 /\ rOffset' = 0
      \/ rIndex' \in DOMAIN files /\ rOffset' <= Len(files[rIndex'].lines)
  BY <1>2, <1>4 DEF ReaderInv, InFile
<1>6. lines = 0
  BY <1>1, <1>2 DEF ReaderInv
<1>7. rIndex' \in 1..(Len(files) + 1)
  BY <1>5, ReaderNumbers
<1>8. rIndex' \in DOMAIN files => rOffset' + lines <= Len(files[rIndex'].lines)
  BY <1>4, <1>5, <1>6, ReaderNumbers
<1>9. ReaderType'
  BY <1>1, <1>2, <1>3, <1>4, <1>7, <1>8 DEF ReaderType
<1>10. ReaderInv'
  BY <1>1, <1>2, <1>4, <1>6 DEF ReaderInv, InFile
<1>11. AppsOf(appSubcribe) \subseteq App
  BY <1>2 DEF AppsOf, SubType
<1>12. SubType'
  BY <1>1, <1>2, <1>11 DEF SubType
<1> QED BY <1>9, <1>10, <1>12

\* A request changes only subscriptions.
LEMMA RequestType ==
    ASSUME TypeInv, NEW r \in Loose, InsertAddress(r) \/ RemoveAddress(r)
    PROVE  SubType' /\ UNCHANGED <<writerVars, readerVars>>
<1>1. SubType /\ r \in App \X Address
  BY TypeParts, NotifyAssumption DEF TypeInv
<1>2. requests < MaxRequest /\ requests' = requests + 1 /\ MaxRequest \in Nat
  BY NotifyAssumption DEF InsertAddress, RemoveAddress
<1>3. requests' \in 0..MaxRequest
  BY <1>1, <1>2 DEF SubType
<1>4. CASE InsertAddress(r)
  <2>1. /\ subs' = subs \cup {r} /\ appIds' = appIds \cup {r[1]}
        /\ appSubcribe' = appSubcribe \cup {r} /\ UNCHANGED <<writerVars, readerVars>>
    BY <1>4 DEF InsertAddress
  <2> QED BY <1>1, <1>3, <2>1 DEF SubType
<1>5. CASE RemoveAddress(r)
  <2>1. /\ subs' = subs \ {r} /\ appIds' = appIds
        /\ appSubcribe' = appSubcribe \ {r} /\ UNCHANGED <<writerVars, readerVars>>
    BY <1>5 DEF RemoveAddress
  <2> QED BY <1>1, <1>3, <2>1 DEF SubType
<1> QED BY <1>4, <1>5

\* The initial states.
LEMMA TypeInit == Init => TypeInv
<1> SUFFICES ASSUME Init PROVE TypeInv
  OBVIOUS
<1>1. files = <<>> /\ files \in Seq(File) /\ Len(files) = 0
  BY DEF Init
<1>2. 1 \in Rows \cup {Len(Writes) + 1} /\ (1 \in Rows => 1 \in DOMAIN Writes[1])
  <2>1. Writes \in Seq(Seq(Seq(Address \cup {Block})))
    BY NotifyAssumption
  <2>2. Rows = 1..Len(Writes) /\ Len(Writes) \in Nat
    BY <2>1 DEF Rows
  <2> QED BY <2>2, CallsType
<1>3. WriterType
  <2>1. wOpen \in BOOLEAN /\ torn \in BOOLEAN
    BY DEF Init
  <2> QED BY <1>1, <1>2, <2>1, NotifyAssumption DEF Init, WriterType
<1>4. ReaderType
  <2>1. isNew \in BOOLEAN /\ hit \in BOOLEAN
    BY DEF Init
  <2>2. inbox \in [App -> Seq(Place)] /\ status \in Place
    BY DEF Init, Place
  <2>3. /\ rIndex \in 1..(Len(files) + 1) /\ rOffset \in Nat /\ lines \in 0..ReadMax
        /\ downs \in 0..MaxDown /\ repeats \in 0..MaxRepeat
    BY <1>1, NotifyAssumption DEF Init
  <2>4. rIndex \notin DOMAIN files
    BY <1>1
  <2> QED BY <2>1, <2>2, <2>3, <2>4 DEF Init, ReaderType
<1>5. SubType
  BY NotifyAssumption DEF Init, SubType, AppsOf
<1>6. WriterInv
  BY <1>1, <1>2 DEF Init, WriterInv
<1>7. ReaderInv
  BY DEF Init, ReaderInv, InFile
<1> QED BY <1>3, <1>4, <1>5, <1>6, <1>7, TypeParts DEF TypeInv

\* Writing steps append to the newest file and touch nothing of tnotify.
LEMMA ParserType ==
    ASSUME TypeInv, Parser \/ KillParser \/ StartParser
    PROVE  WriterType' /\ WriterInv' /\ FilesGrow /\ UNCHANGED <<readerVars, subVars>>
<1>1. ASSUME files' = files PROVE FilesGrow
  <2>1. Len(files) \in Nat /\ \A i \in DOMAIN files : Len(files[i].lines) \in Nat
    BY ReaderNumbers
  <2> QED BY <1>1, <2>1 DEF FilesGrow
<1>2. CASE WriteSome
  BY <1>2, WriteSomeType DEF WriteSome
<1>3. CASE WriteRest
  <2>1. SubSeq(Lines, part + 1, Len(Lines)) \in Seq(Event \cup {Garbled})
    BY <1>3, WriteRestNew
  <2>2. WriteTo(wIndex, files, SubSeq(Lines, part + 1, Len(Lines)))
    BY <1>3 DEF WriteRest
  <2>3. row \in Rows /\ wIndex \in Nat \ {0} /\ wIndex = Len(files)
    BY <1>3, WriteRestNew
  <2> QED BY <2>1, <2>2, <2>3, WriteToType DEF WriteTo
<1>4. CASE WriteAfterCut
  <2>1. WriteTo(wIndex, files, AppendTo(files[wIndex], Lines))
    BY <1>4 DEF WriteAfterCut
  <2> QED BY <1>4, <2>1, WriteAfterCutNew, WriteToType DEF WriteTo
<1>5. CASE SaveId
  BY <1>1, <1>5, SaveIdType DEF SaveId
<1>6. CASE KillParser
  BY <1>1, <1>6, KillParserType DEF KillParser
<1>7. CASE StartParser
  BY <1>1, <1>7, StartParserType DEF StartParser
<1> QED BY <1>2, <1>3, <1>4, <1>5, <1>6, <1>7 DEF Parser

\* Every step keeps the types.
LEMMA TypeStep == TypeInv /\ [Next]_vars => TypeInv'
<1> SUFFICES ASSUME TypeInv, [Next]_vars PROVE TypeInv'
  OBVIOUS
<1>1. ASSUME WriterType', WriterInv', FilesGrow, UNCHANGED <<readerVars, subVars>> PROVE TypeInv'
  <2>1. files' \in Seq(File)
    BY <1>1 DEF WriterType
  <2>2. ReaderType' /\ ReaderInv' /\ SubType'
    BY <1>1, <2>1, ReaderKept, SubKept
  <2> QED BY <1>1, <2>2, TypePartsNext DEF TypeInv
<1>2. ASSUME ReaderType', ReaderInv', UNCHANGED <<writerVars, subVars>> PROVE TypeInv'
  <2>1. WriterType' /\ WriterInv' /\ SubType'
    BY <1>2, WriterKept, SubKept
  <2> QED BY <1>2, <2>1, TypePartsNext DEF TypeInv
<1>3. ASSUME ReaderType', ReaderInv', SubType', UNCHANGED writerVars PROVE TypeInv'
  <2>1. WriterType' /\ WriterInv'
    BY <1>3, WriterKept
  <2> QED BY <1>3, <2>1, TypePartsNext DEF TypeInv
<1>4. CASE Parser \/ KillParser \/ StartParser
  BY <1>1, <1>4, ParserType
<1>5. CASE IsNewFileExist
  BY <1>2, <1>5, IsNewFileExistType DEF IsNewFileExist
<1>6. CASE ReadLines
  BY <1>2, <1>6, ReadLinesType DEF ReadLines
<1>7. CASE SwitchOrWait
  BY <1>2, <1>7, SwitchOrWaitType DEF SwitchOrWait
<1>8. downs \in 0..MaxDown /\ MaxDown \in Nat
  BY NotifyAssumption DEF TypeInv, TypeOK
<1>9. CASE ReadFails
  BY <1>3, <1>8, <1>9, GoneType DEF ReadFails, Gone
<1>10. CASE TakeLine
  <2>1. PICK l : todo' = Receivers(l) /\ hit' = (Receivers(l) # {})
    BY <1>10 DEF TakeLine
  <2>2. todo' \subseteq App /\ hit' \in BOOLEAN
    BY <2>1, ReceiversType
  <2>3. /\ rpc = "line" /\ rOffset' = rOffset + 1 /\ lines' = lines - 1 /\ rpc' = "deliver"
        /\ UNCHANGED <<rIndex, isNew, status, inbox, downs, repeats, writerVars, subVars>>
    BY <1>10 DEF TakeLine
  <2>4. files' = files
    BY <2>3 DEF writerVars
  <2> QED BY <1>2, <2>2, <2>3, <2>4, TakeType
<1>11. CASE TakeGarbled
  <2>1. CASE Gone /\ UNCHANGED downs
    BY <1>3, <1>8, <2>1, GoneType DEF Gone
  <2>2. CASE /\ \E A \in SUBSET appIds : todo' = A /\ hit' = (A # {})
             /\ rOffset' = rOffset + 1
             /\ lines' = lines - 1
             /\ rpc' = "deliver"
             /\ UNCHANGED <<rIndex, isNew, status, inbox, downs, repeats, writerVars, subVars>>
    <3>1. todo' \subseteq App /\ hit' \in BOOLEAN
      BY <2>2 DEF TypeInv, TypeOK
    <3>2. rpc = "line" /\ files' = files
      BY <1>11, <2>2 DEF TakeGarbled, writerVars
    <3> QED BY <1>2, <2>2, <3>1, <3>2, TakeType
  <2> QED BY <1>11, <2>1, <2>2 DEF TakeGarbled
<1>12. CASE Deliver \/ DeliverTwice
  BY <1>2, <1>12, DeliverType, DeliverAdds
<1>13. CASE UpdateStatus
  BY <1>2, <1>13, UpdateStatusType DEF UpdateStatus
<1>14. CASE StartNotify
  BY <1>3, <1>14, StartNotifyType DEF StartNotify
<1>15. CASE KillNotify
  <2>1. Gone /\ downs' \in 0..MaxDown
    BY <1>8, <1>15 DEF KillNotify
  <2> QED BY <1>3, <2>1, GoneType DEF Gone
<1>16. ASSUME NEW r \in Loose, InsertAddress(r) \/ RemoveAddress(r) PROVE TypeInv'
  <2>1. SubType' /\ UNCHANGED <<writerVars, readerVars>>
    BY <1>16, RequestType
  <2>2. ReaderType' /\ ReaderInv'
    <3>1. files' = files /\ UNCHANGED readerVars
      BY <2>1 DEF writerVars
    <3>2. Len(files) \in Nat /\ files \in Seq(File) /\ \A i \in DOMAIN files : Len(files[i].lines) \in Nat
      BY ReaderNumbers DEF TypeInv, TypeOK
    <3>3. FilesGrow /\ files' \in Seq(File)
      BY <3>1, <3>2 DEF FilesGrow
    <3> QED BY <3>1, <3>3, ReaderKept
  <2> QED BY <1>3, <2>1, <2>2
<1>17. CASE UNCHANGED vars
  <2>1. UNCHANGED <<writerVars, readerVars, subVars>>
    BY <1>17 DEF vars
  <2>2. ReaderType' /\ ReaderInv'
    <3>1. files' = files
      BY <2>1 DEF writerVars
    <3>2. Len(files) \in Nat /\ files \in Seq(File) /\ \A i \in DOMAIN files : Len(files[i].lines) \in Nat
      BY ReaderNumbers DEF TypeInv, TypeOK
    <3>3. FilesGrow /\ files' \in Seq(File)
      BY <3>1, <3>2 DEF FilesGrow
    <3> QED BY <2>1, <3>3, ReaderKept
  <2> QED BY <1>2, <2>1, <2>2
<1> QED BY <1>4, <1>5, <1>6, <1>7, <1>9, <1>10, <1>11, <1>12, <1>13, <1>14, <1>15, <1>16, <1>17
        DEF Next, Notify

\* Every variable of the notifications keeps its type; the file numbers and the
\* offsets of tnotify stay inside what tparser has written.
THEOREM TypeCorrect == Spec => []TypeOK
<1>1. TypeInv => TypeOK
  BY DEF TypeInv
<1> QED BY <1>1, TypeInit, TypeStep, PTL DEF Spec

-----------------------------------------------------------------------------
(* Repetitions. *)

AtOrUp(p, q) == p = q \/ PlaceUp(p, q)

\* Where the places of a table do not go up: all of them (s = 0), or those that go
\* back (s = 1); and how many faults explain them.
Turns(a, s) == {i \in 1..(Len(inbox[a]) - 1) :
                   /\ ~PlaceUp(inbox[a][i], inbox[a][i + 1])
                   /\ s = 1 => inbox[a][i] # inbox[a][i + 1]}
Faults(s) == IF s = 1 THEN downs ELSE downs + repeats

\* What an application got is behind the saved position, except the line that is
\* being delivered.
Behind(a) ==
    \/ inbox[a] = <<>>
    \/ AtOrUp(inbox[a][Len(inbox[a])], status)
    \/ /\ rpc = "deliver" /\ hit /\ a \notin todo
       /\ inbox[a][Len(inbox[a])] = <<rIndex, rOffset>>

RepeatInv ==
    /\ rpc \notin {"down", "deliver"} => AtOrUp(status, <<rIndex, rOffset>>)
    /\ rpc = "deliver" => PlaceUp(status, <<rIndex, rOffset>>) /\ (todo # {} => hit)
    /\ \A a \in App, s \in {0, 1} :
          /\ Cardinality(Turns(a, s)) <= Faults(s)
          /\ Cardinality(Turns(a, s)) = Faults(s) => Behind(a)

\* Places are ordered.
LEMMA UpTrans ==
    ASSUME NEW p \in Place, NEW q \in Place, NEW r \in Place
    PROVE  /\ AtOrUp(p, q) /\ PlaceUp(q, r) => PlaceUp(p, r)
           /\ AtOrUp(p, q) /\ AtOrUp(q, r) => AtOrUp(p, r)
           /\ PlaceUp(p, q) => ~AtOrUp(q, p)
           /\ PlaceUp(p, q) \/ AtOrUp(q, p)
BY DEF Place, AtOrUp, PlaceUp

\* A place and its parts.
LEMMA PlaceEq ==
    ASSUME NEW i \in Nat, NEW k \in Nat
    PROVE  <<i, k>> \in Place /\ <<i, k>>[1] = i /\ <<i, k>>[2] = k
BY DEF Place

\* A finite set, and what one more element can make of it.
LEMMA TurnsFinite ==
    ASSUME NEW a, inbox[a] \in Seq(Place), NEW s
    PROVE  /\ IsFiniteSet(Turns(a, s)) /\ Cardinality(Turns(a, s)) \in Nat
           /\ Turns(a, s) \subseteq 1..(Len(inbox[a]) - 1)
<1>1. IsFiniteSet(1..(Len(inbox[a]) - 1))
  BY FS_Interval
<1>2. Turns(a, s) \subseteq 1..(Len(inbox[a]) - 1)
  BY DEF Turns
<1>3. IsFiniteSet(Turns(a, s))
  BY <1>1, <1>2, FS_Subset
<1> QED BY <1>2, <1>3, FS_CardinalityType

\* A part of a set has no more elements than a bound of the set.
LEMMA Least ==
    ASSUME NEW S, NEW T, IsFiniteSet(T), S \subseteq T, NEW k \in Nat, Cardinality(T) <= k
    PROVE  Cardinality(S) <= k
<1>1. IsFiniteSet(S) /\ Cardinality(S) <= Cardinality(T)
  BY FS_Subset
<1>2. Cardinality(S) \in Nat /\ Cardinality(T) \in Nat
  BY <1>1, FS_CardinalityType
<1> QED BY <1>1, <1>2

\* A line that is recorded w times adds a turn where it joins the others, if it
\* does not go up there, and one more that stays in place if w = 2.
LEMMA TurnsAdd ==
    ASSUME NEW b \in App, inbox \in [App -> Seq(Place)], NEW w \in {1, 2}, Adds(b, w),
           NEW s \in {0, 1}
    PROVE  LET one == IF w = 2 /\ s = 0 THEN 1 ELSE 0 IN
           /\ Cardinality(Turns(b, s)) \in Nat /\ Cardinality(Turns(b, s)') \in Nat
           /\ Cardinality(Turns(b, s)') <= Cardinality(Turns(b, s)) + 1 + one
           /\ (inbox[b] = <<>> \/ PlaceUp(inbox[b][Len(inbox[b])], <<rIndex, rOffset>>))
                 => Cardinality(Turns(b, s)') <= Cardinality(Turns(b, s)) + one
<1> DEFINE n == Len(inbox[b])
           p == <<rIndex, rOffset>>
           Old == Turns(b, s)
           New == Turns(b, s)'
<1>1. /\ inbox[b] \in Seq(Place) /\ inbox'[b] \in Seq(Place) /\ n \in Nat
      /\ Len(inbox'[b]) = n + w
      /\ \A i \in 1..n : inbox'[b][i] = inbox[b][i]
      /\ \A i \in 1..w : inbox'[b][n + i] = p
  BY DEF Adds
<1>2. New = {i \in 1..(n + w - 1) : /\ ~PlaceUp(inbox'[b][i], inbox'[b][i + 1])
                                    /\ s = 1 => inbox'[b][i] # inbox'[b][i + 1]}
  BY <1>1 DEF Turns, PlaceUp
<1>3. /\ IsFiniteSet(Old) /\ Cardinality(Old) \in Nat /\ Old \subseteq 1..(n - 1)
      /\ IsFiniteSet(New) /\ Cardinality(New) \in Nat
  <2>1. IsFiniteSet(New)
    <3> DEFINE m == n + w - 1
    <3>1. m \in Int
      BY <1>1
    <3>2. New \subseteq 1..m
      BY <1>2
    <3> HIDE DEF m, New
    <3>3. IsFiniteSet(1..m)
      BY <3>1, FS_Interval
    <3> QED BY <3>2, <3>3, FS_Subset
  <2> QED BY <1>1, <2>1, TurnsFinite, FS_CardinalityType
<1>4. \A i \in 1..(n - 1) : i \in New <=> i \in Old
  <2>1. \A i \in 1..(n - 1) : inbox'[b][i] = inbox[b][i] /\ inbox'[b][i + 1] = inbox[b][i + 1]
    BY <1>1
  <2> QED BY <1>1, <1>2, <2>1 DEF Turns
<1>5. inbox[b] = <<>> \/ PlaceUp(inbox[b][n], p) => n \notin New
  <2>1. CASE n = 0
    BY <1>2, <2>1
  <2>2. CASE n > 0
    <3>1. inbox'[b][n] = inbox[b][n] /\ inbox'[b][n + 1] = p
      BY <1>1, <2>2
    <3>2. inbox[b] # <<>>
      BY <2>2
    <3> QED BY <1>2, <3>1, <3>2
  <2> QED BY <1>1, <2>1, <2>2
<1>6. w = 2 /\ s = 1 => n + 1 \notin New
  <2> SUFFICES ASSUME w = 2, s = 1 PROVE n + 1 \notin New
    OBVIOUS
  <2>1. inbox'[b][n + 1] = p /\ inbox'[b][(n + 1) + 1] = p
    BY <1>1
  <2> QED BY <1>2, <2>1
<1>7. New \subseteq 1..(n + w - 1)
  BY <1>2
<1> HIDE DEF n, p, Old, New
<1>8. New \subseteq Old \cup {n, n + 1}
  BY <1>1, <1>4, <1>7
<1>9. n + 1 \in New => w = 2 /\ s = 0
  BY <1>1, <1>6, <1>7
<1>10. /\ Cardinality(Old \cup {n}) <= Cardinality(Old) + 1
       /\ Cardinality(Old \cup {n + 1}) <= Cardinality(Old) + 1
       /\ Cardinality((Old \cup {n}) \cup {n + 1}) <= Cardinality(Old) + 2
  <2>1. /\ n \notin Old /\ n + 1 \notin Old /\ n + 1 \notin Old \cup {n}
    BY <1>1, <1>3
  <2>2. IsFiniteSet(Old \cup {n}) /\ Cardinality(Old \cup {n}) = Cardinality(Old) + 1
    BY <1>3, <2>1, FS_AddElement
  <2>3. Cardinality(Old \cup {n + 1}) = Cardinality(Old) + 1
    BY <1>3, <2>1, FS_AddElement
  <2>4. Cardinality((Old \cup {n}) \cup {n + 1}) = Cardinality(Old \cup {n}) + 1
    BY <2>1, <2>2, FS_AddElement
  <2> QED BY <1>3, <2>2, <2>3, <2>4
<1>11. /\ IsFiniteSet(Old \cup {n}) /\ IsFiniteSet(Old \cup {n + 1})
       /\ IsFiniteSet((Old \cup {n}) \cup {n + 1})
  BY <1>3, FS_AddElement
<1>12. CASE w = 2 /\ s = 0
  <2>1. New \subseteq (Old \cup {n}) \cup {n + 1}
    BY <1>8
  <2>2. Cardinality(New) <= Cardinality(Old) + 2
    <3> DEFINE T == (Old \cup {n}) \cup {n + 1}
               k == Cardinality(Old) + 2
    <3>1. IsFiniteSet(T) /\ Cardinality(T) <= k /\ New \subseteq T /\ k \in Nat
      BY <1>3, <1>10, <1>11, <2>1
    <3> HIDE DEF T, k
    <3>2. Cardinality(New) <= k
      BY <3>1, Least
    <3> QED BY <3>2 DEF k
  <2>3. n \notin New => Cardinality(New) <= Cardinality(Old) + 1
    <3>1. ASSUME n \notin New PROVE New \subseteq Old \cup {n + 1}
      BY <1>8, <3>1
    <3> QED BY <1>3, <1>10, <1>11, <3>1, Least
  <2> QED BY <1>3, <1>5, <1>12, <2>2, <2>3 DEF Old, New, n, p
<1>13. CASE ~(w = 2 /\ s = 0)
  <2>1. New \subseteq Old \cup {n}
    BY <1>8, <1>9, <1>13
  <2>2. Cardinality(New) <= Cardinality(Old) + 1
    <3> DEFINE T == Old \cup {n}
               k == Cardinality(Old) + 1
    <3>1. IsFiniteSet(T) /\ Cardinality(T) <= k /\ New \subseteq T /\ k \in Nat
      BY <1>3, <1>10, <1>11, <2>1
    <3> HIDE DEF T, k
    <3>2. Cardinality(New) <= k
      BY <3>1, Least
    <3> QED BY <3>2 DEF k
  <2>3. n \notin New => Cardinality(New) <= Cardinality(Old)
    <3>1. ASSUME n \notin New PROVE New \subseteq Old
      BY <2>1, <3>1
    <3> QED BY <1>3, <3>1, FS_Subset
  <2> QED BY <1>3, <1>5, <1>13, <2>2, <2>3 DEF Old, New, n, p
<1> QED BY <1>12, <1>13

\* The initial states.
LEMMA RepeatInit == Init => RepeatInv
<1> SUFFICES ASSUME Init PROVE RepeatInv
  OBVIOUS
<1>1. ASSUME NEW a \in App, NEW s \in {0, 1} PROVE Cardinality(Turns(a, s)) = 0 /\ Behind(a)
  <2>1. inbox[a] = <<>>
    BY DEF Init
  <2>2. Turns(a, s) = {}
    BY <2>1 DEF Turns
  <2> QED BY <2>1, <2>2, FS_EmptySet DEF Behind
<1>2. AtOrUp(status, <<rIndex, rOffset>>) /\ rpc = "check" /\ downs = 0 /\ repeats = 0
  BY DEF Init, AtOrUp
<1> QED BY <1>1, <1>2 DEF RepeatInv, Faults

\* The position and the status are places.
LEMMA PosType ==
    ASSUME TypeInv
    PROVE  /\ <<rIndex, rOffset>> \in Place /\ status \in Place
           /\ downs \in Nat /\ repeats \in Nat /\ \A s \in {0, 1} : Faults(s) \in Nat
           /\ \A a \in App : /\ inbox[a] \in Seq(Place)
                             /\ inbox[a] # <<>> => inbox[a][Len(inbox[a])] \in Place
<1>1. /\ rIndex \in Nat /\ rOffset \in Nat /\ status \in Place
      /\ inbox \in [App -> Seq(Place)] /\ downs \in 0..MaxDown /\ repeats \in 0..MaxRepeat
  BY ReaderNumbers DEF ReaderType
<1>2. \A a \in App : inbox[a] \in Seq(Place)
  BY <1>1
<1>3. \A a \in App : inbox[a] # <<>> => inbox[a][Len(inbox[a])] \in Place
  BY <1>2
<1>4. downs \in Nat /\ repeats \in Nat
  BY <1>1, NotifyAssumption
<1> QED BY <1>1, <1>2, <1>3, <1>4 DEF Place, Faults

\* Nothing is repeated by a step that leaves the tables and the status alone and
\* does not end a delivery.
LEMMA RepeatKept ==
    ASSUME RepeatInv, UNCHANGED <<inbox, status, downs, repeats>>,
           \A a \in App : Behind(a) => Behind(a)',
           rpc' \notin {"down", "deliver"} => AtOrUp(status, <<rIndex', rOffset'>>),
           rpc' = "deliver" => PlaceUp(status, <<rIndex', rOffset'>>) /\ (todo' # {} => hit')
    PROVE  RepeatInv'
<1>1. \A a \in App, s \in {0, 1} : Turns(a, s)' = Turns(a, s) /\ Faults(s)' = Faults(s)
  BY DEF Turns, Faults, PlaceUp
<1>2. \A a \in App, s \in {0, 1} :
         /\ Cardinality(Turns(a, s)') <= Faults(s)'
         /\ Cardinality(Turns(a, s)') = Faults(s)' => Behind(a)'
  BY <1>1 DEF RepeatInv
<1>3. (rpc \notin {"down", "deliver"} => AtOrUp(status, <<rIndex, rOffset>>))'
  BY DEF AtOrUp, PlaceUp
<1>4. (rpc = "deliver" => PlaceUp(status, <<rIndex, rOffset>>) /\ (todo # {} => hit))'
  BY DEF PlaceUp
<1> QED BY <1>2, <1>3, <1>4 DEF RepeatInv

\* Outside a delivery, what is behind the status stays there.
LEMMA BehindKept ==
    ASSUME rpc # "deliver", UNCHANGED <<inbox, status>>
    PROVE  \A a \in App : Behind(a) => Behind(a)'
BY DEF Behind, AtOrUp, PlaceUp

\* An INSERT adds a place that was not delivered before, or a kill explains it;
\* run twice, it adds the place twice.
LEMMA DeliverRepeat ==
    ASSUME TypeInv, RepeatInv, Deliver \/ DeliverTwice
    PROVE  RepeatInv'
<1>1. /\ rpc = "deliver" /\ UNCHANGED <<rpc, rIndex, rOffset, hit, status, downs>>
      /\ \/ UNCHANGED repeats /\ \E b \in todo : Adds(b, 1)
         \/ repeats' = repeats + 1 /\ \E b \in todo : Adds(b, 2)
  BY DeliverAdds
<1>2. PICK b \in todo, w \in {1, 2} : Adds(b, w) /\ repeats' = repeats + (w - 1)
  <2>1. repeats \in Nat
    BY PosType
  <2> QED BY <1>1, <2>1
<1>3. b \in App /\ inbox \in [App -> Seq(Place)]
  BY DEF TypeInv, TypeOK
<1>4. PlaceUp(status, <<rIndex, rOffset>>) /\ hit
  BY <1>1, <1>2 DEF RepeatInv
<1>5. downs \in Nat /\ repeats \in Nat
  BY PosType
<1>6. \A s \in {0, 1} : Faults(s)' = Faults(s) + (IF w = 2 /\ s = 0 THEN 1 ELSE 0) /\ Faults(s) \in Nat
  BY <1>1, <1>2, <1>5 DEF Faults
<1>7. ASSUME NEW a \in App, a # b, NEW s \in {0, 1}
      PROVE  /\ Cardinality(Turns(a, s)') <= Faults(s)'
             /\ Cardinality(Turns(a, s)') = Faults(s)' => Behind(a)'
  <2>1. inbox'[a] = inbox[a]
    BY <1>2, <1>7 DEF Adds
  <2>2. Turns(a, s)' = Turns(a, s)
    BY <2>1 DEF Turns, PlaceUp
  <2>3. Behind(a) => Behind(a)'
    BY <1>1, <1>2, <2>1 DEF Behind, AtOrUp, PlaceUp, Adds
  <2>4. Cardinality(Turns(a, s)) \in Nat
    BY <1>3, TurnsFinite
  <2> QED BY <1>6, <2>2, <2>3, <2>4 DEF RepeatInv
<1>8. ASSUME NEW s \in {0, 1}
      PROVE  Cardinality(Turns(b, s)') <= Faults(s)' /\ Behind(b)'
  <2>1. inbox[b] \in Seq(Place) /\ <<rIndex, rOffset>> \in Place /\ status \in Place
    BY <1>3, PosType
  <2>2. LET one == IF w = 2 /\ s = 0 THEN 1 ELSE 0 IN
        /\ Cardinality(Turns(b, s)) \in Nat /\ Cardinality(Turns(b, s)') \in Nat
        /\ Cardinality(Turns(b, s)') <= Cardinality(Turns(b, s)) + 1 + one
        /\ (inbox[b] = <<>> \/ PlaceUp(inbox[b][Len(inbox[b])], <<rIndex, rOffset>>))
              => Cardinality(Turns(b, s)') <= Cardinality(Turns(b, s)) + one
    BY <1>2, <1>3, TurnsAdd
  <2>3. Behind(b) => inbox[b] = <<>> \/ PlaceUp(inbox[b][Len(inbox[b])], <<rIndex, rOffset>>)
    <3>1. inbox[b] # <<>> => inbox[b][Len(inbox[b])] \in Place
      BY <1>3, PosType
    <3>2. CASE AtOrUp(inbox[b][Len(inbox[b])], status) /\ inbox[b] # <<>>
      BY <1>4, <2>1, <3>1, <3>2, UpTrans
    <3> QED BY <1>2, <3>2 DEF Behind
  <2>4. Cardinality(Turns(b, s)) <= Faults(s) /\ (Cardinality(Turns(b, s)) = Faults(s) => Behind(b))
    BY <1>3 DEF RepeatInv
  <2>5. Cardinality(Turns(b, s)') <= Faults(s)'
    <3> DEFINE one == IF w = 2 /\ s = 0 THEN 1 ELSE 0
               old == Cardinality(Turns(b, s))
               new == Cardinality(Turns(b, s)')
               up == inbox[b] = <<>> \/ PlaceUp(inbox[b][Len(inbox[b])], <<rIndex, rOffset>>)
    <3>1. one \in {0, 1} /\ Faults(s)' = Faults(s) + one /\ Faults(s) \in Nat
      BY <1>6
    <3>2. old \in Nat /\ new \in Nat /\ new <= old + 1 + one /\ (up => new <= old + one)
      BY <2>2
    <3>3. old <= Faults(s) /\ (old = Faults(s) => up)
      BY <2>3, <2>4
    <3> HIDE DEF one, old, new, up
    <3>4. new <= Faults(s) + one
      BY <3>1, <3>2, <3>3
    <3> QED BY <3>1, <3>4 DEF new
  <2>6. inbox'[b][Len(inbox'[b])] = <<rIndex, rOffset>>
    <3>1. w \in 1..w
      OBVIOUS
    <3>2. Len(inbox'[b]) = Len(inbox[b]) + w
      BY <1>2 DEF Adds
    <3>3. \A n \in 1..w : inbox'[b][Len(inbox[b]) + n] = <<rIndex, rOffset>>
      BY <1>2 DEF Adds
    <3> QED BY <3>1, <3>2, <3>3
  <2>7. Behind(b)'
    BY <1>1, <1>2, <1>4, <2>6 DEF Behind, Adds
  <2> QED BY <2>5, <2>7
<1>9. (rpc = "deliver" => PlaceUp(status, <<rIndex, rOffset>>) /\ (todo # {} => hit))'
  BY <1>1, <1>4 DEF PlaceUp
<1>10. (\A a \in App, s \in {0, 1} :
          /\ Cardinality(Turns(a, s)) <= Faults(s)
          /\ Cardinality(Turns(a, s)) = Faults(s) => Behind(a))'
  BY <1>7, <1>8
<1> QED BY <1>1, <1>9, <1>10 DEF RepeatInv

\* The saved position moves behind what is delivered.
LEMMA UpdateStatusRepeat ==
    ASSUME TypeInv, RepeatInv, UpdateStatus
    PROVE  RepeatInv'
<1>1. /\ rpc = "deliver" /\ rpc' \in {"check", "line"}
      /\ UNCHANGED <<rIndex, rOffset, inbox, downs, repeats>>
      /\ status' = <<rIndex, rOffset>> \/ (status' = status /\ ~hit)
  BY DEF UpdateStatus
<1>2. PlaceUp(status, <<rIndex, rOffset>>)
  BY <1>1 DEF RepeatInv
<1>3. status \in Place /\ <<rIndex, rOffset>> \in Place
  BY PosType
<1>4. ASSUME NEW a \in App, Behind(a) PROVE Behind(a)'
  <2>1. CASE inbox[a] = <<>>
    BY <1>1, <2>1 DEF Behind
  <2>2. CASE inbox[a] # <<>> /\ AtOrUp(inbox[a][Len(inbox[a])], status)
    <3>1. inbox[a][Len(inbox[a])] \in Place
      BY <2>2, PosType
    <3>2. AtOrUp(inbox[a][Len(inbox[a])], <<rIndex, rOffset>>)
      BY <1>2, <1>3, <2>2, <3>1, UpTrans DEF AtOrUp
    <3>3. AtOrUp(inbox[a][Len(inbox[a])], status')
      BY <1>1, <2>2, <3>2
    <3> QED BY <1>1, <3>3 DEF Behind, AtOrUp, PlaceUp
  <2>3. CASE hit /\ inbox[a][Len(inbox[a])] = <<rIndex, rOffset>>
    BY <1>1, <2>3 DEF Behind, AtOrUp
  <2> QED BY <1>4, <2>1, <2>2, <2>3 DEF Behind
<1>5. AtOrUp(status', <<rIndex, rOffset>>)
  BY <1>1, <1>2 DEF AtOrUp
<1>6. \A a \in App, s \in {0, 1} : Turns(a, s)' = Turns(a, s) /\ Faults(s)' = Faults(s)
  BY <1>1 DEF Turns, Faults, PlaceUp
<1>7. \A a \in App, s \in {0, 1} :
         /\ Cardinality(Turns(a, s)') <= Faults(s)'
         /\ Cardinality(Turns(a, s)') = Faults(s)' => Behind(a)'
  BY <1>4, <1>6 DEF RepeatInv
<1>8. (rpc \notin {"down", "deliver"} => AtOrUp(status, <<rIndex, rOffset>>))'
  BY <1>1, <1>5 DEF AtOrUp, PlaceUp
<1> QED BY <1>1, <1>7, <1>8 DEF RepeatInv

\* Every step keeps the invariant.
LEMMA RepeatStep == TypeInv /\ RepeatInv /\ [Next]_vars => RepeatInv'
<1> SUFFICES ASSUME TypeInv, RepeatInv, [Next]_vars PROVE RepeatInv'
  OBVIOUS
<1>1. /\ rpc \notin {"down", "deliver"} => AtOrUp(status, <<rIndex, rOffset>>)
      /\ rpc = "deliver" => PlaceUp(status, <<rIndex, rOffset>>) /\ (todo # {} => hit)
  BY DEF RepeatInv
<1>2. status \in Place /\ <<rIndex, rOffset>> \in Place /\ rIndex \in Nat /\ rOffset \in Nat
  BY PosType, ReaderNumbers
<1>3. ASSUME UNCHANGED readerVars PROVE RepeatInv'
  <2>1. UNCHANGED <<rpc, rIndex, rOffset, todo, hit, status, inbox, downs, repeats>>
    BY <1>3 DEF readerVars
  <2>2. \A a \in App : Behind(a) => Behind(a)'
    BY <2>1 DEF Behind, AtOrUp, PlaceUp
  <2> QED BY <1>1, <2>1, <2>2, RepeatKept
<1>4. CASE Parser \/ KillParser \/ StartParser
  BY <1>3, <1>4, ParserType
<1>5. CASE IsNewFileExist
  <2>1. /\ rpc = "check" /\ rpc' = "read"
        /\ UNCHANGED <<rIndex, rOffset, todo, hit, status, inbox, downs, repeats>>
    BY <1>5 DEF IsNewFileExist
  <2> QED BY <1>1, <2>1, BehindKept, RepeatKept
<1>6. CASE ReadLines
  <2>1. /\ rpc = "read" /\ rpc' \in {"nothing", "line"}
        /\ UNCHANGED <<rIndex, rOffset, todo, hit, status, inbox, downs, repeats>>
    BY <1>6 DEF ReadLines
  <2> QED BY <1>1, <2>1, BehindKept, RepeatKept
<1>7. CASE SwitchOrWait
  <2>1. /\ rpc = "nothing" /\ rpc' = "check"
        /\ (rIndex' = rIndex + 1 /\ rOffset' = 0) \/ UNCHANGED <<rIndex, rOffset>>
        /\ UNCHANGED <<status, inbox, downs, repeats>>
    BY <1>7 DEF SwitchOrWait, NewSeen, NextFile
  <2>2. AtOrUp(status, <<rIndex', rOffset'>>)
    <3>1. CASE rIndex' = rIndex + 1 /\ rOffset' = 0
      <4>1. PlaceUp(<<rIndex, rOffset>>, <<rIndex', rOffset'>>) /\ <<rIndex', rOffset'>> \in Place
        BY <1>2, <3>1, PlaceEq DEF PlaceUp
      <4> QED BY <1>1, <1>2, <2>1, <4>1, UpTrans DEF AtOrUp
    <3>2. CASE UNCHANGED <<rIndex, rOffset>>
      BY <1>1, <2>1, <3>2
    <3> QED BY <2>1, <3>1, <3>2
  <2> QED BY <2>1, <2>2, BehindKept, RepeatKept
<1>8. ASSUME Gone, UNCHANGED downs, rpc # "deliver" PROVE RepeatInv'
  <2>1. rpc' = "down" /\ UNCHANGED <<status, inbox, repeats>>
    BY <1>8 DEF Gone
  <2> QED BY <1>8, <2>1, BehindKept, RepeatKept
<1>9. CASE ReadFails
  BY <1>8, <1>9 DEF ReadFails
<1>10. ASSUME rpc = "line", rpc' = "deliver", rOffset' = rOffset + 1, todo' # {} => hit',
              UNCHANGED <<rIndex, status, inbox, downs, repeats>>
       PROVE  RepeatInv'
  <2>1. PlaceUp(<<rIndex, rOffset>>, <<rIndex', rOffset'>>) /\ <<rIndex', rOffset'>> \in Place
    BY <1>2, <1>10, PlaceEq DEF PlaceUp
  <2>2. PlaceUp(status, <<rIndex', rOffset'>>)
    BY <1>1, <1>2, <1>10, <2>1, UpTrans
  <2> QED BY <1>10, <2>2, BehindKept, RepeatKept
<1>11. CASE TakeLine
  BY <1>10, <1>11 DEF TakeLine
<1>12. CASE TakeGarbled
  <2>1. rpc = "line"
    BY <1>12 DEF TakeGarbled
  <2>2. CASE Gone /\ UNCHANGED downs
    BY <1>8, <2>1, <2>2
  <2>3. CASE /\ \E A \in SUBSET appIds : todo' = A /\ hit' = (A # {})
             /\ rOffset' = rOffset + 1
             /\ lines' = lines - 1
             /\ rpc' = "deliver"
             /\ UNCHANGED <<rIndex, isNew, status, inbox, downs, repeats, writerVars, subVars>>
    BY <1>10, <2>1, <2>3
  <2> QED BY <1>12, <2>2, <2>3 DEF TakeGarbled
<1>13. CASE Deliver \/ DeliverTwice
  BY <1>13, DeliverRepeat
<1>14. CASE UpdateStatus
  BY <1>14, UpdateStatusRepeat
<1>15. CASE StartNotify
  <2>1. /\ rpc = "down" /\ rpc' = "check" /\ rIndex' = status[1] /\ rOffset' = status[2]
        /\ UNCHANGED <<status, inbox, downs, repeats>>
    BY <1>15 DEF StartNotify
  <2>2. AtOrUp(status, <<rIndex', rOffset'>>)
    BY <1>2, <2>1 DEF AtOrUp, Place
  <2> QED BY <2>1, <2>2, BehindKept, RepeatKept
<1>16. CASE KillNotify
  <2>1. downs' = downs + 1 /\ rpc' = "down" /\ UNCHANGED <<status, inbox, repeats>>
    BY <1>16 DEF KillNotify, Gone
  <2>2. \A a \in App, s \in {0, 1} : Turns(a, s)' = Turns(a, s)
    BY <2>1 DEF Turns, PlaceUp
  <2>3. \A s \in {0, 1} : Faults(s) \in Nat /\ Faults(s)' = Faults(s) + 1
    BY <2>1, PosType DEF Faults
  <2>4. \A a \in App, s \in {0, 1} : Cardinality(Turns(a, s)) \in Nat /\ Cardinality(Turns(a, s)) <= Faults(s)
    BY PosType, TurnsFinite DEF RepeatInv
  <2>5. (\A a \in App, s \in {0, 1} :
           /\ Cardinality(Turns(a, s)) <= Faults(s)
           /\ Cardinality(Turns(a, s)) = Faults(s) => Behind(a))'
    BY <2>2, <2>3, <2>4
  <2> QED BY <2>1, <2>5 DEF RepeatInv
<1>17. ASSUME NEW r \in Loose, InsertAddress(r) \/ RemoveAddress(r) PROVE RepeatInv'
  BY <1>3, <1>17, RequestType
<1>18. CASE UNCHANGED vars
  BY <1>3, <1>18 DEF vars
<1> QED BY <1>4, <1>5, <1>6, <1>7, <1>9, <1>11, <1>12, <1>13, <1>14, <1>15, <1>16, <1>17, <1>18
        DEF Next, Notify

\* tnotify tells an application a line again at most once per kill of tnotify
\* and per INSERT that execute() repeated, and an earlier line after a later one
\* at most once per kill: after a restart it goes on from the status that
\* updateStatus() saved.
THEOREM RepeatsBounded == Spec => []RepeatsOnlyAfterFault
<1>1. \A a \in App : Returns(a) = Turns(a, 0) /\ Backwards(a) = Turns(a, 1)
  BY DEF Returns, Backwards, Turns
<1>2. RepeatInv => \A a \in App : /\ Cardinality(Turns(a, 0)) <= downs + repeats
                                  /\ Cardinality(Turns(a, 1)) <= downs
  BY DEF RepeatInv, Faults
<1>3. RepeatInv => RepeatsOnlyAfterFault
  BY <1>1, <1>2 DEF RepeatsOnlyAfterFault
<1> QED BY <1>3, TypeInit, TypeStep, RepeatInit, RepeatStep, PTL DEF Spec

-----------------------------------------------------------------------------
(* No event is skipped. *)

InLog(p) == p[1] \in DOMAIN files /\ p[2] \in DOMAIN files[p[1]].lines

\* Before a line come lines with all the events before its own.
Ordered ==
    \A i \in DOMAIN files : \A k \in DOMAIN files[i].lines : \A e \in Event :
        Before(e, files[i].lines[k]) =>
            \E j \in DOMAIN files : \E m \in DOMAIN files[j].lines :
                PlaceUp(<<j, m>>, <<i, k>>) /\ files[j].lines[m] = e

\* The event is in the log.
Logged(e) == \E j \in DOMAIN files : \E m \in DOMAIN files[j].lines : files[j].lines[m] = e

WrittenInv ==
    /\ \A i \in DOMAIN files :
          /\ files[i].cut => wpc = "rest" /\ i = wIndex
          /\ \A k \in DOMAIN files[i].lines : files[i].lines[k] \in Event
    /\ Ordered
    /\ \A e \in Event : e[1] <= saved => Logged(e)
    /\ wpc # "down" => \A e \in Event : Before(e, <<row, call, part + 1>>) => Logged(e)
    /\ wpc = "save" => \A e \in Event : e[1] <= row => Logged(e)

\* All lines up to a position have reached application a, if they are for it.
Told(a, p) ==
    \A i \in DOMAIN files : \A k \in DOMAIN files[i].lines :
        (AtOrUp(<<i, k>>, p) /\ files[i].lines[k] \in Due(a)) =>
            \E n \in DOMAIN inbox[a] : inbox[a][n] = <<i, k>>

Subscribed ==
    /\ Fixed \subseteq appSubcribe
    /\ rpc # "down" => Fixed \subseteq subs /\ AppsOf(Fixed) \subseteq appIds

\* What NoEventSkipped says if no line was cut.
InOrder ==
    \A a \in AppsOf(Fixed) : \A i \in DOMAIN inbox[a] : \A e \in Due(a) :
        Before(e, LineAt(inbox[a][i])) =>
            \E j \in 1..(i - 1) : LineAt(inbox[a][j]) = e

ToldInv ==
    \A a \in AppsOf(Fixed) :
        /\ Told(a, status)
        /\ rpc \notin {"down", "deliver"} => Told(a, <<rIndex, rOffset>>)
        /\ rpc = "deliver" => /\ Told(a, <<rIndex, rOffset - 1>>)
                              /\ a \notin todo => Told(a, <<rIndex, rOffset>>)

FromLog == \A a \in App : \A n \in DOMAIN inbox[a] : InLog(inbox[a][n])

SkipInv == WrittenInv /\ InOrder /\ ToldInv /\ FromLog
SkipCond == ~torn => SkipInv

\* Which lines there are after new ones are put at the end of file i.
LEMMA PutsPlaces ==
    ASSUME files \in Seq(File), NEW i, NEW new, Puts(i, new)
    PROVE  /\ Len(OldLines(i)) \in Nat /\ i \in Nat \ {0} /\ i \in DOMAIN files'
           /\ \A j \in DOMAIN files : \A m \in DOMAIN files[j].lines :
                 /\ j \in DOMAIN files' /\ m \in DOMAIN files'[j].lines
                 /\ files'[j].lines[m] = files[j].lines[m]
                 /\ \A k \in Nat : k > Len(OldLines(i)) => PlaceUp(<<j, m>>, <<i, k>>)
           /\ \A j \in DOMAIN files' : \A m \in DOMAIN files'[j].lines :
                 /\ j \in Nat /\ m \in Nat
                 /\ \/ j \in DOMAIN files /\ m \in DOMAIN files[j].lines
                    \/ /\ j = i /\ m > Len(OldLines(i))
                       /\ m - Len(OldLines(i)) \in 1..Len(new)
                       /\ files'[j].lines[m] = new[m - Len(OldLines(i))]
           /\ \A k \in 1..Len(new) :
                 /\ Len(OldLines(i)) + k \in DOMAIN files'[i].lines
                 /\ files'[i].lines[Len(OldLines(i)) + k] = new[k]
<1> DEFINE n == Len(OldLines(i))
           L == Event \cup {Garbled}
<1>1. /\ i \in Nat \ {0} /\ i \in {Len(files), Len(files) + 1} /\ new \in Seq(L)
      /\ files' \in Seq(File) /\ Len(files') = i
  BY DEF Puts
<1>2. Len(files) \in Nat /\ DOMAIN files = 1..Len(files) /\ DOMAIN files' = 1..i
  BY <1>1, FilesType
<1>3. /\ \A j \in DOMAIN files' : j # i => j \in DOMAIN files /\ files'[j] = files[j]
      /\ files'[i].lines = OldLines(i) \o new
  BY DEF Puts
<1>4. \A j \in 1..Len(files) : /\ files[j].lines \in Seq(L) /\ Len(files[j].lines) \in Nat
                               /\ DOMAIN files[j].lines = 1..Len(files[j].lines)
  BY FilesType
<1>5. \A j \in 1..i : /\ files'[j].lines \in Seq(L) /\ Len(files'[j].lines) \in Nat
                      /\ DOMAIN files'[j].lines = 1..Len(files'[j].lines)
  BY <1>1, FilesType
<1>6. /\ OldLines(i) \in Seq(L)
      /\ i \in DOMAIN files => OldLines(i) = files[i].lines
      /\ i \notin DOMAIN files => OldLines(i) = <<>>
  BY <1>2, <1>4 DEF OldLines
<1>7. n \in Nat /\ DOMAIN OldLines(i) = 1..n /\ Len(new) \in Nat
  BY <1>1, <1>6
<1>8. /\ Len(files'[i].lines) = n + Len(new)
      /\ \A k \in 1..n : files'[i].lines[k] = OldLines(i)[k]
      /\ \A k \in 1..Len(new) : files'[i].lines[n + k] = new[k]
  BY <1>1, <1>3, <1>6, <1>7, Concat
<1> HIDE DEF n, L
<1>9. ASSUME NEW j \in DOMAIN files, NEW m \in DOMAIN files[j].lines
      PROVE  /\ j \in DOMAIN files' /\ m \in DOMAIN files'[j].lines
             /\ files'[j].lines[m] = files[j].lines[m]
             /\ \A k \in Nat : k > n => PlaceUp(<<j, m>>, <<i, k>>)
  <2>1. j \in 1..i /\ j \in Nat /\ m \in 1..Len(files[j].lines) /\ m \in Nat /\ j \in 1..Len(files)
    <3>1. j \in 1..Len(files)
      BY <1>2
    <3>2. i \in Nat /\ Len(files) \in Nat /\ Len(files) <= i
      <4>1. Len(files) \in Nat
        BY <1>2
      <4> QED BY <1>1, <4>1
    <3>3. m \in 1..Len(files[j].lines) /\ Len(files[j].lines) \in Nat
      BY <1>4, <3>1
    <3> QED BY <3>1, <3>2, <3>3
  <2>2. CASE j # i
    <3>1. files'[j] = files[j]
      BY <1>2, <1>3, <2>1, <2>2
    <3>2. j < i
      BY <1>1, <2>1, <2>2
    <3> QED BY <1>2, <1>5, <2>1, <3>1, <3>2 DEF PlaceUp
  <2>3. CASE j = i
    <3>1. OldLines(i) = files[j].lines /\ n = Len(files[j].lines)
      BY <1>6, <2>3 DEF n
    <3>2. m \in 1..n /\ m \in 1..Len(files'[i].lines)
      BY <1>7, <1>8, <2>1, <3>1
    <3>3. m \in DOMAIN files'[j].lines /\ files'[j].lines[m] = files[j].lines[m]
      BY <1>5, <1>8, <2>1, <2>3, <3>1, <3>2
    <3>4. \A k \in Nat : k > n => PlaceUp(<<j, m>>, <<i, k>>)
      BY <1>7, <2>3, <3>2 DEF PlaceUp
    <3> QED BY <1>2, <2>1, <3>3, <3>4
  <2> QED BY <2>2, <2>3
<1>10. ASSUME NEW j \in DOMAIN files', NEW m \in DOMAIN files'[j].lines
       PROVE  /\ j \in Nat /\ m \in Nat
              /\ \/ j \in DOMAIN files /\ m \in DOMAIN files[j].lines
                 \/ /\ j = i /\ m > n /\ m - n \in 1..Len(new)
                    /\ files'[j].lines[m] = new[m - n]
  <2>1. j \in 1..i /\ j \in Nat /\ m \in 1..Len(files'[j].lines) /\ m \in Nat
    BY <1>2, <1>5
  <2>2. CASE j # i
    BY <1>3, <2>1, <2>2
  <2>3. CASE j = i /\ m > n
    <3>1. m - n \in 1..Len(new) /\ n + (m - n) = m
      BY <1>7, <1>8, <2>1, <2>3
    <3> QED BY <1>8, <2>1, <2>3, <3>1
  <2>4. CASE j = i /\ ~(m > n)
    <3>1. m \in 1..n
      BY <1>7, <2>1, <2>4
    <3>2. i \in DOMAIN files
      BY <1>6, <1>7, <3>1 DEF n
    <3> QED BY <1>6, <1>7, <2>1, <2>4, <3>1, <3>2
  <2> QED BY <2>2, <2>3, <2>4
<1>11. ASSUME NEW k \in 1..Len(new)
       PROVE  n + k \in DOMAIN files'[i].lines /\ files'[i].lines[n + k] = new[k]
  <2>1. n + k \in 1..Len(files'[i].lines)
    BY <1>7, <1>8
  <2> QED BY <1>1, <1>5, <1>8, <2>1
<1>12. i \in DOMAIN files'
  <2>1. i \in 1..i
    BY <1>1
  <2> QED BY <1>2, <2>1
<1> QED BY <1>1, <1>7, <1>9, <1>10, <1>11, <1>12 DEF n

\* Lines s + 1 to t of the call under way join the log after all that come before.
LEMMA PutsOrdered ==
    ASSUME TypeInv, row \in Rows, call \in Nat, Ordered,
           \A j \in DOMAIN files : \A m \in DOMAIN files[j].lines : files[j].lines[m] \in Event,
           NEW s \in Nat, NEW t \in Nat, s <= t,
           \A e \in Event : Before(e, <<row, call, s + 1>>) => Logged(e),
           NEW i, NEW new, Puts(i, new), Len(new) = t - s,
           \A k \in 1..(t - s) : new[k] = <<row, call, s + k>> /\ new[k] \in Event
    PROVE  /\ Ordered'
           /\ \A j \in DOMAIN files' : \A m \in DOMAIN files'[j].lines : files'[j].lines[m] \in Event
           /\ \A e \in Event : Logged(e) => Logged(e)'
           /\ \A e \in Event : Before(e, <<row, call, t + 1>>) => Logged(e)'
<1> DEFINE n == Len(OldLines(i))
<1>1. files \in Seq(File) /\ row \in Nat
  BY CallsType DEF TypeInv, TypeOK
<1>2. n \in Nat /\ i \in Nat \ {0} /\ i \in DOMAIN files'
  BY <1>1, PutsPlaces
<1>3. \A j \in DOMAIN files : \A m \in DOMAIN files[j].lines :
         /\ j \in DOMAIN files' /\ m \in DOMAIN files'[j].lines
         /\ files'[j].lines[m] = files[j].lines[m]
         /\ \A k \in Nat : k > n => PlaceUp(<<j, m>>, <<i, k>>)
  BY <1>1, PutsPlaces
<1>4. \A j \in DOMAIN files' : \A m \in DOMAIN files'[j].lines :
         /\ j \in Nat /\ m \in Nat
         /\ \/ j \in DOMAIN files /\ m \in DOMAIN files[j].lines
            \/ /\ j = i /\ m > n /\ m - n \in 1..(t - s) /\ files'[j].lines[m] = new[m - n]
  BY <1>1, PutsPlaces
<1>5. \A k \in 1..(t - s) : n + k \in DOMAIN files'[i].lines /\ files'[i].lines[n + k] = new[k]
  BY <1>1, PutsPlaces
<1> HIDE DEF n
<1>6. \A e \in Event : Logged(e) => Logged(e)'
  <2> SUFFICES ASSUME NEW e \in Event, Logged(e) PROVE Logged(e)'
    OBVIOUS
  <2>1. PICK j \in DOMAIN files : \E m \in DOMAIN files[j].lines : files[j].lines[m] = e
    BY DEF Logged
  <2>2. PICK m \in DOMAIN files[j].lines : files[j].lines[m] = e
    BY <2>1
  <2>3. j \in DOMAIN files' /\ m \in DOMAIN files'[j].lines /\ files'[j].lines[m] = e
    BY <1>3, <2>2
  <2> QED BY <2>3 DEF Logged
<1>7. \A j \in DOMAIN files' : \A m \in DOMAIN files'[j].lines : files'[j].lines[m] \in Event
  BY <1>3, <1>4
<1>8. ASSUME NEW e \in Event, NEW k \in Nat, Before(e, <<row, call, k + 1>>), s <= k, k <= t
      PROVE  \/ Logged(e)
             \/ \E h \in 1..(t - s) : s + h <= k /\ e = new[h]
  <2>1. e \in Nat \X Nat \X Nat /\ e = <<e[1], e[2], e[3]>> /\ e[3] \in Nat
    BY EventType
  <2>2. CASE Before(e, <<row, call, s + 1>>)
    BY <2>2
  <2>3. CASE ~Before(e, <<row, call, s + 1>>)
    <3>1. e[1] = row /\ e[2] = call /\ e[3] < k + 1 /\ ~(e[3] < s + 1)
      BY <1>8, <2>3 DEF Before
    <3>2. e[3] - s \in 1..(t - s) /\ s + (e[3] - s) = e[3] /\ e[3] <= k
      BY <1>8, <2>1, <3>1
    <3>3. new[e[3] - s] = <<row, call, s + (e[3] - s)>>
      BY <3>2
    <3>4. new[e[3] - s] = e
      BY <2>1, <3>1, <3>2, <3>3
    <3> QED BY <3>2, <3>4
  <2> QED BY <2>2, <2>3
<1>9. ASSUME NEW e \in Event, Before(e, <<row, call, t + 1>>) PROVE Logged(e)'
  <2>1. CASE Logged(e)
    BY <1>6, <2>1
  <2>2. CASE \E h \in 1..(t - s) : e = new[h]
    <3>1. PICK h \in 1..(t - s) : e = new[h]
      BY <2>2
    <3>2. n + h \in DOMAIN files'[i].lines /\ files'[i].lines[n + h] = e
      BY <1>5, <3>1
    <3> QED BY <1>2, <3>2 DEF Logged
  <2> QED BY <1>8, <1>9, <2>1, <2>2
<1>10. ASSUME NEW j \in DOMAIN files', NEW m \in DOMAIN files'[j].lines,
              NEW e \in Event, Before(e, files'[j].lines[m])
       PROVE  \E a \in DOMAIN files' : \E b \in DOMAIN files'[a].lines :
                 PlaceUp(<<a, b>>, <<j, m>>) /\ files'[a].lines[b] = e
  <2>1. CASE j \in DOMAIN files /\ m \in DOMAIN files[j].lines
    <3>1. Before(e, files[j].lines[m])
      BY <1>3, <1>10, <2>1
    <3>2. PICK a \in DOMAIN files : \E b \in DOMAIN files[a].lines :
                 PlaceUp(<<a, b>>, <<j, m>>) /\ files[a].lines[b] = e
      BY <2>1, <3>1 DEF Ordered
    <3>3. PICK b \in DOMAIN files[a].lines : PlaceUp(<<a, b>>, <<j, m>>) /\ files[a].lines[b] = e
      BY <3>2
    <3>4. a \in DOMAIN files' /\ b \in DOMAIN files'[a].lines /\ files'[a].lines[b] = e
      BY <1>3, <3>3
    <3> QED BY <3>3, <3>4
  <2>2. CASE j = i /\ m > n /\ m - n \in 1..(t - s) /\ files'[j].lines[m] = new[m - n]
    <3> DEFINE k == s + (m - n) - 1
    <3>1. m \in Nat
      BY <1>4
    <3>2. k \in Nat /\ s <= k /\ k <= t /\ k + 1 = s + (m - n)
      BY <1>2, <2>2, <3>1
    <3>3. Before(e, <<row, call, k + 1>>)
      BY <1>10, <2>2, <3>2
    <3> HIDE DEF k
    <3>4. CASE Logged(e)
      <4>1. PICK a \in DOMAIN files : \E b \in DOMAIN files[a].lines : files[a].lines[b] = e
        BY <3>4 DEF Logged
      <4>2. PICK b \in DOMAIN files[a].lines : files[a].lines[b] = e
        BY <4>1
      <4>3. /\ a \in DOMAIN files' /\ b \in DOMAIN files'[a].lines /\ files'[a].lines[b] = e
            /\ PlaceUp(<<a, b>>, <<j, m>>)
        BY <1>3, <2>2, <3>1, <4>2
      <4> QED BY <4>3
    <3>5. CASE \E h \in 1..(t - s) : s + h <= k /\ e = new[h]
      <4>1. PICK h \in 1..(t - s) : s + h <= k /\ e = new[h]
        BY <3>5
      <4>2. n + h \in DOMAIN files'[i].lines /\ files'[i].lines[n + h] = e
        BY <1>5, <4>1
      <4>3. n + h \in Nat /\ n + h < m
        BY <1>2, <3>1, <3>2, <4>1
      <4>4. PlaceUp(<<i, n + h>>, <<j, m>>)
        BY <1>2, <2>2, <4>3 DEF PlaceUp
      <4> QED BY <1>2, <4>2, <4>4
    <3> QED BY <1>8, <3>2, <3>3, <3>4, <3>5
  <2> QED BY <1>4, <2>1, <2>2
<1>11. Ordered'
  BY <1>10 DEF Ordered
<1> QED BY <1>6, <1>7, <1>9, <1>11

\* A part of a call of write().
LEMMA WriteSomeWritten ==
    ASSUME TypeInv, WrittenInv, WriteSome
    PROVE  WrittenInv'
<1>1. PICK i \in Nat \ {0}, n \in 0..Len(Lines) :
         /\ Puts(i, SubSeq(Lines, 1, n)) /\ wIndex' = i /\ part' = n
  BY WriteSomePuts
<1>2. /\ wpc = "write" /\ wpc' = "rest" /\ row \in Rows /\ UNCHANGED <<row, call, saved>>
      /\ part = 0 /\ call \in DOMAIN Writes[row]
  BY DEF WriteSome, TypeInv, WriterInv
<1>3. /\ Lines \in Seq(Event) /\ Len(Lines) \in Nat
      /\ \A k \in 1..Len(Lines) : Lines[k] = <<row, call, k>>
  BY <1>2, LinesType
<1>4. call \in Nat /\ files \in Seq(File)
  BY DEF TypeInv, TypeOK
<1> DEFINE new == SubSeq(Lines, 1, n)
<1>5. n \in Nat /\ Len(new) = n - 0 /\ \A k \in 1..(n - 0) : new[k] = <<row, call, 0 + k>> /\ new[k] \in Event
  <2>1. n \in Nat /\ n <= Len(Lines)
    BY <1>3
  <2>2. Len(new) = n /\ \A k \in 1..n : new[k] = Lines[k]
    BY <1>3, <2>1
  <2>3. \A k \in 1..n : k \in 1..Len(Lines) /\ Lines[k] \in Event
    BY <1>3, <2>1
  <2> QED BY <1>3, <2>1, <2>2, <2>3
<1>6. /\ Ordered
      /\ \A j \in DOMAIN files : \A m \in DOMAIN files[j].lines : files[j].lines[m] \in Event
      /\ \A e \in Event : Before(e, <<row, call, 0 + 1>>) => Logged(e)
  BY <1>2 DEF WrittenInv
<1> HIDE DEF new
<1>7. /\ Ordered'
      /\ \A j \in DOMAIN files' : \A m \in DOMAIN files'[j].lines : files'[j].lines[m] \in Event
      /\ \A e \in Event : Logged(e) => Logged(e)'
      /\ \A e \in Event : Before(e, <<row, call, n + 1>>) => Logged(e)'
  <2>1. Puts(i, new) /\ 0 <= n /\ 0 \in Nat
    BY <1>1, <1>5 DEF new
  <2> QED BY <1>2, <1>4, <1>5, <1>6, <2>1, PutsOrdered
<1>8. ASSUME NEW j \in DOMAIN files', files'[j].cut PROVE wpc' = "rest" /\ j = wIndex'
  <2>1. CASE j # i
    <3>1. j \in DOMAIN files /\ files'[j] = files[j]
      BY <1>1, <2>1 DEF Puts
    <3> QED BY <1>2, <1>8, <3>1 DEF WrittenInv
  <2>2. CASE j = i
    BY <1>1, <1>2, <2>2
  <2> QED BY <2>1, <2>2
<1>9. (\A e \in Event : e[1] <= saved => Logged(e))'
  BY <1>2, <1>7 DEF WrittenInv
<1>10. (\A e \in Event : Before(e, <<row, call, part + 1>>) => Logged(e))'
  BY <1>1, <1>2, <1>7 DEF Before
<1> QED BY <1>2, <1>7, <1>8, <1>9, <1>10 DEF WrittenInv

\* The rest of a call of write().
LEMMA WriteRestWritten ==
    ASSUME TypeInv, WrittenInv, WriteRest
    PROVE  WrittenInv'
<1> DEFINE new == SubSeq(Lines, part + 1, Len(Lines))
<1>1. /\ row \in Rows /\ call \in DOMAIN Writes[row]
      /\ wIndex \in Nat \ {0} /\ wIndex = Len(files)
      /\ new \in Seq(Event) /\ part \in Nat /\ part <= Len(Lines) /\ Len(Lines) \in Nat
      /\ files[wIndex].cut => part < Len(Lines)
  BY WriteRestNew
<1>2. call \in Nat /\ files \in Seq(File) /\ row \in Nat /\ wpc = "rest"
  BY <1>1, CallsType DEF TypeInv, TypeOK, WriteRest
<1>3. /\ Puts(wIndex, new) /\ (files'[wIndex].cut => files[wIndex].cut /\ new = <<>>) /\ part' = 0
      /\ \/ call < Len(Writes[row]) /\ call' = call + 1 /\ wpc' = "write"
         \/ ~(call < Len(Writes[row])) /\ call' = call /\ wpc' = "save"
      /\ UNCHANGED <<row, saved>>
  <2>1. new \in Seq(Event \cup {Garbled}) /\ WriteTo(wIndex, files, new)
    BY <1>1 DEF WriteRest
  <2> QED BY <1>1, <1>2, <2>1, WriteToPuts
<1>4. /\ Lines \in Seq(Event) /\ Len(Lines) = Len(Writes[row][call])
      /\ \A k \in 1..Len(Lines) : Lines[k] = <<row, call, k>>
  BY <1>1, LinesType
<1> DEFINE t == Len(Lines)
<1>5. Len(new) = t - part /\ \A k \in 1..(t - part) : new[k] = <<row, call, part + k>> /\ new[k] \in Event
  <2>1. Len(new) = t - part /\ \A k \in 1..(t - part) : new[k] = Lines[k + part]
    BY <1>1, <1>4
  <2>2. \A k \in 1..(t - part) : k + part \in 1..t /\ k + part = part + k
    BY <1>1
  <2>3. \A k \in 1..t : Lines[k] \in Event
    BY <1>4
  <2> QED BY <1>4, <2>1, <2>2, <2>3
<1>6. /\ Ordered
      /\ \A j \in DOMAIN files : \A m \in DOMAIN files[j].lines : files[j].lines[m] \in Event
      /\ \A e \in Event : Before(e, <<row, call, part + 1>>) => Logged(e)
  BY <1>2 DEF WrittenInv
<1>b. ~files'[wIndex].cut
  <2>1. files[wIndex].cut => Len(new) > 0
    BY <1>1, <1>4, <1>5
  <2> HIDE DEF new
  <2>2. new = <<>> => Len(new) = 0
    OBVIOUS
  <2> QED BY <1>3, <2>1, <2>2
<1> HIDE DEF new, t
<1>7. /\ Ordered'
      /\ \A j \in DOMAIN files' : \A m \in DOMAIN files'[j].lines : files'[j].lines[m] \in Event
      /\ \A e \in Event : Logged(e) => Logged(e)'
      /\ \A e \in Event : Before(e, <<row, call, t + 1>>) => Logged(e)'
  <2>1. part <= t /\ t \in Nat
    BY <1>1 DEF t
  <2> QED BY <1>1, <1>2, <1>3, <1>5, <1>6, <2>1, PutsOrdered
<1>8. ASSUME NEW j \in DOMAIN files' PROVE ~files'[j].cut
  <2>1. CASE j # wIndex
    <3>1. j \in DOMAIN files /\ files'[j] = files[j]
      BY <1>3, <2>1 DEF Puts
    <3> QED BY <2>1, <3>1 DEF WrittenInv
  <2>2. CASE j = wIndex
    BY <1>b, <2>2
  <2> QED BY <2>1, <2>2
<1>9. (\A e \in Event : e[1] <= saved => Logged(e))'
  BY <1>3, <1>7 DEF WrittenInv
<1>10. ASSUME NEW e \in Event, e[1] < row \/ (e[1] = row /\ e[2] <= call) PROVE Logged(e)'
  <2>1. /\ e \in Nat \X Nat \X Nat /\ e[3] \in DOMAIN Writes[e[1]][e[2]]
    BY EventType
  <2>2. CASE e[1] = row /\ e[2] = call
    <3>1. e[3] \in 1..t /\ t \in Nat
      <4>1. Writes[row][call] \in Seq(Address \cup {Block})
        <5>1. Writes \in Seq(Seq(Seq(Address \cup {Block})))
          BY NotifyAssumption
        <5>2. Writes[row] \in Seq(Seq(Address \cup {Block}))
          BY <1>1, <5>1 DEF Rows
        <5> QED BY <1>1, <5>2
      <4> QED BY <1>1, <1>4, <2>1, <2>2, <4>1 DEF t
    <3>2. e[3] < t + 1
      BY <3>1
    <3> QED BY <1>7, <2>2, <3>2 DEF Before
  <2>3. CASE e[1] < row \/ (e[1] = row /\ e[2] < call)
    BY <1>7, <2>3 DEF Before
  <2> QED BY <1>2, <1>10, <2>1, <2>2, <2>3
<1>11. (\A e \in Event : Before(e, <<row, call, part + 1>>) => Logged(e))'
  <2> SUFFICES ASSUME NEW e \in Event, Before(e, <<row', call', part' + 1>>) PROVE Logged(e)'
    BY DEF Before
  <2>1. e \in Nat \X Nat \X Nat /\ e[3] >= 1
    BY EventType
  <2>2. e[1] < row \/ (e[1] = row /\ e[2] <= call)
    BY <1>2, <1>3, <2>1 DEF Before
  <2> QED BY <1>10, <2>2
<1>12. (wpc = "save" => \A e \in Event : e[1] <= row => Logged(e))'
  <2> SUFFICES ASSUME wpc' = "save", NEW e \in Event, e[1] <= row PROVE Logged(e)'
    BY <1>3
  <2>1. e \in Nat \X Nat \X Nat /\ e[2] \in DOMAIN Writes[e[1]]
    BY EventType
  <2>2. DOMAIN Writes[row] = 1..Len(Writes[row]) /\ Len(Writes[row]) \in Nat /\ ~(call < Len(Writes[row]))
    BY <1>1, <1>3, CallsType
  <2>3. e[1] < row \/ (e[1] = row /\ e[2] <= call)
    BY <1>2, <2>1, <2>2
  <2> QED BY <1>10, <2>3
<1> QED BY <1>7, <1>8, <1>9, <1>11, <1>12 DEF WrittenInv

\* The id of the row is saved.
LEMMA SaveIdWritten ==
    ASSUME TypeInv, WrittenInv, SaveId
    PROVE  WrittenInv'
<1>1. /\ row \in Rows /\ wpc' = "write" /\ row' = row + 1 /\ call' = 1 /\ saved' = row
      /\ wpc = "save" /\ UNCHANGED <<part, files>> /\ part = 0
  BY DEF TypeInv, WriterInv, SaveId
<1>2. row \in Nat
  BY <1>1, CallsType
<1>3. \A e \in Event : e[1] <= row => Logged(e)'
  BY <1>1 DEF WrittenInv, Logged
<1>4. Ordered'
  BY <1>1 DEF WrittenInv, Ordered
<1>5. ASSUME NEW e \in Event, Before(e, <<row + 1, 1, 1>>) PROVE e[1] <= row
  <2>1. e \in Nat \X Nat \X Nat /\ e[2] >= 1 /\ e[3] >= 1
    BY EventType
  <2> QED BY <1>2, <1>5, <2>1 DEF Before
<1>6. (\A e \in Event : Before(e, <<row, call, part + 1>>) => Logged(e))'
  BY <1>1, <1>3, <1>5 DEF Before
<1>7. (\A e \in Event : e[1] <= saved => Logged(e))'
  BY <1>1, <1>3
<1>8. \A i \in DOMAIN files' : ~files'[i].cut /\ \A k \in DOMAIN files'[i].lines : files'[i].lines[k] \in Event
  BY <1>1 DEF WrittenInv
<1> QED BY <1>1, <1>4, <1>6, <1>7, <1>8 DEF WrittenInv

\* tparser killed between two lines leaves whole lines behind.
LEMMA KillParserWritten ==
    ASSUME TypeInv, WrittenInv, KillParser, ~(wpc = "rest" /\ files[wIndex].cut)
    PROVE  WrittenInv'
<1>1. wpc' = "down" /\ UNCHANGED <<saved, files>>
  BY DEF KillParser
<1>2. Ordered'
  BY <1>1 DEF WrittenInv, Ordered
<1>3. (\A e \in Event : e[1] <= saved => Logged(e))'
  BY <1>1 DEF WrittenInv, Logged
<1>4. \A i \in DOMAIN files' : ~files'[i].cut /\ \A k \in DOMAIN files'[i].lines : files'[i].lines[k] \in Event
  BY <1>1 DEF WrittenInv
<1> QED BY <1>1, <1>2, <1>3, <1>4 DEF WrittenInv

\* A start of tparser.
LEMMA StartParserWritten ==
    ASSUME TypeInv, WrittenInv, StartParser
    PROVE  WrittenInv'
<1>1. /\ wpc = "down" /\ wpc' = "write" /\ row' = saved + 1 /\ call' = 1 /\ part' = 0
      /\ UNCHANGED <<saved, files>>
  BY DEF StartParser, TypeInv, WriterInv
<1>2. saved \in Nat
  BY CallsType DEF TypeInv, TypeOK
<1>3. Ordered'
  <2>1. Ordered /\ files' = files
    BY <1>1 DEF WrittenInv
  <2> QED BY <2>1 DEF Ordered, PlaceUp, Before
<1>4. \A e \in Event : e[1] <= saved => Logged(e)'
  BY <1>1 DEF WrittenInv, Logged
<1>5. ASSUME NEW e \in Event, Before(e, <<saved + 1, 1, 1>>) PROVE e[1] <= saved
  <2>1. e \in Nat \X Nat \X Nat /\ e[2] >= 1 /\ e[3] >= 1
    BY EventType
  <2> QED BY <1>2, <1>5, <2>1 DEF Before
<1>6. (\A e \in Event : Before(e, <<row, call, part + 1>>) => Logged(e))'
  BY <1>1, <1>4, <1>5 DEF Before
<1>7. (\A e \in Event : e[1] <= saved => Logged(e))'
  BY <1>1, <1>4
<1>8. \A i \in DOMAIN files' : ~files'[i].cut /\ \A k \in DOMAIN files'[i].lines : files'[i].lines[k] \in Event
  BY <1>1 DEF WrittenInv
<1> QED BY <1>1, <1>3, <1>6, <1>7, <1>8 DEF WrittenInv

\* While tparser stands still.
LEMMA WrittenKept ==
    ASSUME WrittenInv, UNCHANGED writerVars
    PROVE  WrittenInv'
<1>1. UNCHANGED <<wpc, row, call, part, saved, wIndex, files>>
  BY DEF writerVars
<1>2. Ordered'
  BY <1>1 DEF WrittenInv, Ordered
<1>3. \A e \in Event : Logged(e) => Logged(e)'
  BY <1>1 DEF Logged
<1>4. \A e \in Event : Before(e, <<row, call, part + 1>>)' => Before(e, <<row, call, part + 1>>)
  BY <1>1 DEF Before
<1>5. (\A e \in Event : e[1] <= saved => Logged(e))'
  BY <1>1, <1>3 DEF WrittenInv
<1>6. (wpc # "down" => \A e \in Event : Before(e, <<row, call, part + 1>>) => Logged(e))'
  BY <1>1, <1>3, <1>4 DEF WrittenInv
<1>7. (wpc = "save" => \A e \in Event : e[1] <= row => Logged(e))'
  BY <1>1, <1>3 DEF WrittenInv
<1>8. (\A i \in DOMAIN files :
          /\ files[i].cut => wpc = "rest" /\ i = wIndex
          /\ \A k \in DOMAIN files[i].lines : files[i].lines[k] \in Event)'
  BY <1>1 DEF WrittenInv
<1> QED BY <1>2, <1>5, <1>6, <1>7, <1>8 DEF WrittenInv

\* A place of the log stays one, with the same line.
LEMMA GrowLog ==
    ASSUME TypeInv, files' \in Seq(File), FilesGrow, NEW q, InLog(q)
    PROVE  /\ q[1] \in DOMAIN files' /\ q[2] \in DOMAIN files'[q[1]].lines
           /\ files'[q[1]].lines[q[2]] = files[q[1]].lines[q[2]]
<1>1. files \in Seq(File)
  BY DEF TypeInv, TypeOK
<1> DEFINE i == q[1]
<1>2. i \in 1..Len(files) /\ Len(files) \in Nat /\ Len(files') \in Nat /\ Len(files) <= Len(files')
  BY <1>1, FilesType DEF InLog, FilesGrow
<1>3. i \in DOMAIN files /\ q[2] \in DOMAIN files[i].lines
  BY DEF InLog
<1>4. /\ Len(files[i].lines) <= Len(files'[i].lines)
      /\ \A k \in DOMAIN files[i].lines : files'[i].lines[k] = files[i].lines[k]
  BY <1>3 DEF FilesGrow
<1> HIDE DEF i
<1>5. i \in 1..Len(files')
  BY <1>2
<1>6. /\ DOMAIN files[i].lines = 1..Len(files[i].lines) /\ Len(files[i].lines) \in Nat
      /\ DOMAIN files'[i].lines = 1..Len(files'[i].lines) /\ Len(files'[i].lines) \in Nat
      /\ i \in DOMAIN files'
  BY <1>1, <1>2, <1>5, FilesType
<1> QED BY <1>3, <1>4, <1>6 DEF i

\* Up to a position inside the files, there are no new lines.
LEMMA OldPlaces ==
    ASSUME TypeInv, files' \in Seq(File), FilesGrow,
           NEW q1 \in Nat, NEW q2 \in Int,
           (q1 = 1 /\ q2 = 0) \/ (q1 \in DOMAIN files /\ q2 <= Len(files[q1].lines)),
           NEW i \in DOMAIN files', NEW k \in DOMAIN files'[i].lines, AtOrUp(<<i, k>>, <<q1, q2>>)
    PROVE  /\ i \in DOMAIN files /\ k \in DOMAIN files[i].lines
           /\ files'[i].lines[k] = files[i].lines[k]
<1>1. files \in Seq(File)
  BY DEF TypeInv, TypeOK
<1>2. i \in Nat \ {0} /\ k \in Nat \ {0}
  <2>1. i \in 1..Len(files') /\ Len(files') \in Nat
    BY FilesType
  <2>2. k \in 1..Len(files'[i].lines) /\ Len(files'[i].lines) \in Nat
    BY <2>1, FilesType
  <2> QED BY <2>1, <2>2
<1>3. i < q1 \/ (i = q1 /\ k <= q2)
  BY <1>2 DEF AtOrUp, PlaceUp
<1>4. q1 \in 1..Len(files) /\ q2 <= Len(files[q1].lines) /\ Len(files) \in Nat
  <2>1. ~(q1 = 1 /\ q2 = 0)
    BY <1>2, <1>3
  <2> QED BY <1>1, <2>1, FilesType
<1>5. i \in 1..Len(files)
  BY <1>2, <1>3, <1>4
<1>6. /\ DOMAIN files = 1..Len(files)
      /\ DOMAIN files[i].lines = 1..Len(files[i].lines) /\ Len(files[i].lines) \in Nat
  BY <1>1, <1>5, FilesType
<1>7. k \in DOMAIN files[i].lines
  <2>1. CASE i < q1
    <3>1. i \in 1..(Len(files) - 1)
      BY <1>2, <1>4, <2>1
    <3>2. files'[i] = files[i]
      BY <3>1 DEF FilesGrow
    <3> QED BY <3>2
  <2>2. CASE i = q1 /\ k <= q2
    BY <1>2, <1>4, <1>6, <2>2
  <2> QED BY <1>3, <2>1, <2>2
<1>8. i \in DOMAIN files
  BY <1>5, <1>6
<1> QED BY <1>7, <1>8 DEF FilesGrow

\* Files that grow behind a place leave everyone told up to it.
LEMMA ToldGrow ==
    ASSUME TypeInv, files' \in Seq(File), FilesGrow, inbox' = inbox,
           NEW q1 \in Nat, NEW q2 \in Int,
           (q1 = 1 /\ q2 = 0) \/ (q1 \in DOMAIN files /\ q2 <= Len(files[q1].lines)),
           NEW a, Told(a, <<q1, q2>>)
    PROVE  Told(a, <<q1, q2>>)'
<1> SUFFICES ASSUME NEW i \in DOMAIN files', NEW k \in DOMAIN files'[i].lines,
                    AtOrUp(<<i, k>>, <<q1, q2>>), files'[i].lines[k] \in Due(a)
             PROVE  \E n \in DOMAIN inbox[a] : inbox[a][n] = <<i, k>>
  BY DEF Told, AtOrUp, PlaceUp, Due
<1>1. /\ i \in DOMAIN files /\ k \in DOMAIN files[i].lines
      /\ files'[i].lines[k] = files[i].lines[k]
  BY OldPlaces
<1> QED BY <1>1 DEF Told

\* What tnotify has told stays told while tparser writes on.
LEMMA SkipGrow ==
    ASSUME TypeInv, InOrder, ToldInv, FromLog,
           files' \in Seq(File), FilesGrow, UNCHANGED readerVars
    PROVE  InOrder' /\ ToldInv' /\ FromLog'
<1>1. UNCHANGED <<rpc, rIndex, rOffset, todo, status, inbox>>
  BY DEF readerVars
<1>2. inbox \in [App -> Seq(Place)] /\ AppsOf(Fixed) \subseteq App
  BY NotifyAssumption DEF TypeInv, TypeOK, AppsOf
<1>3. FromLog'
  <2> SUFFICES ASSUME NEW a \in App, NEW n \in DOMAIN inbox[a] PROVE InLog(inbox[a][n])'
    BY <1>1 DEF FromLog
  <2>1. InLog(inbox[a][n])
    BY DEF FromLog
  <2> QED BY <1>1, <2>1, GrowLog DEF InLog
<1>4. InOrder'
  <2>1. ASSUME NEW a \in AppsOf(Fixed), NEW n \in DOMAIN inbox[a]
        PROVE  LineAt(inbox[a][n])' = LineAt(inbox[a][n])
    <3>1. InLog(inbox[a][n])
      BY <1>2 DEF FromLog
    <3> QED BY <1>1, <3>1, GrowLog DEF LineAt
  <2> SUFFICES ASSUME NEW a \in AppsOf(Fixed), NEW i \in DOMAIN inbox[a], NEW e \in Due(a),
                      Before(e, LineAt(inbox[a][i]))
               PROVE  \E j \in 1..(i - 1) : LineAt(inbox[a][j])' = e
    BY <1>1, <2>1 DEF InOrder, Due
  <2>2. PICK j \in 1..(i - 1) : LineAt(inbox[a][j]) = e
    BY DEF InOrder
  <2>3. j \in DOMAIN inbox[a]
    <3>1. inbox[a] \in Seq(Place)
      BY <1>2
    <3> QED BY <3>1
  <2> QED BY <2>1, <2>2, <2>3
<1>5. ToldInv'
  <2> SUFFICES ASSUME NEW a \in AppsOf(Fixed)
               PROVE  (/\ Told(a, status)
                       /\ rpc \notin {"down", "deliver"} => Told(a, <<rIndex, rOffset>>)
                       /\ rpc = "deliver" => /\ Told(a, <<rIndex, rOffset - 1>>)
                                             /\ a \notin todo => Told(a, <<rIndex, rOffset>>))'
    BY DEF ToldInv
  <2>1. /\ rIndex \in Nat /\ rOffset \in Nat /\ status \in Place
        /\ InFile(<<rIndex, rOffset>>) /\ InFile(status)
        /\ rpc = "deliver" => rIndex \in DOMAIN files /\ rOffset <= Len(files[rIndex].lines)
    <3>1. rpc = "deliver" => rIndex \in DOMAIN files /\ rOffset + lines <= Len(files[rIndex].lines)
      BY ReaderNumbers DEF ReaderInv
    <3>2. rIndex \in DOMAIN files => Len(files[rIndex].lines) \in Nat
      BY ReaderNumbers
    <3>3. rOffset \in Nat /\ lines \in Nat
      BY ReaderNumbers
    <3> QED BY <3>1, <3>2, <3>3, ReaderNumbers DEF ReaderInv, ReaderType
  <2>2. ASSUME NEW q1 \in Nat, NEW q2 \in Int, Told(a, <<q1, q2>>),
               (q1 = 1 /\ q2 = 0) \/ (q1 \in DOMAIN files /\ q2 <= Len(files[q1].lines))
        PROVE  Told(a, <<q1, q2>>)'
    BY <1>1, <2>2, ToldGrow
  <2>3. Told(a, status)'
    <3>1. PICK q1 \in Nat, q2 \in Nat : status = <<q1, q2>>
      BY <2>1 DEF Place
    <3>2. (q1 = 1 /\ q2 = 0) \/ (q1 \in DOMAIN files /\ q2 <= Len(files[q1].lines))
      BY <2>1, <3>1 DEF InFile
    <3>3. Told(a, <<q1, q2>>)
      BY <3>1 DEF ToldInv
    <3>4. Told(a, <<q1, q2>>)'
      BY <2>2, <3>2, <3>3
    <3>5. status' = <<q1, q2>>
      BY <1>1, <3>1
    <3> QED BY <3>4, <3>5 DEF Told
  <2>4. PICK q1 \in Nat, q2 \in Nat : rIndex = q1 /\ rOffset = q2
    BY <2>1
  <2>5. (q1 = 1 /\ q2 = 0) \/ (q1 \in DOMAIN files /\ q2 <= Len(files[q1].lines))
    BY <2>1, <2>4 DEF InFile
  <2>6. Told(a, <<rIndex, rOffset>>) => Told(a, <<rIndex, rOffset>>)'
    <3>1. Told(a, <<q1, q2>>) => Told(a, <<q1, q2>>)'
      BY <2>2, <2>5
    <3> QED BY <1>1, <2>4, <3>1 DEF Told
  <2>7. rpc = "deliver" /\ Told(a, <<rIndex, rOffset - 1>>) => Told(a, <<rIndex, rOffset - 1>>)'
    <3>1. SUFFICES ASSUME rpc = "deliver", Told(a, <<rIndex, rOffset - 1>>)
                   PROVE  Told(a, <<rIndex, rOffset - 1>>)'
      OBVIOUS
    <3>2. q1 \in DOMAIN files /\ q2 <= Len(files[q1].lines) /\ Len(files[q1].lines) \in Nat
      BY <2>1, <2>4, <3>1, ReaderNumbers
    <3>3. q2 - 1 \in Int /\ q2 - 1 <= Len(files[q1].lines)
      BY <3>2
    <3>4. Told(a, <<q1, q2 - 1>>)
      BY <2>4, <3>1
    <3>5. Told(a, <<q1, q2 - 1>>)'
      BY <2>2, <3>2, <3>3, <3>4
    <3> QED BY <1>1, <2>4, <3>5 DEF Told
  <2> QED BY <1>1, <2>3, <2>6, <2>7 DEF ToldInv
<1> QED BY <1>3, <1>4, <1>5

\* Steps of tnotify that put nothing into a table.
LEMMA SkipKept ==
    ASSUME InOrder, FromLog, UNCHANGED <<files, inbox>>
    PROVE  InOrder' /\ FromLog'
<1>1. InOrder'
  <2>1. \A a, n : LineAt(inbox[a][n])' = LineAt(inbox[a][n])
    BY DEF LineAt
  <2> SUFFICES ASSUME NEW a \in AppsOf(Fixed), NEW i \in DOMAIN inbox[a], NEW e \in Due(a),
                      Before(e, LineAt(inbox[a][i]))
               PROVE  \E j \in 1..(i - 1) : LineAt(inbox[a][j])' = e
    BY <2>1 DEF InOrder, Due
  <2> QED BY <2>1 DEF InOrder
<1>2. FromLog'
  BY DEF FromLog, InLog
<1> QED BY <1>1, <1>2

\* Told depends on the files and the tables only.
LEMMA ToldKept ==
    ASSUME UNCHANGED <<files, inbox>>, NEW a, NEW q, Told(a, q)
    PROVE  Told(a, q)'
BY DEF Told, AtOrUp, PlaceUp, Due

\* Where a step leaves tnotify's position between two lines.
LEMMA ToldMove ==
    ASSUME ToldInv, UNCHANGED <<files, inbox>>, rpc' # "deliver",
           NEW s, NEW q, s = status', q = <<rIndex', rOffset'>>,
           \A a \in AppsOf(Fixed) : Told(a, s) /\ (rpc' # "down" => Told(a, q))
    PROVE  ToldInv'
<1>1. ASSUME NEW a \in AppsOf(Fixed) PROVE Told(a, status)' /\ (rpc' # "down" => Told(a, <<rIndex, rOffset>>)')
  <2>1. Told(a, s)' /\ (rpc' # "down" => Told(a, q)')
    BY ToldKept
  <2> QED BY <2>1 DEF Told
<1> QED BY <1>1 DEF ToldInv

\* A file that is left for the next one has been told to its end.
LEMMA SwitchSkip ==
    ASSUME TypeInv, ToldInv, SwitchOrWait
    PROVE  ToldInv'
<1>1. /\ rpc = "nothing" /\ rpc' = "check"
      /\ \/ isNew /\ rIndex' = rIndex + 1 /\ rOffset' = 0
         \/ UNCHANGED <<rIndex, rOffset>>
      /\ UNCHANGED <<status, inbox, files>>
  BY DEF SwitchOrWait, NewSeen, NextFile, writerVars
<1>2. \A a \in AppsOf(Fixed) : Told(a, status) /\ Told(a, <<rIndex, rOffset>>)
  BY <1>1 DEF ToldInv
<1>3. ASSUME NEW a \in AppsOf(Fixed) PROVE Told(a, <<rIndex', rOffset'>>)
  <2>1. CASE UNCHANGED <<rIndex, rOffset>>
    BY <1>2, <2>1
  <2>2. CASE isNew /\ rIndex' = rIndex + 1 /\ rOffset' = 0
    <3>1. rOffset = Len(files[rIndex].lines) /\ rIndex \in Nat /\ rOffset \in Nat
      BY <1>1, <2>2, ReaderNumbers DEF ReaderInv
    <3>2. ASSUME NEW i \in DOMAIN files, NEW k \in DOMAIN files[i].lines,
                 AtOrUp(<<i, k>>, <<rIndex + 1, 0>>)
          PROVE  AtOrUp(<<i, k>>, <<rIndex, rOffset>>)
      <4>1. files \in Seq(File)
        BY DEF TypeInv, TypeOK
      <4>2. i \in 1..Len(files) /\ Len(files) \in Nat
        BY <4>1, FilesType
      <4>3. k \in 1..Len(files[i].lines) /\ Len(files[i].lines) \in Nat
        BY <4>1, <4>2, FilesType
      <4>4. i \in Nat /\ k \in Nat \ {0}
        BY <4>2, <4>3
      <4>5. i <= rIndex
        BY <3>1, <3>2, <4>4 DEF AtOrUp, PlaceUp
      <4>6. CASE i < rIndex
        BY <4>6 DEF AtOrUp, PlaceUp
      <4>7. CASE i = rIndex
        <5>1. k <= rOffset
          BY <3>1, <4>3, <4>7
        <5>2. k = rOffset \/ k < rOffset
          BY <3>1, <4>4, <5>1
        <5> QED BY <4>7, <5>2 DEF AtOrUp, PlaceUp
      <4> QED BY <3>1, <4>4, <4>5, <4>6, <4>7
    <3>3. Told(a, <<rIndex + 1, 0>>)
      BY <1>2, <3>2 DEF Told
    <3> QED BY <2>2, <3>3
  <2> QED BY <1>1, <2>1, <2>2
<1>4. PICK s, q : s = status' /\ q = <<rIndex', rOffset'>>
  OBVIOUS
<1>5. \A a \in AppsOf(Fixed) : Told(a, s) /\ Told(a, q)
  BY <1>1, <1>2, <1>3, <1>4
<1> QED BY <1>1, <1>4, <1>5, ToldMove

\* A line that does not go to an application is not for it.
LEMMA TakeSkip ==
    ASSUME TypeInv, ToldInv, Subscribed, TakeLine
    PROVE  ToldInv'
<1>1. /\ rpc = "line" /\ rpc' = "deliver" /\ rOffset' = rOffset + 1
      /\ UNCHANGED <<rIndex, status, inbox, files>>
      /\ todo' = Receivers(files[rIndex].lines[rOffset + 1])
  BY DEF TakeLine, writerVars
<1>2. \A a \in AppsOf(Fixed) : Told(a, status) /\ Told(a, <<rIndex, rOffset>>)
  BY <1>1 DEF ToldInv
<1>3. rIndex \in Nat /\ rOffset \in Nat
  BY ReaderNumbers
<1>4. ASSUME NEW a \in AppsOf(Fixed), a \notin todo' PROVE Told(a, <<rIndex, rOffset + 1>>)
  <2>1. files[rIndex].lines[rOffset + 1] \notin Due(a)
    <3> SUFFICES ASSUME files[rIndex].lines[rOffset + 1] \in Due(a) PROVE FALSE
      OBVIOUS
    <3> DEFINE l == files[rIndex].lines[rOffset + 1]
    <3>1. Fixed \subseteq subs /\ a \in appIds
      BY <1>1 DEF Subscribed
    <3>2. Dest(l) = Block \/ <<a, Dest(l)>> \in Fixed
      BY DEF Due
    <3>3. todo' = Receivers(l)
      BY <1>1
    <3> HIDE DEF l
    <3>4. CASE Dest(l) = Block
      BY <1>4, <3>1, <3>3, <3>4 DEF Receivers
    <3>5. CASE Dest(l) # Block
      <4>1. <<a, Dest(l)>> \in {s \in subs : s[2] = Dest(l)}
        BY <3>1, <3>2, <3>5
      <4>2. a \in {p[1] : p \in {s \in subs : s[2] = Dest(l)}}
        BY <4>1
      <4> QED BY <1>4, <3>3, <3>5, <4>2 DEF Receivers
    <3> QED BY <3>4, <3>5
  <2> SUFFICES ASSUME NEW i \in DOMAIN files, NEW k \in DOMAIN files[i].lines,
                      AtOrUp(<<i, k>>, <<rIndex, rOffset + 1>>), files[i].lines[k] \in Due(a)
               PROVE  \E n \in DOMAIN inbox[a] : inbox[a][n] = <<i, k>>
    BY DEF Told
  <2>2. i \in Nat /\ k \in Nat
    <3>1. files \in Seq(File)
      BY DEF TypeInv, TypeOK
    <3>2. i \in 1..Len(files) /\ Len(files) \in Nat
      BY <3>1, FilesType
    <3>3. k \in 1..Len(files[i].lines) /\ Len(files[i].lines) \in Nat
      BY <3>1, <3>2, FilesType
    <3> QED BY <3>2, <3>3
  <2>3. ~(i = rIndex /\ k = rOffset + 1)
    BY <2>1
  <2>4. AtOrUp(<<i, k>>, <<rIndex, rOffset>>)
    BY <1>3, <2>2, <2>3 DEF AtOrUp, PlaceUp
  <2> QED BY <1>2, <2>4 DEF Told
<1>5. ASSUME NEW a \in AppsOf(Fixed)
      PROVE  (/\ Told(a, status)
              /\ Told(a, <<rIndex, rOffset - 1>>)
              /\ a \notin todo => Told(a, <<rIndex, rOffset>>))'
  <2>1. PICK q0, q1, q2 : /\ q0 = status /\ q1 = <<rIndex, rOffset>>
                          /\ q2 = <<rIndex, rOffset + 1>>
    OBVIOUS
  <2>2. Told(a, q0)' /\ Told(a, q1)'
    BY <1>1, <1>2, <2>1, ToldKept
  <2>3. a \notin todo' => Told(a, q2)'
    BY <1>1, <1>4, <2>1, ToldKept
  <2>4. q0 = status' /\ q1 = <<rIndex', rOffset' - 1>> /\ q2 = <<rIndex', rOffset'>>
    BY <1>1, <1>3, <2>1
  <2>5. Told(a, status)' /\ Told(a, <<rIndex, rOffset - 1>>)'
    BY <2>2, <2>4 DEF Told
  <2>6. a \notin todo' => Told(a, <<rIndex, rOffset>>)'
    BY <2>3, <2>4 DEF Told
  <2> QED BY <2>5, <2>6
<1> QED BY <1>1, <1>5 DEF ToldInv

\* A row of an event table: all lines before its own have been told, and the
\* lines before its own include all earlier events.
LEMMA DeliverSkip ==
    ASSUME TypeInv, SkipInv, Deliver \/ DeliverTwice
    PROVE  InOrder' /\ ToldInv' /\ FromLog'
<1>1. /\ rpc = "deliver" /\ UNCHANGED <<rpc, rIndex, rOffset, status, files>>
      /\ \E b \in todo, w \in {1, 2} : Adds(b, w)
  BY DeliverAdds DEF writerVars
<1>2. PICK b \in todo, w \in {1, 2} : Adds(b, w)
  BY <1>1
<1>3. b \in App /\ inbox \in [App -> Seq(Place)] /\ AppsOf(Fixed) \subseteq App
  BY NotifyAssumption DEF TypeInv, TypeOK, AppsOf
<1>4. \A a \in App \ {b} : inbox'[a] = inbox[a]
  BY <1>2 DEF Adds
<1>5. inbox[b] \in Seq(Place) /\ inbox'[b] \in Seq(Place) /\ <<rIndex, rOffset>> \in Place
  BY <1>2, <1>3, PosType DEF Adds
<1> DEFINE z == Len(inbox[b])
<1>6. /\ z \in Nat /\ DOMAIN inbox[b] = 1..z /\ DOMAIN inbox'[b] = 1..(z + w)
      /\ \A n \in 1..w : inbox'[b][z + n] = <<rIndex, rOffset>>
      /\ \A n \in 1..z : inbox'[b][n] = inbox[b][n]
  <2>1. z \in Nat /\ DOMAIN inbox[b] = 1..z
    BY <1>5
  <2>2. /\ Len(inbox'[b]) = z + w
        /\ \A n \in 1..w : inbox'[b][z + n] = <<rIndex, rOffset>>
        /\ \A n \in 1..z : inbox'[b][n] = inbox[b][n]
    BY <1>2 DEF Adds
  <2>3. DOMAIN inbox'[b] = 1..(z + w)
    BY <1>5, <2>2
  <2> QED BY <2>1, <2>2, <2>3
<1> HIDE DEF z
<1>7. ASSUME NEW a \in App, NEW n \in DOMAIN inbox[a]
      PROVE  n \in DOMAIN inbox'[a] /\ inbox'[a][n] = inbox[a][n]
  <2>1. CASE a = b
    BY <1>6, <1>7, <2>1
  <2>2. CASE a # b
    BY <1>4, <1>7, <2>2
  <2> QED BY <2>1, <2>2
<1>8. ASSUME NEW a \in App, NEW n \in DOMAIN inbox'[a]
      PROVE  \/ n \in DOMAIN inbox[a] /\ inbox'[a][n] = inbox[a][n]
             \/ a = b /\ n \in (z + 1)..(z + w) /\ inbox'[a][n] = <<rIndex, rOffset>>
  <2>1. CASE a = b
    <3>1. n \in 1..z \/ (n \in (z + 1)..(z + w) /\ n - z \in 1..w /\ n = z + (n - z))
      BY <1>6, <1>8, <2>1
    <3> QED BY <1>6, <2>1, <3>1
  <2>2. CASE a # b
    BY <1>4, <1>8, <2>2
  <2> QED BY <2>1, <2>2
<1>9. InLog(<<rIndex, rOffset>>) /\ rIndex \in Nat /\ rOffset \in Nat /\ files \in Seq(File)
  <2>1. /\ rIndex \in DOMAIN files /\ rOffset > 0 /\ rOffset + lines <= Len(files[rIndex].lines)
        /\ rIndex \in Nat /\ rOffset \in Nat /\ lines \in Nat
    BY <1>1, ReaderNumbers DEF ReaderInv
  <2>2. files \in Seq(File)
    BY DEF TypeInv, TypeOK
  <2>3. rIndex \in 1..Len(files)
    BY <2>1, <2>2, FilesType
  <2>4. DOMAIN files[rIndex].lines = 1..Len(files[rIndex].lines) /\ Len(files[rIndex].lines) \in Nat
    BY <2>2, <2>3, FilesType
  <2>5. rOffset \in DOMAIN files[rIndex].lines
    BY <2>1, <2>4
  <2> QED BY <2>1, <2>2, <2>5 DEF InLog
<1>10. \A j \in DOMAIN files : \A m \in DOMAIN files[j].lines : j \in Nat /\ m \in Nat
  <2> SUFFICES ASSUME NEW j \in DOMAIN files, NEW m \in DOMAIN files[j].lines PROVE j \in Nat /\ m \in Nat
    OBVIOUS
  <2>1. j \in 1..Len(files) /\ Len(files) \in Nat
    BY <1>9, FilesType
  <2>2. m \in 1..Len(files[j].lines) /\ Len(files[j].lines) \in Nat
    BY <1>9, <2>1, FilesType
  <2> QED BY <2>1, <2>2
<1>11. FromLog'
  <2> SUFFICES ASSUME NEW a \in App, NEW n \in DOMAIN inbox'[a] PROVE InLog(inbox'[a][n])
    BY <1>1 DEF FromLog, InLog
  <2>1. CASE n \in DOMAIN inbox[a] /\ inbox'[a][n] = inbox[a][n]
    BY <2>1 DEF SkipInv, FromLog
  <2>2. CASE inbox'[a][n] = <<rIndex, rOffset>>
    BY <1>9, <2>2
  <2> QED BY <1>8, <2>1, <2>2
<1>12. ASSUME NEW a \in App, NEW q, Told(a, q) PROVE Told(a, q)'
  <2> SUFFICES ASSUME NEW i \in DOMAIN files, NEW k \in DOMAIN files[i].lines,
                      AtOrUp(<<i, k>>, q), files[i].lines[k] \in Due(a)
               PROVE  \E n \in DOMAIN inbox'[a] : inbox'[a][n] = <<i, k>>
    BY <1>1 DEF Told, AtOrUp, PlaceUp, Due
  <2>1. PICK n \in DOMAIN inbox[a] : inbox[a][n] = <<i, k>>
    BY <1>12 DEF Told
  <2> QED BY <1>7, <2>1
<1>13. PICK q0 \in Place, q1 \in Nat, q2 \in Nat : q1 = rIndex /\ q2 = rOffset /\ q0 = status
  BY <1>9, PosType
<1>14. \A a \in AppsOf(Fixed) : /\ Told(a, q0) /\ Told(a, <<q1, q2 - 1>>)
                                /\ a \notin todo => Told(a, <<q1, q2>>)
  BY <1>1, <1>13 DEF SkipInv, ToldInv
<1>15. ASSUME b \in AppsOf(Fixed) PROVE Told(b, <<q1, q2>>)'
  <2> SUFFICES ASSUME NEW i \in DOMAIN files, NEW k \in DOMAIN files[i].lines,
                      AtOrUp(<<i, k>>, <<q1, q2>>), files[i].lines[k] \in Due(b)
               PROVE  \E n \in DOMAIN inbox'[b] : inbox'[b][n] = <<i, k>>
    BY <1>1 DEF Told, AtOrUp, PlaceUp, Due
  <2>1. CASE i = q1 /\ k = q2
    <3>1. 1 \in 1..w /\ z + 1 \in DOMAIN inbox'[b] /\ inbox'[b][z + 1] = <<i, k>>
      BY <1>6, <1>13, <2>1
    <3> QED BY <3>1
  <2>2. CASE ~(i = q1 /\ k = q2)
    <3>1. AtOrUp(<<i, k>>, <<q1, q2 - 1>>)
      BY <1>10, <2>2 DEF AtOrUp, PlaceUp
    <3>2. PICK n \in DOMAIN inbox[b] : inbox[b][n] = <<i, k>>
      BY <1>14, <1>15, <3>1 DEF Told
    <3> QED BY <1>3, <1>7, <3>2
  <2> QED BY <2>1, <2>2
<1>16. ToldInv'
  <2> SUFFICES ASSUME NEW a \in AppsOf(Fixed)
               PROVE  (/\ Told(a, status)
                       /\ Told(a, <<rIndex, rOffset - 1>>)
                       /\ a \notin todo => Told(a, <<rIndex, rOffset>>))'
    BY <1>1 DEF ToldInv
  <2>1. Told(a, q0)' /\ Told(a, <<q1, q2 - 1>>)'
    BY <1>3, <1>12, <1>14
  <2>2. a \notin todo' => Told(a, <<q1, q2>>)'
    <3>1. CASE a = b
      BY <1>15, <3>1
    <3>2. CASE a # b
      BY <1>2, <1>3, <1>12, <1>14, <3>2 DEF Adds
    <3> QED BY <3>1, <3>2
  <2>3. q0 = status' /\ q1 = rIndex' /\ q2 = rOffset'
    BY <1>1, <1>13
  <2>4. Told(a, status)' /\ Told(a, <<rIndex, rOffset - 1>>)'
    BY <2>1, <2>3 DEF Told
  <2>5. a \notin todo' => Told(a, <<rIndex, rOffset>>)'
    BY <2>2, <2>3 DEF Told
  <2> QED BY <2>4, <2>5
<1>17. InOrder'
  <2>1. \A q : LineAt(q)' = LineAt(q)
    BY <1>1 DEF LineAt
  <2> SUFFICES ASSUME NEW a \in AppsOf(Fixed), NEW i \in DOMAIN inbox'[a], NEW e \in Due(a),
                      Before(e, LineAt(inbox'[a][i]))
               PROVE  \E j \in 1..(i - 1) : LineAt(inbox'[a][j]) = e
    BY <1>1 DEF InOrder, Due, LineAt
  <2>2. a \in App /\ inbox[a] \in Seq(Place)
    BY <1>3
  <2>3. CASE i \in DOMAIN inbox[a] /\ inbox'[a][i] = inbox[a][i]
    <3>1. PICK j \in 1..(i - 1) : LineAt(inbox[a][j]) = e
      BY <2>3 DEF SkipInv, InOrder
    <3>2. j \in DOMAIN inbox[a]
      BY <2>2, <2>3, <3>1
    <3> QED BY <1>7, <2>2, <3>1, <3>2
  <2>4. CASE a = b /\ i \in (z + 1)..(z + w) /\ inbox'[a][i] = <<rIndex, rOffset>>
    <3>1. rIndex \in DOMAIN files /\ rOffset \in DOMAIN files[rIndex].lines
      BY <1>9 DEF InLog
    <3>2. Before(e, files[rIndex].lines[rOffset]) /\ e \in Event
      BY <2>4 DEF LineAt, Due
    <3>3. PICK j \in DOMAIN files : \E m \in DOMAIN files[j].lines :
                 PlaceUp(<<j, m>>, <<rIndex, rOffset>>) /\ files[j].lines[m] = e
      BY <3>1, <3>2 DEF SkipInv, WrittenInv, Ordered
    <3>4. PICK m \in DOMAIN files[j].lines :
                 PlaceUp(<<j, m>>, <<rIndex, rOffset>>) /\ files[j].lines[m] = e
      BY <3>3
    <3>5. AtOrUp(<<j, m>>, <<q1, q2 - 1>>)
      BY <1>10, <1>13, <3>4 DEF AtOrUp, PlaceUp
    <3>6. PICK n \in DOMAIN inbox[b] : inbox[b][n] = <<j, m>>
      BY <1>14, <2>4, <3>4, <3>5 DEF Told
    <3>7. n \in 1..(i - 1) /\ inbox'[b][n] = <<j, m>>
      BY <1>6, <2>4, <3>6
    <3>8. LineAt(inbox'[a][n]) = e
      BY <2>4, <3>4, <3>7 DEF LineAt
    <3> QED BY <3>7, <3>8
  <2> QED BY <1>8, <2>2, <2>3, <2>4
<1> QED BY <1>11, <1>16, <1>17

\* Everyone was told up to the position that is saved.
LEMMA UpdateStatusSkip ==
    ASSUME TypeInv, ToldInv, UpdateStatus
    PROVE  ToldInv'
<1>1. /\ rpc = "deliver" /\ todo = {} /\ rpc' \in {"check", "line"}
      /\ UNCHANGED <<rIndex, rOffset, inbox, files>>
      /\ status' = <<rIndex, rOffset>> \/ status' = status
  BY DEF UpdateStatus, writerVars
<1>2. \A a \in AppsOf(Fixed) : Told(a, status) /\ Told(a, <<rIndex, rOffset>>)
  BY <1>1 DEF ToldInv
<1>3. PICK s, q : s = status' /\ q = <<rIndex', rOffset'>>
  OBVIOUS
<1>4. \A a \in AppsOf(Fixed) : Told(a, s) /\ Told(a, q)
  BY <1>1, <1>2, <1>3
<1> QED BY <1>1, <1>3, <1>4, ToldMove

\* The initial states.
LEMMA SkipInit == Init => SkipCond /\ Subscribed
<1> SUFFICES ASSUME Init PROVE SkipInv /\ Subscribed
  BY DEF SkipCond
<1>1. files = <<>> /\ DOMAIN files = {} /\ \A a \in App : inbox[a] = <<>> /\ DOMAIN inbox[a] = {}
  BY DEF Init
<1>2. Ordered
  BY <1>1 DEF Ordered
<1>3. saved = 0 /\ wpc = "write" /\ row = 1 /\ call = 1 /\ part = 0
  BY DEF Init
<1>4. ASSUME NEW e \in Event PROVE ~(e[1] <= 0) /\ ~Before(e, <<1, 1, 0 + 1>>)
  <2>1. e \in Nat \X Nat \X Nat /\ e[1] >= 1 /\ e[2] >= 1 /\ e[3] >= 1
    BY EventType
  <2> QED BY <2>1 DEF Before
<1>5. WrittenInv
  BY <1>1, <1>2, <1>3, <1>4 DEF WrittenInv
<1>6. InOrder /\ FromLog
  BY <1>1, NotifyAssumption DEF InOrder, FromLog, AppsOf
<1>7. ToldInv
  BY <1>1 DEF ToldInv, Told
<1>8. Subscribed
  BY DEF Init, Subscribed
<1> QED BY <1>5, <1>6, <1>7, <1>8 DEF SkipInv

\* Only subscriptions that come and go are changed by requests.
LEMMA SubscribedStep ==
    ASSUME TypeInv, Subscribed, [Next]_vars
    PROVE  Subscribed'
<1>1. ASSUME UNCHANGED subVars, rpc' # "down" => rpc # "down" PROVE Subscribed'
  BY <1>1 DEF subVars, Subscribed
<1>2. CASE Parser \/ KillParser \/ StartParser
  BY <1>1, <1>2, ParserType DEF readerVars
<1>3. ASSUME Gone PROVE Subscribed'
  BY <1>3 DEF Gone, Subscribed
<1>4. CASE IsNewFileExist \/ ReadLines \/ SwitchOrWait
  BY <1>1, <1>4 DEF IsNewFileExist, ReadLines, SwitchOrWait
<1>5. CASE ReadFails \/ KillNotify
  BY <1>3, <1>5 DEF ReadFails, KillNotify
<1>6. CASE TakeLine
  BY <1>1, <1>6 DEF TakeLine
<1>7. CASE TakeGarbled
  BY <1>1, <1>3, <1>7 DEF TakeGarbled
<1>8. CASE Deliver \/ DeliverTwice \/ UpdateStatus
  BY <1>1, <1>8 DEF Deliver, DeliverTwice, UpdateStatus
<1>9. CASE StartNotify
  BY <1>9 DEF StartNotify, Subscribed, AppsOf
<1>10. ASSUME NEW r \in Loose, InsertAddress(r) PROVE Subscribed'
  BY <1>10 DEF InsertAddress, Subscribed, Unlocked
<1>11. ASSUME NEW r \in Loose, RemoveAddress(r) PROVE Subscribed'
  <2>1. r \notin Fixed
    BY NotifyAssumption
  <2>2. rpc # "down" /\ subs' = subs \ {r} /\ appSubcribe' = appSubcribe \ {r} /\ appIds' = appIds
    BY <1>11 DEF RemoveAddress, Unlocked
  <2> QED BY <2>1, <2>2 DEF Subscribed
<1>12. CASE UNCHANGED vars
  BY <1>1, <1>12 DEF vars, readerVars
<1> QED BY <1>2, <1>4, <1>5, <1>6, <1>7, <1>8, <1>9, <1>10, <1>11, <1>12 DEF Next, Notify

\* Every step keeps the invariant.
LEMMA SkipStep ==
    ASSUME TypeInv, TypeInv', SkipCond, Subscribed, [Next]_vars
    PROVE  SkipCond'
<1> SUFFICES ASSUME ~torn' PROVE SkipInv'
  BY DEF SkipCond
<1>1. ASSUME ~torn, WrittenInv', FilesGrow, UNCHANGED readerVars PROVE SkipInv'
  <2>1. files' \in Seq(File)
    BY DEF TypeInv, TypeOK
  <2> QED BY <1>1, <2>1, SkipGrow DEF SkipCond, SkipInv
<1>2. ASSUME ~torn, UNCHANGED <<writerVars, inbox>>, ToldInv' PROVE SkipInv'
  <2>1. UNCHANGED <<files, inbox>>
    BY <1>2 DEF writerVars
  <2> QED BY <1>2, <2>1, SkipKept, WrittenKept DEF SkipCond, SkipInv
<1>3. CASE WriteSome
  <2>1. ~torn /\ FilesGrow /\ UNCHANGED readerVars
    BY <1>3, ParserType DEF WriteSome, Parser
  <2> QED BY <1>1, <1>3, <2>1, WriteSomeWritten DEF SkipCond, SkipInv
<1>4. CASE WriteRest
  <2>1. ~torn /\ FilesGrow /\ UNCHANGED readerVars
    BY <1>4, ParserType DEF WriteRest, WriteTo, Parser
  <2> QED BY <1>1, <1>4, <2>1, WriteRestWritten DEF SkipCond, SkipInv
<1>5. CASE WriteAfterCut
  <2>1. ~torn /\ wpc = "write" /\ wIndex \in DOMAIN files /\ files[wIndex].cut
    BY <1>5 DEF WriteAfterCut, WriteTo
  <2> QED BY <2>1 DEF SkipCond, SkipInv, WrittenInv
<1>6. CASE SaveId
  <2>1. ~torn /\ FilesGrow /\ UNCHANGED readerVars
    BY <1>6, ParserType DEF SaveId, Parser
  <2> QED BY <1>1, <1>6, <2>1, SaveIdWritten DEF SkipCond, SkipInv
<1>7. CASE KillParser
  <2>1. ~torn /\ ~(wpc = "rest" /\ files[wIndex].cut) /\ FilesGrow /\ UNCHANGED readerVars
    BY <1>7, ParserType DEF KillParser
  <2> QED BY <1>1, <1>7, <2>1, KillParserWritten DEF SkipCond, SkipInv
<1>8. CASE StartParser
  <2>1. ~torn /\ FilesGrow /\ UNCHANGED readerVars
    BY <1>8, ParserType DEF StartParser
  <2> QED BY <1>1, <1>8, <2>1, StartParserWritten DEF SkipCond, SkipInv
<1>9. ASSUME UNCHANGED writerVars PROVE ~torn /\ SkipInv /\ UNCHANGED files
  BY <1>9 DEF writerVars, SkipCond
<1>10. PICK s, q : s = status' /\ q = <<rIndex', rOffset'>>
  OBVIOUS
<1>11. CASE IsNewFileExist \/ ReadLines
  <2>1. /\ UNCHANGED <<writerVars, inbox, rIndex, rOffset, status>>
        /\ rpc \in {"check", "read"} /\ rpc' \in {"read", "nothing", "line"}
    BY <1>11 DEF IsNewFileExist, ReadLines
  <2>2. \A a \in AppsOf(Fixed) : Told(a, s) /\ Told(a, q)
    BY <1>9, <1>10, <2>1 DEF SkipInv, ToldInv
  <2>3. ToldInv'
    BY <1>9, <1>10, <2>1, <2>2, ToldMove DEF SkipInv
  <2> QED BY <1>2, <1>9, <2>1, <2>3
<1>12. CASE SwitchOrWait
  <2>1. UNCHANGED <<writerVars, inbox>>
    BY <1>12 DEF SwitchOrWait
  <2> QED BY <1>2, <1>9, <1>12, <2>1, SwitchSkip DEF SkipInv
<1>13. ASSUME Gone PROVE SkipInv'
  <2>1. UNCHANGED <<writerVars, inbox, status>> /\ rpc' = "down"
    BY <1>13 DEF Gone
  <2>2. \A a \in AppsOf(Fixed) : Told(a, s)
    BY <1>9, <1>10, <2>1 DEF SkipInv, ToldInv
  <2>3. ToldInv'
    BY <1>9, <1>10, <2>1, <2>2, ToldMove DEF SkipInv
  <2> QED BY <1>2, <1>9, <2>1, <2>3
<1>14. CASE ReadFails \/ KillNotify
  BY <1>13, <1>14 DEF ReadFails, KillNotify
<1>15. CASE TakeLine
  <2>1. UNCHANGED <<writerVars, inbox>>
    BY <1>15 DEF TakeLine
  <2> QED BY <1>2, <1>9, <1>15, <2>1, TakeSkip DEF SkipInv
<1>16. CASE TakeGarbled
  <2>1. rpc = "line" /\ files[rIndex].lines[rOffset + 1] = Garbled /\ UNCHANGED writerVars
    BY <1>16 DEF TakeGarbled, Gone
  <2>2. rIndex \in DOMAIN files /\ rOffset + 1 \in DOMAIN files[rIndex].lines
    BY <2>1, LineThere
  <2>3. Garbled \in Event
    BY <1>9, <2>1, <2>2 DEF SkipInv, WrittenInv
  <2>4. Garbled[1] = 0
    BY DEF Garbled
  <2> QED BY <2>3, <2>4, EventType
<1>17. CASE Deliver \/ DeliverTwice
  <2>1. UNCHANGED writerVars
    BY <1>17, DeliverAdds
  <2> QED BY <1>9, <1>17, <2>1, DeliverSkip, WrittenKept DEF SkipInv
<1>18. CASE UpdateStatus
  <2>1. UNCHANGED <<writerVars, inbox>>
    BY <1>18 DEF UpdateStatus
  <2> QED BY <1>2, <1>9, <1>18, <2>1, UpdateStatusSkip DEF SkipInv
<1>19. CASE StartNotify
  <2>1. /\ UNCHANGED <<writerVars, inbox, status>> /\ rpc' = "check"
        /\ rIndex' = status[1] /\ rOffset' = status[2]
    BY <1>19 DEF StartNotify
  <2>2. status = <<rIndex', rOffset'>>
    BY <2>1, PosType DEF Place
  <2>3. \A a \in AppsOf(Fixed) : Told(a, s) /\ Told(a, q)
    BY <1>9, <1>10, <2>1, <2>2 DEF SkipInv, ToldInv
  <2>4. ToldInv'
    BY <1>9, <1>10, <2>1, <2>3, ToldMove DEF SkipInv
  <2> QED BY <1>2, <1>9, <2>1, <2>4
<1>20. ASSUME UNCHANGED <<writerVars, readerVars>> PROVE SkipInv'
  <2>1. Len(files) \in Nat /\ \A i \in DOMAIN files : Len(files[i].lines) \in Nat
    BY ReaderNumbers
  <2>2. ~torn /\ SkipInv /\ files' = files
    BY <1>9, <1>20
  <2>3. FilesGrow
    BY <2>1, <2>2 DEF FilesGrow
  <2>4. WrittenInv'
    BY <1>20, <2>2, WrittenKept DEF SkipInv
  <2> QED BY <1>1, <1>20, <2>2, <2>3, <2>4
<1>21. ASSUME NEW r \in Loose, InsertAddress(r) \/ RemoveAddress(r) PROVE SkipInv'
  BY <1>20, <1>21, RequestType
<1>22. CASE UNCHANGED vars
  BY <1>20, <1>22 DEF vars
<1> QED BY <1>3, <1>4, <1>5, <1>6, <1>7, <1>8, <1>11, <1>12, <1>14, <1>15, <1>16, <1>17, <1>18,
           <1>19, <1>21, <1>22 DEF Next, Notify, Parser

\* An application that stays subscribed gets the events in the order of the
\* rows with none left out, whatever is killed and whenever files change, unless
\* a kill of tparser cut a line.
THEOREM NothingSkipped == Spec => []NoEventSkipped
<1>1. SkipCond => NoEventSkipped
  BY DEF SkipCond, SkipInv, InOrder, NoEventSkipped
<1>2. TypeInv /\ TypeInv' /\ SkipCond /\ Subscribed /\ [Next]_vars => SkipCond' /\ Subscribed'
  BY SkipStep, SubscribedStep
<1> QED BY <1>1, <1>2, TypeInit, TypeStep, SkipInit, PTL DEF Spec
=============================================================================
