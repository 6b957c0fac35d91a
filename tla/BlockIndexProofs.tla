-------------------------- MODULE BlockIndexProofs --------------------------
(***************************************************************************)
(* BlockIndex for every block tree and every bound: the keys of the store  *)
(* follow the chain through crashes, and the window of timestamps follows  *)
(* log2producer's tip.                                                     *)
(***************************************************************************)
EXTENDS BlockIndex, BlockTreeProofs

-----------------------------------------------------------------------------
(* The blocks of a chain. *)

\* The chain of a block is that of the block below, and the block.
LEMMA OnChainFacts ==
    /\ OnChain[Begin] = {Begin}
    /\ \A b \in Block : OnChain[b] = OnChain[Prev[b]] \cup {b}
    /\ \A b \in AllBlocks : OnChain[b] \subseteq AllBlocks /\ b \in OnChain[b]
    /\ \A b \in AllBlocks : \A c \in OnChain[b] : Height[c] <= Height[b]
<1>1. ASSUME NEW b \in AllBlocks PROVE OnChain[b] = Below(b)
  <2>1. OnChain[b] = {Chain[b][i] : i \in 1..Len(Chain[b])}
    BY DEF OnChain
  <2> QED BY <2>1, ChainRange DEF AllBlocks
<1>2. ASSUME NEW b \in AllBlocks PROVE Below(b) \subseteq AllBlocks /\ b \in Below(b)
  BY DEF Below, AllBlocks
<1>3. Begin \in AllBlocks /\ \A b \in Block : b \in AllBlocks /\ Prev[b] \in AllBlocks
  BY BlockTreeAssumption DEF AllBlocks
<1>4. OnChain[Begin] = {Begin}
  BY <1>1, <1>3, BelowFacts
<1>5. ASSUME NEW b \in Block PROVE OnChain[b] = OnChain[Prev[b]] \cup {b}
  <2>1. OnChain[b] = Below(b) /\ OnChain[Prev[b]] = Below(Prev[b])
    BY <1>1, <1>3
  <2>2. Below(b) = {b} \cup Below(Prev[b])
    BY BelowFacts
  <2> QED BY <2>1, <2>2
<1>6. \A b \in AllBlocks : \A c \in OnChain[b] : Height[c] <= Height[b]
  BY <1>1, BelowFacts DEF AllBlocks
<1> QED BY <1>1, <1>2, <1>4, <1>5, <1>6

\* The types that follow from the assumptions on the tree.
LEMMA TreeTypes ==
    /\ Begin \in AllBlocks /\ Begin \notin Block /\ Block \subseteq AllBlocks
    /\ \A b \in Block : Prev[b] \in AllBlocks /\ Height[b] = Height[Prev[b]] + 1
    /\ \A b \in AllBlocks : Height[b] \in Nat /\ Height[Begin] <= Height[b]
    /\ \A b \in AllBlocks : b = Begin \/ b \in Block
    /\ Loaded \in AllBlocks
<1>1. \A b \in AllBlocks : Height[b] \in Nat
  BY BlockTreeAssumption DEF AllBlocks
<1>2. \A b \in Block : Height[b] > Height[Begin]
  BY BlockTreeAssumption
<1>3. ASSUME NEW b \in AllBlocks PROVE Height[Begin] <= Height[b]
  <2>1. Height[b] \in Nat /\ Height[Begin] \in Nat
    BY <1>1 DEF AllBlocks
  <2>2. b = Begin \/ Height[b] > Height[Begin]
    BY <1>2 DEF AllBlocks
  <2> QED BY <2>1, <2>2
<1> QED BY <1>1, <1>3, BlockTreeAssumption, TimeAssumption DEF AllBlocks

\* A chain has one block of every height up to its tip.
LEMMA OnChainHeights ==
    ASSUME NEW b \in AllBlocks
    PROVE  /\ {Height[c] : c \in OnChain[b]} = Height[Begin]..Height[b]
           /\ \A c, d \in OnChain[b] : Height[c] = Height[d] => c = d
<1>1. OnChain[b] = Below(b)
  BY ChainRange DEF OnChain, AllBlocks
<1>2. \A h \in Height[Begin]..Height[b] :
         \E c \in OnChain[b] : /\ Height[c] = h
                               /\ \A d \in OnChain[b] : Height[d] = h => d = c
  BY <1>1, BelowHeights DEF AllBlocks
<1>3. \A c \in OnChain[b] : Height[c] \in Height[Begin]..Height[b]
  BY OnChainFacts, TreeTypes
<1>4. ASSUME NEW c \in OnChain[b], NEW d \in OnChain[b], Height[c] = Height[d] PROVE c = d
  <2>1. PICK e \in OnChain[b] : \A x \in OnChain[b] : Height[x] = Height[c] => x = e
    BY <1>2, <1>3
  <2> QED BY <1>4, <2>1
<1> QED BY <1>2, <1>3, <1>4

\* The chain of a block on a chain is part of it.
LEMMA OnChainTrans ==
    ASSUME NEW b \in AllBlocks
    PROVE  \A c \in OnChain[b] : OnChain[c] \subseteq OnChain[b]
<1> DEFINE X == {x \in AllBlocks : \A c \in OnChain[x] : OnChain[c] \subseteq OnChain[x]}
<1>1. Begin \in X
  BY OnChainFacts, TreeTypes
<1>2. ASSUME NEW x \in Block, Prev[x] \in X PROVE x \in X
  <2>1. OnChain[x] = OnChain[Prev[x]] \cup {x} /\ x \in AllBlocks
    BY OnChainFacts, TreeTypes
  <2> QED BY <1>2, <2>1
<1>3. b \in X
  BY <1>1, <1>2, TreeInduction DEF AllBlocks
<1> QED BY <1>3

\* Two blocks of a chain: the lower one is on the chain of the other.
LEMMA OnChainCompare ==
    ASSUME NEW b \in AllBlocks
    PROVE  \A c, d \in OnChain[b] : Height[c] <= Height[d] => c \in OnChain[d]
<1> SUFFICES ASSUME NEW c \in OnChain[b], NEW d \in OnChain[b], Height[c] <= Height[d]
             PROVE  c \in OnChain[d]
  OBVIOUS
<1>1. c \in AllBlocks /\ d \in AllBlocks
  BY OnChainFacts
<1>2. Height[c] \in Height[Begin]..Height[d]
  BY <1>1, TreeTypes
<1>3. PICK e \in OnChain[d] : Height[e] = Height[c]
  BY <1>1, <1>2, OnChainHeights
<1>4. e \in OnChain[b]
  BY <1>3, OnChainTrans
<1> QED BY <1>3, <1>4, OnChainHeights

-----------------------------------------------------------------------------
(* The link to the next block. *)

\* From the tip, and from a block off the chain, there is no next block.
LEMMA NextOfNone ==
    ASSUME NEW t \in AllBlocks, NEW b, b \notin OnChain[t] \/ b = t
    PROVE  NextOf(b, t) = NoBlock
<1> SUFFICES ASSUME NEW c \in OnChain[t] \cap Block, Prev[c] = b PROVE FALSE
  BY DEF NextOf
<1>1. Prev[c] \in OnChain[c] /\ Prev[c] \in AllBlocks
  BY OnChainFacts, TreeTypes
<1>2. b \in OnChain[t]
  BY <1>1, OnChainTrans
<1>3. Height[c] <= Height[t] /\ Height[c] = Height[t] + 1 /\ Height[t] \in Nat
  BY <1>2, OnChainFacts, TreeTypes
<1> QED BY <1>3

\* A block that enters or leaves as the tip changes the link to itself only.
LEMMA NextOfTip ==
    ASSUME NEW b \in Block
    PROVE  /\ NextOf(Prev[b], b) = b
           /\ \A x : x # Prev[b] => NextOf(x, b) = NextOf(x, Prev[b])
<1> DEFINE After(x, t) == {c \in OnChain[t] \cap Block : Prev[c] = x}
<1>1. OnChain[b] = OnChain[Prev[b]] \cup {b} /\ Prev[b] \in AllBlocks
  BY OnChainFacts, TreeTypes
<1>2. After(Prev[b], b) = {b}
  <2> SUFFICES ASSUME NEW c \in OnChain[Prev[b]], c \in Block, Prev[c] = Prev[b] PROVE FALSE
    BY <1>1
  <2>1. Height[c] <= Height[Prev[b]] /\ Height[c] = Height[Prev[b]] + 1 /\ Height[Prev[b]] \in Nat
    BY <1>1, OnChainFacts, TreeTypes
  <2> QED BY <2>1
<1>3. NextOf(Prev[b], b) = b
  <2>1. NextOf(Prev[b], b) = IF After(Prev[b], b) = {} THEN NoBlock
                             ELSE CHOOSE c \in After(Prev[b], b) : TRUE
    BY DEF NextOf
  <2> HIDE DEF After
  <2> QED BY <1>2, <2>1
<1>4. ASSUME NEW x, x # Prev[b] PROVE NextOf(x, b) = NextOf(x, Prev[b])
  <2>1. After(x, b) = After(x, Prev[b])
    BY <1>1, <1>4
  <2>2. \A t : NextOf(x, t) = IF After(x, t) = {} THEN NoBlock ELSE CHOOSE c \in After(x, t) : TRUE
    BY DEF NextOf
  <2> HIDE DEF After
  <2> QED BY <2>1, <2>2
<1> QED BY <1>3, <1>4

\* The next block is a block, if there is one.
LEMMA NextOfType ==
    ASSUME NEW b, NEW t PROVE NextOf(b, t) = NoBlock \/ NextOf(b, t) \in Block
BY DEF NextOf

-----------------------------------------------------------------------------
(* The highest timestamp of a chain. *)

\* NewestTime is attained and is no less than any timestamp of the chain.
LEMMA NewestTimeMax ==
    ASSUME NEW b \in AllBlocks
    PROVE  /\ NewestTime[b] \in Nat
           /\ \E c \in OnChain[b] : NewestTime[b] = Time[c]
           /\ \A c \in OnChain[b] : Time[c] <= NewestTime[b]
<1> DEFINE X == {x \in AllBlocks : \E c \in OnChain[x] : \A d \in OnChain[x] : Time[d] <= Time[c]}
<1>1. \A x \in AllBlocks : Time[x] \in Nat
  BY TimeAssumption
<1>2. Begin \in X
  BY <1>1, OnChainFacts, TreeTypes
<1>3. ASSUME NEW x \in Block, Prev[x] \in X PROVE x \in X
  <2>1. OnChain[x] = OnChain[Prev[x]] \cup {x} /\ x \in AllBlocks /\ Prev[x] \in AllBlocks
        /\ \A d \in OnChain[Prev[x]] : d \in AllBlocks
    BY OnChainFacts, TreeTypes
  <2>2. PICK c \in OnChain[Prev[x]] : \A d \in OnChain[Prev[x]] : Time[d] <= Time[c]
    BY <1>3
  <2>3. CASE Time[c] <= Time[x]
    <3>1. \A d \in OnChain[x] : Time[d] <= Time[x]
      BY <1>1, <2>1, <2>2, <2>3
    <3> QED BY <2>1, <3>1
  <2>4. CASE Time[x] <= Time[c]
    <3>1. \A d \in OnChain[x] : Time[d] <= Time[c]
      BY <1>1, <2>1, <2>2, <2>4
    <3> QED BY <2>1, <3>1
  <2>5. Time[x] \in Nat /\ Time[c] \in Nat
    BY <1>1, <2>1
  <2> QED BY <2>3, <2>4, <2>5
<1>4. b \in X
  BY <1>2, <1>3, TreeInduction DEF AllBlocks
<1>5. PICK c \in OnChain[b] : \A d \in OnChain[b] : Time[d] <= Time[c]
  BY <1>4
<1> DEFINE M == {Time[d] : d \in OnChain[b]}
<1>6. \A d \in OnChain[b] : d \in AllBlocks
  BY OnChainFacts
<1>7. NewestTime[b] = CHOOSE x \in M : \A y \in M : x >= y
  BY DEF NewestTime, Max
<1>8. Time[c] \in M /\ \A y \in M : Time[c] >= y
  BY <1>1, <1>5, <1>6
<1>9. NewestTime[b] \in M /\ \A y \in M : NewestTime[b] >= y
  <2> HIDE DEF M
  <2> QED BY <1>7, <1>8
<1> QED BY <1>1, <1>6, <1>9

\* The highest timestamp of a chain with a block more.
LEMMA NewestTimeStep ==
    ASSUME NEW b \in Block
    PROVE  NewestTime[b] = IF Time[b] > NewestTime[Prev[b]] THEN Time[b] ELSE NewestTime[Prev[b]]
<1>1. OnChain[b] = OnChain[Prev[b]] \cup {b} /\ b \in AllBlocks /\ Prev[b] \in AllBlocks
  BY OnChainFacts, TreeTypes
<1>2. Time[b] \in Nat
  BY <1>1, TimeAssumption
<1>3. PICK c \in OnChain[b] : NewestTime[b] = Time[c]
  BY <1>1, NewestTimeMax
<1>4. PICK d \in OnChain[Prev[b]] : NewestTime[Prev[b]] = Time[d]
  BY <1>1, NewestTimeMax
<1>5. /\ NewestTime[b] \in Nat /\ NewestTime[Prev[b]] \in Nat
      /\ Time[b] <= NewestTime[b] /\ NewestTime[Prev[b]] <= NewestTime[b]
  BY <1>1, <1>4, NewestTimeMax
<1>6. c = b \/ NewestTime[b] <= NewestTime[Prev[b]]
  BY <1>1, <1>3, NewestTimeMax
<1> QED BY <1>2, <1>3, <1>5, <1>6
-----------------------------------------------------------------------------
(* The inductive invariant. *)

\* The tip of the rows that are consumed, and the tip that the row under way, if
\* there is one, leads to.
Old == TipAfter(consumed)
New == IF consumed < Len(rows) THEN TipAfter(consumed + 1) ELSE Old

\* n writes of the row under way, of this type, are done.
Written(type, n) == consumed < Len(rows) /\ rows[consumed + 1].type = type /\ step >= n

\* The row r is about the block on top of t, or about t itself.
Follows(r, t) == IF r.type = "confirm" THEN Prev[r.block] = t ELSE r.block = t

\* The rows lead from the loaded tip to the current one, never below the loaded one.
RowsInv ==
    /\ rows \in Seq(Row)
    /\ consumed \in 0..Len(rows) /\ step \in 0..7
    /\ consumed = Len(rows) => step = 0
    /\ \A n \in 1..Len(rows) : Follows(rows[n], TipAfter(n - 1))
    /\ \A n \in 0..Len(rows) : TipAfter(n) \in AllBlocks /\ Loaded \in OnChain[TipAfter(n)]
    /\ cur = Down \/ cur = TipAfter(Len(rows))

HeightMap(f, t) ==
    /\ DOMAIN f = {Height[b] : b \in OnChain[t]}
    /\ \A b \in OnChain[t] : f[Height[b]] = b

HeightsInv ==
    /\ HeightMap(k10, Old) \/ HeightMap(k10, New)
    /\ step >= 2 => HeightMap(k10, New)

\* The object of a stored block when t is the tip.
Obj(b, t) == [orphan |-> b \notin OnChain[t], next |-> NextOf(b, t)]

BlocksInv ==
    /\ OnChain[Old] \subseteq DOMAIN k11 /\ DOMAIN k11 \subseteq AllBlocks
    /\ \A b \in DOMAIN k11 : k11[b] = Obj(b, Old) \/ k11[b] = Obj(b, New)
    /\ Written("confirm", 1) => B \in DOMAIN k11 /\ k11[B] = Obj(B, New)
    /\ Written("confirm", 3) => k11[Prev[B]] = Obj(Prev[B], New)
    /\ Written("reject", 3) => k11[B] = Obj(B, New)
    /\ Written("reject", 5) => k11[Prev[B]] = Obj(Prev[B], New)

Listed(b) == Height[b] \in DOMAIN k13 /\ b \in k13[Height[b]]

OrphansInv ==
    /\ \A h \in DOMAIN k13 :
          /\ k13[h] # {}
          /\ \A b \in k13[h] : b \in Block /\ b \in DOMAIN k11 /\ Height[b] = h
    /\ \A b \in DOMAIN k11 : b \in OnChain[Old] /\ b \in OnChain[New] => ~Listed(b)
    /\ \A b \in DOMAIN k11 : b \notin OnChain[Old] /\ b \notin OnChain[New] => Listed(b)
    /\ Written("confirm", 5) => ~Listed(B)
    /\ Written("reject", 1) => Listed(B)

TimeKey(b) == <<NewestTime[b], Height[b]>>

TimeMap(f, t) ==
    /\ DOMAIN f = {TimeKey(b) : b \in OnChain[t]}
    /\ \A b \in OnChain[t] : f[TimeKey(b)] = b

TimesInv ==
    /\ TimeMap(k14, Old) \/ TimeMap(k14, New)
    /\ Written("confirm", 6) => TimeMap(k14, New)
    /\ Written("reject", 4) => TimeMap(k14, New)

\* The blocks to scan are on one chain, and end at the end of a process.
ScanInv ==
    /\ k12 \subseteq AllBlocks /\ k15 \subseteq AllBlocks
    /\ started \in BOOLEAN /\ cut \in BOOLEAN
    /\ \E t \in AllBlocks : scan \subseteq OnChain[t]
    /\ ~started => scan = {}
    /\ Written("confirm", 7) => B \in k15

\* Below a mark, and below a block to be scanned, every block has a mark or will
\* be scanned.
MarksInv ==
    /\ \A b \in k15 : OnChain[b] \subseteq k15 \cup scan
    /\ \A b \in scan : OnChain[b] \subseteq k15 \cup scan
    /\ \A b \in scan \cap k15 : OnChain[b] \subseteq k15
    /\ started => OnChain[Old] \cap OnChain[New] \subseteq k15 \cup scan

\* The window: no gap, no more than Limit blocks, and long enough for the newest
\* timestamp of any tip down to the loaded one.
WindowAt(w, t, lo) ==
    /\ lo >= Height[Begin] /\ lo <= Height[t] /\ Height[t] - lo < Limit
    /\ lo = Height[Begin] \/ lo <= Height[Loaded] - Recent + 1
    /\ DOMAIN w = lo..Height[t]
    /\ \A b \in OnChain[t] : Height[b] \in DOMAIN w => w[Height[b]] = Time[b]

WindowInv ==
    /\ currMax \in Nat /\ restarts \in 0..MaxRestart /\ crashes \in 0..MaxCrash
    /\ ts = <<>> \/ \E t \in AllBlocks, lo \in Nat : WindowAt(ts, t, lo)
    /\ cur # Down => (\E lo \in Nat : WindowAt(ts, cur, lo)) /\ currMax = NewestTime[cur]
    /\ \A n \in 1..Len(rows) : rows[n].time = NewestTime[rows[n].block]

-----------------------------------------------------------------------------
(* The rows. *)

\* A step that leaves the row under way, if there is one, what it is.
KeepsRow ==
    /\ consumed' = consumed /\ step' \in {0, step}
    /\ Old' = Old
    /\ consumed < Len(rows) =>
          /\ consumed' < Len(rows') /\ rows'[consumed + 1] = rows[consumed + 1]
          /\ New' = New
    /\ consumed = Len(rows) => New = Old /\ step' = 0

\* The tips are blocks, and what the row under way says of them.
LEMMA Tips ==
    ASSUME RowsInv
    PROVE  /\ Old \in AllBlocks /\ New \in AllBlocks
           /\ consumed = Len(rows) => New = Old
           /\ consumed < Len(rows) => /\ B \in Block /\ rows[consumed + 1] \in Row
                                      /\ rows[consumed + 1].type \in RowType
           /\ consumed < Len(rows) /\ rows[consumed + 1].type = "confirm" => Old = Prev[B] /\ New = B
           /\ consumed < Len(rows) /\ rows[consumed + 1].type = "reject" => Old = B /\ New = Prev[B]
<1>1. consumed \in 0..Len(rows) /\ Len(rows) \in Nat
  BY DEF RowsInv
<1>2. Old \in AllBlocks
  BY <1>1 DEF RowsInv, Old
<1>3. CASE consumed = Len(rows)
  BY <1>1, <1>2, <1>3 DEF New
<1>4. CASE consumed < Len(rows)
  <2>1. consumed + 1 \in 1..Len(rows) /\ consumed + 1 # 0 /\ consumed + 1 - 1 = consumed
    BY <1>1, <1>4
  <2>2. rows[consumed + 1] \in Row
    BY <2>1 DEF RowsInv
  <2>3. B \in Block /\ rows[consumed + 1].type \in RowType
    BY <2>2 DEF Row, B
  <2>4. Follows(rows[consumed + 1], Old)
    BY <2>1 DEF RowsInv, Old
  <2>5. New = IF rows[consumed + 1].type = "confirm" THEN B ELSE Prev[B]
    BY <1>4, <2>1 DEF New, TipAfter, B
  <2>6. New \in AllBlocks
    BY <2>3, <2>5, TreeTypes
  <2>7. rows[consumed + 1].type = "confirm" => Old = Prev[B] /\ New = B
    BY <2>4, <2>5 DEF Follows, B
  <2>8. rows[consumed + 1].type = "reject" => Old = B /\ New = Prev[B]
    BY <2>4, <2>5 DEF Follows, B
  <2> QED BY <1>2, <1>4, <2>2, <2>3, <2>6, <2>7, <2>8
<1> QED BY <1>1, <1>3, <1>4

\* A new row leaves the rows before it.
LEMMA KeepsAppend ==
    ASSUME RowsInv, NEW r \in Row, rows' = Append(rows, r), consumed' = consumed, step' = step
    PROVE  /\ Len(rows') = Len(rows) + 1 /\ rows' \in Seq(Row)
           /\ rows'[Len(rows) + 1] = r
           /\ \A n \in 1..Len(rows) : rows'[n] = rows[n]
           /\ \A n \in 0..Len(rows) : TipAfter(n)' = TipAfter(n)
           /\ KeepsRow
<1>1. rows \in Seq(Row) /\ consumed \in 0..Len(rows) /\ Len(rows) \in Nat
      /\ (consumed = Len(rows) => step = 0)
  BY DEF RowsInv
<1>2. PICK q : q = rows
  OBVIOUS
<1>3. PICK q1 : q1 = rows' /\ q1 = Append(q, r)
  BY <1>2
<1>4. /\ Len(q1) = Len(q) + 1 /\ q1 \in Seq(Row) /\ q1[Len(q) + 1] = r
      /\ \A n \in 1..Len(q) : q1[n] = q[n]
  BY <1>1, <1>2, <1>3, AppendProperties
<1>5. ASSUME NEW n \in 0..Len(rows) PROVE TipAfter(n)' = TipAfter(n)
  <2>1. n # 0 => rows'[n] = rows[n]
    BY <1>1, <1>2, <1>3, <1>4
  <2> QED BY <2>1 DEF TipAfter
<1>6. KeepsRow
  <2>1. PICK k : k = consumed
    OBVIOUS
  <2>2. TipAfter(k)' = TipAfter(k)
    BY <1>1, <1>5, <2>1
  <2>3. Old' = Old
    BY <2>1, <2>2 DEF Old
  <2>4. ASSUME consumed < Len(rows)
        PROVE  consumed' < Len(rows') /\ rows'[consumed + 1] = rows[consumed + 1] /\ New' = New
    <3>1. consumed' < Len(rows') /\ rows'[consumed + 1] = rows[consumed + 1]
      BY <1>1, <1>2, <1>3, <1>4, <2>4
    <3>2. TipAfter(k + 1)' = TipAfter(k + 1)
      BY <1>1, <1>5, <2>1, <2>4
    <3>3. New = TipAfter(k + 1) /\ New' = TipAfter(k + 1)'
      BY <2>1, <2>4, <3>1 DEF New
    <3> QED BY <3>1, <3>2, <3>3
  <2>5. consumed = Len(rows) => New = Old /\ step' = 0
    BY <1>1 DEF New
  <2> QED BY <2>3, <2>4, <2>5 DEF KeepsRow
<1> QED BY <1>2, <1>3, <1>4, <1>5, <1>6

\* Nothing happens to the rows.
LEMMA KeepsSame ==
    ASSUME RowsInv, UNCHANGED <<rows, consumed>>, step' \in {0, step}
    PROVE  KeepsRow
<1>1. Old' = Old /\ New' = New
  BY DEF Old, New, TipAfter
<1>2. consumed = Len(rows) => New = Old /\ step' = 0
  BY DEF New, RowsInv
<1> QED BY <1>1, <1>2 DEF KeepsRow

\* ... and RowsInv with them.
LEMMA RowsSame ==
    ASSUME RowsInv, UNCHANGED <<rows, consumed>>, step' \in 0..7,
           consumed = Len(rows) => step' = 0,
           cur' = Down \/ cur' = TipAfter(Len(rows))
    PROVE  RowsInv'
<1>1. \A n : TipAfter(n)' = TipAfter(n)
  BY DEF TipAfter
<1>2. PICK q : q = rows
  OBVIOUS
<1>3. /\ rows' \in Seq(Row) /\ consumed' \in 0..Len(rows')
      /\ (consumed' = Len(rows') => step' = 0)
  BY DEF RowsInv
<1>4. \A n \in 1..Len(rows') : Follows(rows'[n], TipAfter(n - 1)')
  BY <1>1 DEF RowsInv
<1>5. \A n \in 0..Len(rows') : TipAfter(n)' \in AllBlocks /\ Loaded \in OnChain[TipAfter(n)']
  BY <1>1 DEF RowsInv
<1>6. cur' = Down \/ cur' = TipAfter(Len(q))'
  BY <1>1, <1>2
<1>7. cur' = Down \/ cur' = TipAfter(Len(rows))'
  BY <1>2, <1>6
<1> QED BY <1>3, <1>4, <1>5, <1>7 DEF RowsInv, Follows

\* The writes that are done stay done, or the row starts again.
LEMMA KeepsWritten ==
    ASSUME RowsInv, KeepsRow, NEW type, NEW n \in 1..7, Written(type, n)'
    PROVE  Written(type, n) /\ B' = B /\ New' = New
<1>1. consumed \in 0..Len(rows) /\ step \in 0..7 /\ Len(rows) \in Nat
  BY DEF RowsInv
<1>2. step' >= n /\ consumed' < Len(rows') /\ rows'[consumed' + 1].type = type
  BY DEF Written
<1>3. step' = step /\ consumed' = consumed /\ consumed < Len(rows)
  BY <1>1, <1>2 DEF KeepsRow
<1>4. rows'[consumed + 1] = rows[consumed + 1] /\ New' = New
  BY <1>3 DEF KeepsRow
<1>5. B' = B
  BY <1>3, <1>4 DEF B
<1> QED BY <1>2, <1>3, <1>4, <1>5 DEF Written

\* The tips of a step that keeps the row.
LEMMA KeepsTips ==
    ASSUME RowsInv, KeepsRow PROVE Old' = Old /\ (New' = New \/ New = Old)
BY DEF KeepsRow, RowsInv

\* A step that keeps the row and the keys keeps what is known of them.
LEMMA StoreKept ==
    ASSUME RowsInv, KeepsRow, HeightsInv, BlocksInv, OrphansInv, TimesInv,
           UNCHANGED <<k10, k11, k13, k14>>
    PROVE  HeightsInv' /\ BlocksInv' /\ OrphansInv' /\ TimesInv'
<1>1. Old' = Old /\ (New' = New \/ New = Old)
  BY KeepsTips
<1>2. step' >= 2 => step >= 2 /\ New' = New
  BY DEF KeepsRow, RowsInv
<1>3. HeightsInv'
  <2>1. HeightMap(k10', Old') \/ HeightMap(k10', New')
    BY <1>1 DEF HeightsInv
  <2>2. step' >= 2 => HeightMap(k10', New')
    BY <1>2 DEF HeightsInv
  <2> QED BY <2>1, <2>2 DEF HeightsInv, HeightMap
<1>4. TimesInv'
  <2>1. TimeMap(k14', Old') \/ TimeMap(k14', New')
    BY <1>1 DEF TimesInv
  <2>2. Written("confirm", 6)' => TimeMap(k14', New')
    BY KeepsWritten DEF TimesInv
  <2>3. Written("reject", 4)' => TimeMap(k14', New')
    BY KeepsWritten DEF TimesInv
  <2> QED BY <2>1, <2>2, <2>3 DEF TimesInv, TimeMap, TimeKey
<1>5. BlocksInv'
  <2>1. OnChain[Old'] \subseteq DOMAIN k11' /\ DOMAIN k11' \subseteq AllBlocks
    BY <1>1 DEF BlocksInv
  <2>2. \A b \in DOMAIN k11' : k11'[b] = Obj(b, Old') \/ k11'[b] = Obj(b, New')
    BY <1>1 DEF BlocksInv
  <2>3. Written("confirm", 1)' => B' \in DOMAIN k11' /\ k11'[B'] = Obj(B', New')
    BY KeepsWritten DEF BlocksInv
  <2>4. Written("confirm", 3)' => k11'[Prev[B']] = Obj(Prev[B'], New')
    BY KeepsWritten DEF BlocksInv
  <2>5. Written("reject", 3)' => k11'[B'] = Obj(B', New')
    BY KeepsWritten DEF BlocksInv
  <2>6. Written("reject", 5)' => k11'[Prev[B']] = Obj(Prev[B'], New')
    BY KeepsWritten DEF BlocksInv
  <2> QED BY <2>1, <2>2, <2>3, <2>4, <2>5, <2>6 DEF BlocksInv, Obj, NextOf
<1>6. OrphansInv'
  <2>1. \A b : Listed(b)' <=> Listed(b)
    BY DEF Listed
  <2>2. \A h \in DOMAIN k13' :
          /\ k13'[h] # {}
          /\ \A b \in k13'[h] : b \in Block /\ b \in DOMAIN k11' /\ Height[b] = h
    BY DEF OrphansInv
  <2>3. \A b \in DOMAIN k11' : b \in OnChain[Old'] /\ b \in OnChain[New'] => ~Listed(b)'
    BY <1>1, <2>1 DEF OrphansInv
  <2>4. \A b \in DOMAIN k11' : b \notin OnChain[Old'] /\ b \notin OnChain[New'] => Listed(b)'
    BY <1>1, <2>1 DEF OrphansInv
  <2>5. PICK b : b = B
    OBVIOUS
  <2>6. Written("confirm", 5)' => ~Listed(B)'
    <3>1. Written("confirm", 5)' => B' = b /\ ~Listed(b)
      BY <2>5, KeepsWritten DEF OrphansInv
    <3> QED BY <2>1, <3>1 DEF Listed
  <2>7. Written("reject", 1)' => Listed(B)'
    <3>1. Written("reject", 1)' => B' = b /\ Listed(b)
      BY <2>5, KeepsWritten DEF OrphansInv
    <3> QED BY <2>1, <3>1 DEF Listed
  <2> QED BY <2>2, <2>3, <2>4, <2>6, <2>7 DEF OrphansInv
<1> QED BY <1>3, <1>4, <1>5, <1>6

\* A block that enters or leaves as the tip changes its own object and that of the
\* block below.
LEMMA ObjSame ==
    ASSUME NEW b \in Block, NEW x, x # b, x # Prev[b]
    PROVE  Obj(x, b) = Obj(x, Prev[b])
<1>1. x \in OnChain[b] <=> x \in OnChain[Prev[b]]
  BY OnChainFacts
<1>2. NextOf(x, b) = NextOf(x, Prev[b])
  BY NextOfTip
<1> QED BY <1>1, <1>2 DEF Obj

\* The two tips of the row under way, and its block.
LEMMA RowTips ==
    ASSUME RowsInv, consumed < Len(rows)
    PROVE  /\ B \in Block /\ B \in AllBlocks /\ Prev[B] \in AllBlocks
           /\ OnChain[B] = OnChain[Prev[B]] \cup {B} /\ B \notin OnChain[Prev[B]]
           /\ rows[consumed + 1].type = "confirm" => Old = Prev[B] /\ New = B
           /\ rows[consumed + 1].type = "reject" => Old = B /\ New = Prev[B]
           /\ rows[consumed + 1].type = "confirm" \/ rows[consumed + 1].type = "reject"
<1>1. /\ B \in Block /\ rows[consumed + 1].type \in RowType
      /\ rows[consumed + 1].type = "confirm" => Old = Prev[B] /\ New = B
      /\ rows[consumed + 1].type = "reject" => Old = B /\ New = Prev[B]
  BY Tips
<1>2. B \in AllBlocks /\ Prev[B] \in AllBlocks /\ OnChain[B] = OnChain[Prev[B]] \cup {B}
  BY <1>1, TreeTypes, OnChainFacts
<1>3. B \notin OnChain[Prev[B]]
  <2>1. Height[B] = Height[Prev[B]] + 1 /\ Height[Prev[B]] \in Nat
    BY <1>1, <1>2, TreeTypes
  <2>2. \A c \in OnChain[Prev[B]] : Height[c] <= Height[Prev[B]]
    BY <1>2, OnChainFacts
  <2> QED BY <2>1, <2>2
<1> QED BY <1>1, <1>2, <1>3 DEF RowType

\* After the last write of a row every key is that of the new tip.
LEMMA DoneExact ==
    ASSUME RowsInv, HeightsInv, BlocksInv, OrphansInv, TimesInv, RowDone
    PROVE  /\ HeightMap(k10, New) /\ TimeMap(k14, New)
           /\ OnChain[New] \subseteq DOMAIN k11
           /\ \A b \in DOMAIN k11 : k11[b] = Obj(b, New)
           /\ \A b \in DOMAIN k11 : Listed(b) <=> b \notin OnChain[New]
<1>1. consumed < Len(rows) /\ step = Steps[rows[consumed + 1].type]
  BY DEF RowDone
<1>2. /\ B \in Block /\ OnChain[B] = OnChain[Prev[B]] \cup {B} /\ B \notin OnChain[Prev[B]]
      /\ rows[consumed + 1].type = "confirm" => Old = Prev[B] /\ New = B
      /\ rows[consumed + 1].type = "reject" => Old = B /\ New = Prev[B]
  BY <1>1, RowTips
<1>3. CASE rows[consumed + 1].type = "confirm"
  <2>1. step = 7 /\ Old = Prev[B] /\ New = B
    BY <1>1, <1>2, <1>3 DEF Steps
  <2>2. Written("confirm", 1) /\ Written("confirm", 3) /\ Written("confirm", 5) /\ Written("confirm", 6)
    BY <1>1, <1>3, <2>1 DEF Written
  <2>3. HeightMap(k10, New) /\ TimeMap(k14, New)
    BY <2>1, <2>2 DEF HeightsInv, TimesInv
  <2>4. B \in DOMAIN k11 /\ k11[B] = Obj(B, New) /\ k11[Prev[B]] = Obj(Prev[B], New)
    BY <2>2 DEF BlocksInv
  <2>5. OnChain[New] \subseteq DOMAIN k11
    BY <1>2, <2>1, <2>4 DEF BlocksInv
  <2>6. ASSUME NEW b \in DOMAIN k11, b # B, b # Prev[B] PROVE k11[b] = Obj(b, New)
    BY <1>2, <2>1, <2>6, ObjSame DEF BlocksInv
  <2>7. ~Listed(B)
    BY <2>2 DEF OrphansInv
  <2>8. ASSUME NEW b \in DOMAIN k11 PROVE Listed(b) <=> b \notin OnChain[New]
    BY <1>2, <2>1, <2>7 DEF OrphansInv
  <2> QED BY <2>3, <2>4, <2>5, <2>6, <2>8
<1>4. CASE rows[consumed + 1].type = "reject"
  <2>1. step = 5 /\ Old = B /\ New = Prev[B]
    BY <1>1, <1>2, <1>4 DEF Steps
  <2>2. Written("reject", 1) /\ Written("reject", 3) /\ Written("reject", 4) /\ Written("reject", 5)
    BY <1>1, <1>4, <2>1 DEF Written
  <2>3. HeightMap(k10, New) /\ TimeMap(k14, New)
    BY <2>1, <2>2 DEF HeightsInv, TimesInv
  <2>4. k11[B] = Obj(B, New) /\ k11[Prev[B]] = Obj(Prev[B], New)
    BY <2>2 DEF BlocksInv
  <2>5. OnChain[New] \subseteq DOMAIN k11
    BY <1>2, <2>1 DEF BlocksInv
  <2>6. ASSUME NEW b \in DOMAIN k11, b # B, b # Prev[B] PROVE k11[b] = Obj(b, New)
    BY <1>2, <2>1, <2>6, ObjSame DEF BlocksInv
  <2>7. Listed(B)
    BY <2>2 DEF OrphansInv
  <2>8. ASSUME NEW b \in DOMAIN k11 PROVE Listed(b) <=> b \notin OnChain[New]
    BY <1>2, <2>1, <2>7 DEF OrphansInv
  <2> QED BY <2>3, <2>4, <2>5, <2>6, <2>8
<1> QED BY <1>1, <1>3, <1>4, RowTips

\* The row is consumed, and the new tip becomes the old one.
LEMMA RowTaken ==
    ASSUME RowsInv, HeightsInv, BlocksInv, OrphansInv, TimesInv, UpdateLastTxlog2Id
    PROVE  /\ Old' = New
           /\ RowsInv' /\ HeightsInv' /\ BlocksInv' /\ OrphansInv' /\ TimesInv'
<1>1. /\ RowDone /\ consumed' = consumed + 1 /\ step' = 0
      /\ UNCHANGED <<rows, cur, k10, k11, k13, k14>>
  BY DEF UpdateLastTxlog2Id, producerVars, keyVars
<1>2. consumed \in 0..Len(rows) /\ Len(rows) \in Nat /\ consumed < Len(rows)
  BY <1>1 DEF RowsInv, RowDone
<1>3. \A n : TipAfter(n)' = TipAfter(n)
  BY <1>1 DEF TipAfter
<1>4. PICK k : k = consumed + 1
  OBVIOUS
<1>5. Old' = New
  <2>1. Old' = TipAfter(k)'
    BY <1>1, <1>4 DEF Old
  <2> QED BY <1>2, <1>3, <1>4, <2>1 DEF New
<1>6. ASSUME NEW type, NEW n \in 1..7 PROVE ~Written(type, n)'
  BY <1>1 DEF Written
<1>7. /\ HeightMap(k10, New) /\ TimeMap(k14, New) /\ OnChain[New] \subseteq DOMAIN k11
      /\ \A b \in DOMAIN k11 : k11[b] = Obj(b, New)
      /\ \A b \in DOMAIN k11 : Listed(b) <=> b \notin OnChain[New]
  BY <1>1, DoneExact
<1>8. RowsInv'
  <2>1. rows' \in Seq(Row) /\ consumed' \in 0..Len(rows') /\ step' \in 0..7
    BY <1>1, <1>2 DEF RowsInv
  <2>2. \A n \in 1..Len(rows') : Follows(rows'[n], TipAfter(n - 1)')
    BY <1>1, <1>3 DEF RowsInv
  <2>3. \A n \in 0..Len(rows') : TipAfter(n)' \in AllBlocks /\ Loaded \in OnChain[TipAfter(n)']
    BY <1>1, <1>3 DEF RowsInv
  <2>4. PICK q : q = Len(rows)
    OBVIOUS
  <2>5. cur' = Down \/ cur' = TipAfter(q)'
    BY <1>1, <1>3, <2>4 DEF RowsInv
  <2>6. cur' = Down \/ cur' = TipAfter(Len(rows))'
    BY <1>1, <2>4, <2>5
  <2> QED BY <1>1, <2>1, <2>2, <2>3, <2>6 DEF RowsInv, Follows
<1>9. HeightsInv'
  <2>1. HeightMap(k10', Old') /\ ~(step' >= 2)
    BY <1>1, <1>5, <1>7
  <2> QED BY <2>1 DEF HeightsInv, HeightMap
<1>10. TimesInv'
  <2>1. TimeMap(k14', Old')
    BY <1>1, <1>5, <1>7
  <2> QED BY <1>6, <2>1 DEF TimesInv, TimeMap, TimeKey
<1>11. BlocksInv'
  <2>1. OnChain[Old'] \subseteq DOMAIN k11' /\ DOMAIN k11' \subseteq AllBlocks
    BY <1>1, <1>5, <1>7 DEF BlocksInv
  <2>2. \A b \in DOMAIN k11' : k11'[b] = Obj(b, Old')
    BY <1>1, <1>5, <1>7
  <2> QED BY <1>6, <2>1, <2>2 DEF BlocksInv, Obj, NextOf
<1>12. OrphansInv'
  <2>1. \A b : Listed(b)' <=> Listed(b)
    BY <1>1 DEF Listed
  <2>2. \A h \in DOMAIN k13' :
          /\ k13'[h] # {}
          /\ \A b \in k13'[h] : b \in Block /\ b \in DOMAIN k11' /\ Height[b] = h
    BY <1>1 DEF OrphansInv
  <2>3. \A b \in DOMAIN k11' : Listed(b)' <=> b \notin OnChain[Old']
    BY <1>1, <1>5, <1>7, <2>1
  <2>4. ~Written("confirm", 5)' /\ ~Written("reject", 1)'
    BY <1>6
  <2> QED BY <2>2, <2>3, <2>4 DEF OrphansInv
<1> QED BY <1>5, <1>8, <1>9, <1>10, <1>11, <1>12

-----------------------------------------------------------------------------
(* The writes of a row. *)

\* A write leaves the rows, and adds one to the writes done.
LEMMA WorkingKeeps ==
    ASSUME RowsInv, NEW type, NEW n \in 0..6, Working(type, n)
    PROVE  /\ consumed < Len(rows) /\ rows[consumed + 1].type = type
           /\ RowsInv' /\ Old' = Old /\ New' = New /\ B' = B
           /\ \A ty, m : Written(ty, m)' => ty = type /\ m <= n + 1
           /\ \A m \in 0..n : Written(type, m)
<1>1. /\ consumed < Len(rows) /\ rows[consumed + 1].type = type /\ step = n /\ step' = n + 1
      /\ UNCHANGED <<rows, cur, consumed>>
  BY DEF Working, producerVars
<1>2. Old' = Old /\ New' = New /\ B' = B
  BY <1>1 DEF Old, New, B, TipAfter
<1>3. RowsInv'
  <2>1. step' \in 0..7 /\ consumed # Len(rows)
    BY <1>1 DEF RowsInv
  <2>2. cur' = Down \/ cur' = TipAfter(Len(rows))
    BY <1>1 DEF RowsInv
  <2> QED BY <1>1, <2>1, <2>2, RowsSame
<1>4. \A ty, m : Written(ty, m)' => ty = type /\ m <= n + 1
  BY <1>1 DEF Written
<1>5. \A m \in 0..n : Written(type, m)
  BY <1>1 DEF Written
<1> QED BY <1>1, <1>2, <1>3, <1>4, <1>5

\* A write to other keys leaves what is known of the 10_ keys,
LEMMA HeightsWrite ==
    ASSUME RowsInv, HeightsInv, NEW type, NEW n \in 0..6, Working(type, n), k10' = k10, n # 1
    PROVE  HeightsInv'
<1>1. Old' = Old /\ New' = New /\ step = n /\ step' = n + 1
  BY WorkingKeeps DEF Working
<1>2. HeightMap(k10', Old') \/ HeightMap(k10', New')
  BY <1>1 DEF HeightsInv
<1>3. step' >= 2 => HeightMap(k10', New')
  BY <1>1 DEF HeightsInv
<1> QED BY <1>2, <1>3 DEF HeightsInv, HeightMap

\* ... of the 14_ keys,
LEMMA TimesWrite ==
    ASSUME RowsInv, TimesInv, NEW type, NEW n \in 0..6, Working(type, n), k14' = k14,
           type = "confirm" => n # 5, type = "reject" => n # 3
    PROVE  TimesInv'
<1>1. /\ Old' = Old /\ New' = New
      /\ \A ty, m : Written(ty, m)' => ty = type /\ m <= n + 1
      /\ \A m \in 0..n : Written(type, m)
  BY WorkingKeeps
<1>2. TimeMap(k14', Old') \/ TimeMap(k14', New')
  BY <1>1 DEF TimesInv
<1>3. Written("confirm", 6)' => Written("confirm", 6)
  BY <1>1
<1>4. Written("reject", 4)' => Written("reject", 4)
  BY <1>1
<1>5. Written("confirm", 6)' => TimeMap(k14', New')
  BY <1>1, <1>3 DEF TimesInv
<1>6. Written("reject", 4)' => TimeMap(k14', New')
  BY <1>1, <1>4 DEF TimesInv
<1> QED BY <1>2, <1>5, <1>6 DEF TimesInv, TimeMap, TimeKey

\* ... of the objects,
LEMMA BlocksWrite ==
    ASSUME RowsInv, BlocksInv, NEW type, NEW n \in 0..6, Working(type, n), k11' = k11,
           type = "confirm" => n # 0 /\ n # 2, type = "reject" => n # 2 /\ n # 4
    PROVE  BlocksInv'
<1>1. /\ Old' = Old /\ New' = New /\ B' = B
      /\ \A ty, m : Written(ty, m)' => ty = type /\ m <= n + 1
      /\ \A m \in 0..n : Written(type, m)
  BY WorkingKeeps
<1>2. Written("confirm", 1)' => Written("confirm", 1)
  BY <1>1
<1>3. Written("confirm", 3)' => Written("confirm", 3)
  BY <1>1
<1>4. Written("reject", 3)' => Written("reject", 3)
  BY <1>1
<1>5. Written("reject", 5)' => Written("reject", 5)
  BY <1>1
<1>6. OnChain[Old'] \subseteq DOMAIN k11' /\ DOMAIN k11' \subseteq AllBlocks
  BY <1>1 DEF BlocksInv
<1>7. \A b \in DOMAIN k11' : k11'[b] = Obj(b, Old') \/ k11'[b] = Obj(b, New')
  BY <1>1 DEF BlocksInv
<1>8. Written("confirm", 1)' => B' \in DOMAIN k11' /\ k11'[B'] = Obj(B', New')
  BY <1>1, <1>2 DEF BlocksInv
<1>9. Written("confirm", 3)' => k11'[Prev[B']] = Obj(Prev[B'], New')
  BY <1>1, <1>3 DEF BlocksInv
<1>10. Written("reject", 3)' => k11'[B'] = Obj(B', New')
  BY <1>1, <1>4 DEF BlocksInv
<1>11. Written("reject", 5)' => k11'[Prev[B']] = Obj(Prev[B'], New')
  BY <1>1, <1>5 DEF BlocksInv
<1> QED BY <1>6, <1>7, <1>8, <1>9, <1>10, <1>11 DEF BlocksInv, Obj, NextOf

\* ... and of the 13_ keys; the block under way may get its object.
LEMMA OrphansWrite ==
    ASSUME RowsInv, OrphansInv, NEW type, NEW n \in 0..6, Working(type, n), k13' = k13,
           DOMAIN k11 \subseteq DOMAIN k11', DOMAIN k11' \subseteq DOMAIN k11 \cup {B},
           type = "confirm" => n # 4, type = "reject" => n # 0
    PROVE  OrphansInv'
<1>1. /\ Old' = Old /\ New' = New /\ B' = B
      /\ consumed < Len(rows)
      /\ \A ty, m : Written(ty, m)' => ty = type /\ m <= n + 1
      /\ \A m \in 0..n : Written(type, m)
  BY WorkingKeeps
<1>2. \A b : Listed(b)' <=> Listed(b)
  BY DEF Listed
<1>3. B \in OnChain[Old] <=> B \notin OnChain[New]
  BY <1>1, RowTips
<1>4. Written("confirm", 5)' => Written("confirm", 5)
  BY <1>1
<1>5. Written("reject", 1)' => Written("reject", 1)
  BY <1>1
<1>6. \A h \in DOMAIN k13' :
        /\ k13'[h] # {}
        /\ \A b \in k13'[h] : b \in Block /\ b \in DOMAIN k11' /\ Height[b] = h
  BY DEF OrphansInv
<1>7. \A b \in DOMAIN k11' : b \in OnChain[Old'] /\ b \in OnChain[New'] => ~Listed(b)'
  BY <1>1, <1>2, <1>3 DEF OrphansInv
<1>8. \A b \in DOMAIN k11' : b \notin OnChain[Old'] /\ b \notin OnChain[New'] => Listed(b)'
  BY <1>1, <1>2, <1>3 DEF OrphansInv
<1>9. Listed(B)' <=> Listed(B)
  BY <1>1 DEF Listed
<1>10. Written("confirm", 5)' => ~Listed(B)'
  BY <1>4, <1>9 DEF OrphansInv
<1>11. Written("reject", 1)' => Listed(B)'
  BY <1>5, <1>9 DEF OrphansInv
<1> QED BY <1>6, <1>7, <1>8, <1>10, <1>11 DEF OrphansInv

\* The block enters the 10_ keys as the tip, or leaves them.
LEMMA HeightPut ==
    ASSUME NEW b \in Block, NEW f, HeightMap(f, b) \/ HeightMap(f, Prev[b])
    PROVE  /\ HeightMap(Put(f, Height[b], b), b)
           /\ HeightMap(Del(f, Height[b]), Prev[b])
<1>1. /\ OnChain[b] = OnChain[Prev[b]] \cup {b} /\ Prev[b] \in AllBlocks
      /\ Height[b] = Height[Prev[b]] + 1 /\ Height[Prev[b]] \in Nat
  BY OnChainFacts, TreeTypes
<1>2. \A c \in OnChain[Prev[b]] : Height[c] <= Height[Prev[b]] /\ Height[c] \in Nat
  BY <1>1, OnChainFacts, TreeTypes
<1>3. \A c \in OnChain[Prev[b]] : Height[c] # Height[b]
  BY <1>1, <1>2
<1>4. \A c \in OnChain[Prev[b]] : Height[c] \in DOMAIN f /\ f[Height[c]] = c
  BY <1>1 DEF HeightMap
<1>5. DOMAIN f \cup {Height[b]} = {Height[c] : c \in OnChain[b]}
  BY <1>1 DEF HeightMap
<1>6. DOMAIN f \ {Height[b]} = {Height[c] : c \in OnChain[Prev[b]]}
  BY <1>1, <1>3 DEF HeightMap
<1>7. HeightMap(Put(f, Height[b], b), b)
  <2>1. DOMAIN Put(f, Height[b], b) = {Height[c] : c \in OnChain[b]}
    BY <1>5 DEF Put
  <2>2. \A c \in OnChain[Prev[b]] : Put(f, Height[b], b)[Height[c]] = c
    BY <1>3, <1>4 DEF Put
  <2>3. Put(f, Height[b], b)[Height[b]] = b
    BY DEF Put
  <2> QED BY <1>1, <2>1, <2>2, <2>3 DEF HeightMap
<1>8. HeightMap(Del(f, Height[b]), Prev[b])
  <2>1. DOMAIN Del(f, Height[b]) = {Height[c] : c \in OnChain[Prev[b]]}
    BY <1>6 DEF Del
  <2>2. \A c \in OnChain[Prev[b]] : Del(f, Height[b])[Height[c]] = c
    BY <1>3, <1>4 DEF Del
  <2> QED BY <2>1, <2>2 DEF HeightMap
<1> QED BY <1>7, <1>8

\* The same for the 14_ keys.
LEMMA TimePut ==
    ASSUME NEW b \in Block, NEW f, TimeMap(f, b) \/ TimeMap(f, Prev[b])
    PROVE  /\ TimeMap(Put(f, TimeKey(b), b), b)
           /\ TimeMap(Del(f, TimeKey(b)), Prev[b])
<1>1. /\ OnChain[b] = OnChain[Prev[b]] \cup {b} /\ Prev[b] \in AllBlocks
      /\ Height[b] = Height[Prev[b]] + 1 /\ Height[Prev[b]] \in Nat
  BY OnChainFacts, TreeTypes
<1>2. \A c \in OnChain[Prev[b]] : Height[c] <= Height[Prev[b]] /\ Height[c] \in Nat
  BY <1>1, OnChainFacts, TreeTypes
<1>3. \A c \in OnChain[Prev[b]] : Height[c] # Height[b]
  BY <1>1, <1>2
<1>4. \A c \in OnChain[Prev[b]] : TimeKey(c) # TimeKey(b)
  BY <1>3 DEF TimeKey
<1> HIDE DEF TimeKey
<1>5. \A c \in OnChain[Prev[b]] : TimeKey(c) \in DOMAIN f /\ f[TimeKey(c)] = c
  BY <1>1 DEF TimeMap
<1>6. DOMAIN f \cup {TimeKey(b)} = {TimeKey(c) : c \in OnChain[b]}
  BY <1>1 DEF TimeMap
<1>7. DOMAIN f \ {TimeKey(b)} = {TimeKey(c) : c \in OnChain[Prev[b]]}
  BY <1>1, <1>4 DEF TimeMap
<1>8. TimeMap(Put(f, TimeKey(b), b), b)
  <2>1. DOMAIN Put(f, TimeKey(b), b) = {TimeKey(c) : c \in OnChain[b]}
    BY <1>6 DEF Put
  <2>2. \A c \in OnChain[Prev[b]] : Put(f, TimeKey(b), b)[TimeKey(c)] = c
    BY <1>4, <1>5 DEF Put
  <2>3. Put(f, TimeKey(b), b)[TimeKey(b)] = b
    BY DEF Put
  <2> QED BY <1>1, <2>1, <2>2, <2>3 DEF TimeMap
<1>9. TimeMap(Del(f, TimeKey(b)), Prev[b])
  <2>1. DOMAIN Del(f, TimeKey(b)) = {TimeKey(c) : c \in OnChain[Prev[b]]}
    BY <1>7 DEF Del
  <2>2. \A c \in OnChain[Prev[b]] : Del(f, TimeKey(b))[TimeKey(c)] = c
    BY <1>4, <1>5 DEF Del
  <2> QED BY <2>1, <2>2 DEF TimeMap
<1> QED BY <1>8, <1>9

\* AcceptHeight and RejectHeight make the 10_ keys those of the new tip.
LEMMA HeightsWritten ==
    ASSUME RowsInv, HeightsInv, AcceptHeight \/ RejectHeight
    PROVE  HeightsInv'
<1>1. HeightMap(k10', New)
  <2>1. CASE AcceptHeight
    <3>1. Working("confirm", 1) /\ k10' = Put(k10, Height[B], B)
      BY <2>1 DEF AcceptHeight, H
    <3>2. Old = Prev[B] /\ New = B /\ B \in Block
      BY <3>1, RowTips DEF Working
    <3>3. HeightMap(k10, B) \/ HeightMap(k10, Prev[B])
      BY <3>2 DEF HeightsInv
    <3>4. HeightMap(Put(k10, Height[B], B), B)
      BY <3>2, <3>3, HeightPut
    <3> QED BY <3>1, <3>2, <3>4
  <2>2. CASE RejectHeight
    <3>1. Working("reject", 1) /\ k10' = Del(k10, Height[B])
      BY <2>2 DEF RejectHeight, H
    <3>2. Old = B /\ New = Prev[B] /\ B \in Block
      BY <3>1, RowTips DEF Working
    <3>3. HeightMap(k10, B) \/ HeightMap(k10, Prev[B])
      BY <3>2 DEF HeightsInv
    <3>4. HeightMap(Del(k10, Height[B]), Prev[B])
      BY <3>2, <3>3, HeightPut
    <3> QED BY <3>1, <3>2, <3>4
  <2> QED BY <2>1, <2>2
<1>2. New' = New
  BY WorkingKeeps DEF AcceptHeight, RejectHeight
<1>3. HeightMap(k10', New')
  BY <1>1, <1>2
<1> QED BY <1>3 DEF HeightsInv, HeightMap

\* AcceptTimestamp and RejectTimestamp make the 14_ keys those of the new tip, if
\* the time in the row is the highest of the chain of its block.
LEMMA TimesWritten ==
    ASSUME RowsInv, TimesInv, AcceptTimestamp \/ RejectTimestamp, T = NewestTime[B]
    PROVE  TimesInv'
<1>1. TimeMap(k14', New)
  <2>1. CASE AcceptTimestamp
    <3>1. Working("confirm", 5) /\ k14' = Put(k14, TimeKey(B), B)
      BY <2>1 DEF AcceptTimestamp, H, TimeKey
    <3>2. Old = Prev[B] /\ New = B /\ B \in Block
      BY <3>1, RowTips DEF Working
    <3>3. TimeMap(k14, B) \/ TimeMap(k14, Prev[B])
      BY <3>2 DEF TimesInv
    <3>4. TimeMap(Put(k14, TimeKey(B), B), B)
      BY <3>2, <3>3, TimePut
    <3> QED BY <3>1, <3>2, <3>4
  <2>2. CASE RejectTimestamp
    <3>1. Working("reject", 3) /\ k14' = Del(k14, TimeKey(B))
      BY <2>2 DEF RejectTimestamp, H, TimeKey
    <3>2. Old = B /\ New = Prev[B] /\ B \in Block
      BY <3>1, RowTips DEF Working
    <3>3. TimeMap(k14, B) \/ TimeMap(k14, Prev[B])
      BY <3>2 DEF TimesInv
    <3>4. TimeMap(Del(k14, TimeKey(B)), Prev[B])
      BY <3>2, <3>3, TimePut
    <3> QED BY <3>1, <3>2, <3>4
  <2> QED BY <2>1, <2>2
<1>2. New' = New
  BY WorkingKeeps DEF AcceptTimestamp, RejectTimestamp
<1>3. TimeMap(k14', New')
  BY <1>1, <1>2
<1> QED BY <1>3 DEF TimesInv, TimeMap, TimeKey

\* What BlocksInv' follows from in the step of a write.
LEMMA BlocksFrom ==
    ASSUME RowsInv, BlocksInv, NEW type, NEW n \in 0..6, Working(type, n),
           DOMAIN k11 \subseteq DOMAIN k11', DOMAIN k11' \subseteq AllBlocks,
           \A b \in DOMAIN k11' : k11'[b] = Obj(b, Old) \/ k11'[b] = Obj(b, New),
           type = "confirm" => B \in DOMAIN k11' /\ k11'[B] = Obj(B, New),
           type = "confirm" /\ n >= 2 => k11'[Prev[B]] = Obj(Prev[B], New),
           type = "reject" /\ n >= 2 => k11'[B] = Obj(B, New),
           type = "reject" /\ n >= 4 => k11'[Prev[B]] = Obj(Prev[B], New)
    PROVE  BlocksInv'
<1>1. /\ Old' = Old /\ New' = New /\ B' = B
      /\ \A ty, m : Written(ty, m)' => ty = type /\ m <= n + 1
  BY WorkingKeeps
<1>2. Written("confirm", 3)' => type = "confirm" /\ n >= 2
  BY <1>1
<1>3. Written("reject", 3)' => type = "reject" /\ n >= 2
  BY <1>1
<1>4. Written("reject", 5)' => type = "reject" /\ n >= 4
  BY <1>1
<1>5. OnChain[Old'] \subseteq DOMAIN k11' /\ DOMAIN k11' \subseteq AllBlocks
  BY <1>1 DEF BlocksInv
<1>6. \A b \in DOMAIN k11' : k11'[b] = Obj(b, Old') \/ k11'[b] = Obj(b, New')
  BY <1>1
<1>7. Written("confirm", 1)' => B' \in DOMAIN k11' /\ k11'[B'] = Obj(B', New')
  BY <1>1
<1>8. Written("confirm", 3)' => k11'[Prev[B']] = Obj(Prev[B'], New')
  BY <1>1, <1>2
<1>9. Written("reject", 3)' => k11'[B'] = Obj(B', New')
  BY <1>1, <1>3
<1>10. Written("reject", 5)' => k11'[Prev[B']] = Obj(Prev[B'], New')
  BY <1>1, <1>4
<1> QED BY <1>5, <1>6, <1>7, <1>8, <1>9, <1>10 DEF BlocksInv, Obj, NextOf

\* The object of the tip, of the block below it, and of a block undone.
LEMMA ObjTip ==
    ASSUME NEW b \in Block
    PROVE  /\ Obj(b, b) = [orphan |-> FALSE, next |-> NoBlock]
           /\ Obj(b, Prev[b]) = [orphan |-> TRUE, next |-> NoBlock]
           /\ Obj(Prev[b], b) = [orphan |-> FALSE, next |-> b]
           /\ Obj(Prev[b], Prev[b]) = [orphan |-> FALSE, next |-> NoBlock]
<1>1. /\ b \in AllBlocks /\ Prev[b] \in AllBlocks /\ OnChain[b] = OnChain[Prev[b]] \cup {b}
      /\ b \in OnChain[b] /\ Prev[b] \in OnChain[Prev[b]]
  BY OnChainFacts, TreeTypes
<1>2. b \notin OnChain[Prev[b]]
  <2>1. Height[b] = Height[Prev[b]] + 1 /\ Height[Prev[b]] \in Nat
    BY <1>1, TreeTypes
  <2>2. \A c \in OnChain[Prev[b]] : Height[c] <= Height[Prev[b]]
    BY <1>1, OnChainFacts
  <2> QED BY <2>1, <2>2
<1>3. /\ NextOf(b, b) = NoBlock /\ NextOf(b, Prev[b]) = NoBlock
      /\ NextOf(Prev[b], Prev[b]) = NoBlock
  BY <1>1, <1>2, NextOfNone
<1>4. NextOf(Prev[b], b) = b
  BY NextOfTip
<1> QED BY <1>1, <1>2, <1>3, <1>4 DEF Obj

\* AcceptObject: the block is stored as the tip.
LEMMA AcceptObjectBlocks ==
    ASSUME RowsInv, BlocksInv, AcceptObject
    PROVE  BlocksInv' /\ DOMAIN k11' = DOMAIN k11 \cup {B}
<1>1. Working("confirm", 0) /\ k11' = Put(k11, B, [orphan |-> FALSE, next |-> NoBlock])
  BY DEF AcceptObject
<1>2. Old = Prev[B] /\ New = B /\ B \in Block /\ B \in AllBlocks
  BY <1>1, RowTips DEF Working
<1>3. k11' = Put(k11, B, Obj(B, New))
  BY <1>1, <1>2, ObjTip
<1>4. DOMAIN k11' = DOMAIN k11 \cup {B} /\ k11'[B] = Obj(B, New)
  BY <1>3 DEF Put
<1>5. \A b \in DOMAIN k11' : b # B => b \in DOMAIN k11 /\ k11'[b] = k11[b]
  BY <1>3 DEF Put
<1>6. \A b \in DOMAIN k11' : k11'[b] = Obj(b, Old) \/ k11'[b] = Obj(b, New)
  BY <1>4, <1>5 DEF BlocksInv
<1>7. DOMAIN k11' \subseteq AllBlocks
  BY <1>2, <1>4 DEF BlocksInv
<1>8. BlocksInv'
  <2>1. DOMAIN k11 \subseteq DOMAIN k11' /\ B \in DOMAIN k11'
    BY <1>4
  <2>2. ~(0 >= 2) /\ 0 \in 0..6
    OBVIOUS
  <2> QED BY <1>1, <1>4, <1>6, <1>7, <2>1, <2>2, BlocksFrom
<1> QED BY <1>4, <1>8

\* A field of an object changes.
LEMMA ObjExcept ==
    ASSUME NEW o, NEW x, NEW y, NEW r, r = [orphan |-> o, next |-> x]
    PROVE  /\ [r EXCEPT !.next = y] = [orphan |-> o, next |-> y]
           /\ [r EXCEPT !.orphan = y] = [orphan |-> y, next |-> x]
OBVIOUS

\* AcceptPrevLink: the block below gets its link.
LEMMA AcceptPrevLinkBlocks ==
    ASSUME RowsInv, BlocksInv, AcceptPrevLink
    PROVE  BlocksInv' /\ DOMAIN k11' = DOMAIN k11
<1>1. Working("confirm", 2) /\ k11' = [k11 EXCEPT ![Prev[B]] = [k11[Prev[B]] EXCEPT !.next = B]]
  BY DEF AcceptPrevLink
<1>2. /\ Old = Prev[B] /\ New = B /\ B \in Block /\ Prev[B] \in AllBlocks
      /\ Written("confirm", 1)
  BY <1>1, RowTips, WorkingKeeps DEF Working
<1>3. Prev[B] \in DOMAIN k11 /\ B \in DOMAIN k11 /\ k11[B] = Obj(B, New)
  BY <1>2, OnChainFacts DEF BlocksInv
<1>4. k11[Prev[B]] = Obj(Prev[B], Prev[B]) \/ k11[Prev[B]] = Obj(Prev[B], B)
  BY <1>2, <1>3 DEF BlocksInv
<1>5. [k11[Prev[B]] EXCEPT !.next = B] = Obj(Prev[B], New)
  <2>1. PICK r : r = k11[Prev[B]]
    OBVIOUS
  <2>2. r = [orphan |-> FALSE, next |-> NoBlock] \/ r = [orphan |-> FALSE, next |-> B]
    BY <1>2, <1>4, <2>1, ObjTip
  <2>3. PICK o, x : o = FALSE /\ r = [orphan |-> o, next |-> x]
    BY <2>2
  <2>4. [r EXCEPT !.next = B] = [orphan |-> o, next |-> B]
    BY <2>3, ObjExcept
  <2>5. [r EXCEPT !.next = B] = [orphan |-> FALSE, next |-> B]
    BY <2>3, <2>4
  <2> QED BY <1>2, <2>1, <2>5, ObjTip
<1>6. k11' = [k11 EXCEPT ![Prev[B]] = Obj(Prev[B], New)]
  BY <1>1, <1>5
<1>7. DOMAIN k11' = DOMAIN k11 /\ k11'[Prev[B]] = Obj(Prev[B], New)
  BY <1>3, <1>6
<1>8. \A b \in DOMAIN k11 : b # Prev[B] => k11'[b] = k11[b]
  BY <1>6
<1>9. B # Prev[B]
  BY <1>2, TreeTypes
<1>10. \A b \in DOMAIN k11' : k11'[b] = Obj(b, Old) \/ k11'[b] = Obj(b, New)
  BY <1>7, <1>8 DEF BlocksInv
<1>11. k11'[B] = Obj(B, New) /\ DOMAIN k11' \subseteq AllBlocks
  BY <1>3, <1>7, <1>8, <1>9 DEF BlocksInv
<1> QED BY <1>1, <1>3, <1>7, <1>10, <1>11, BlocksFrom

\* RejectFlag: the block becomes an orphan.
LEMMA RejectFlagBlocks ==
    ASSUME RowsInv, BlocksInv, RejectFlag
    PROVE  BlocksInv' /\ DOMAIN k11' = DOMAIN k11
<1>1. Working("reject", 2) /\ k11' = [k11 EXCEPT ![B] = [k11[B] EXCEPT !.orphan = TRUE]]
  BY DEF RejectFlag
<1>2. Old = B /\ New = Prev[B] /\ B \in Block /\ B \in AllBlocks
  BY <1>1, RowTips DEF Working
<1>3. B \in DOMAIN k11
  BY <1>2, OnChainFacts DEF BlocksInv
<1>4. k11[B] = Obj(B, B) \/ k11[B] = Obj(B, Prev[B])
  BY <1>2, <1>3 DEF BlocksInv
<1>5. [k11[B] EXCEPT !.orphan = TRUE] = Obj(B, New)
  <2>1. PICK r : r = k11[B]
    OBVIOUS
  <2>2. r = [orphan |-> FALSE, next |-> NoBlock] \/ r = [orphan |-> TRUE, next |-> NoBlock]
    BY <1>2, <1>4, <2>1, ObjTip
  <2>3. PICK o, x : x = NoBlock /\ r = [orphan |-> o, next |-> x]
    BY <2>2
  <2>4. PICK y : y = TRUE
    OBVIOUS
  <2>5. [r EXCEPT !.orphan = y] = [orphan |-> y, next |-> x]
    BY <2>3, ObjExcept
  <2>6. [r EXCEPT !.orphan = TRUE] = [orphan |-> TRUE, next |-> NoBlock]
    BY <2>3, <2>4, <2>5
  <2> QED BY <1>2, <2>1, <2>6, ObjTip
<1>6. k11' = [k11 EXCEPT ![B] = Obj(B, New)]
  BY <1>1, <1>5
<1>7. DOMAIN k11' = DOMAIN k11 /\ k11'[B] = Obj(B, New)
  BY <1>3, <1>6
<1>8. \A b \in DOMAIN k11 : b # B => k11'[b] = k11[b]
  BY <1>6
<1>9. \A b \in DOMAIN k11' : k11'[b] = Obj(b, Old) \/ k11'[b] = Obj(b, New)
  BY <1>7, <1>8 DEF BlocksInv
<1>10. DOMAIN k11' \subseteq AllBlocks
  BY <1>7 DEF BlocksInv
<1> QED BY <1>1, <1>3, <1>7, <1>9, <1>10, BlocksFrom

\* RejectPrevLink: the block below becomes the tip.
LEMMA RejectPrevLinkBlocks ==
    ASSUME RowsInv, BlocksInv, RejectPrevLink
    PROVE  BlocksInv' /\ DOMAIN k11' = DOMAIN k11
<1>1. Working("reject", 4)
      /\ k11' = [k11 EXCEPT ![Prev[B]] = [k11[Prev[B]] EXCEPT !.next = NoBlock]]
  BY DEF RejectPrevLink
<1>2. /\ Old = B /\ New = Prev[B] /\ B \in Block /\ Prev[B] \in AllBlocks
      /\ Written("reject", 3)
  BY <1>1, RowTips, WorkingKeeps DEF Working
<1>3. Prev[B] \in DOMAIN k11 /\ B \in DOMAIN k11 /\ k11[B] = Obj(B, New)
  BY <1>2, OnChainFacts DEF BlocksInv
<1>4. k11[Prev[B]] = Obj(Prev[B], Prev[B]) \/ k11[Prev[B]] = Obj(Prev[B], B)
  BY <1>2, <1>3 DEF BlocksInv
<1>5. [k11[Prev[B]] EXCEPT !.next = NoBlock] = Obj(Prev[B], New)
  <2>1. PICK r : r = k11[Prev[B]]
    OBVIOUS
  <2>2. r = [orphan |-> FALSE, next |-> NoBlock] \/ r = [orphan |-> FALSE, next |-> B]
    BY <1>2, <1>4, <2>1, ObjTip
  <2>3. PICK o, x : o = FALSE /\ r = [orphan |-> o, next |-> x]
    BY <2>2
  <2>4. [r EXCEPT !.next = NoBlock] = [orphan |-> o, next |-> NoBlock]
    BY <2>3, ObjExcept
  <2>5. [r EXCEPT !.next = NoBlock] = [orphan |-> FALSE, next |-> NoBlock]
    BY <2>3, <2>4
  <2> QED BY <1>2, <2>1, <2>5, ObjTip
<1>6. k11' = [k11 EXCEPT ![Prev[B]] = Obj(Prev[B], New)]
  BY <1>1, <1>5
<1>7. DOMAIN k11' = DOMAIN k11 /\ k11'[Prev[B]] = Obj(Prev[B], New)
  BY <1>3, <1>6
<1>8. \A b \in DOMAIN k11 : b # Prev[B] => k11'[b] = k11[b]
  BY <1>6
<1>9. B # Prev[B]
  BY <1>2, TreeTypes
<1>10. \A b \in DOMAIN k11' : k11'[b] = Obj(b, Old) \/ k11'[b] = Obj(b, New)
  BY <1>7, <1>8 DEF BlocksInv
<1>11. k11'[B] = Obj(B, New) /\ DOMAIN k11' \subseteq AllBlocks
  BY <1>3, <1>7, <1>8, <1>9 DEF BlocksInv
<1> QED BY <1>1, <1>3, <1>7, <1>10, <1>11, BlocksFrom

\* The 13_ keys have only blocks of their height, and no key is empty.
OrphanKeys(f, S) ==
    \A h \in DOMAIN f : /\ f[h] # {}
                        /\ \A b \in f[h] : b \in Block /\ b \in S /\ Height[b] = h

InKeys(f, b) == Height[b] \in DOMAIN f /\ b \in f[Height[b]]

\* _removeOrphanBlockHash() removes the block, and _insertOrphanBlockHash() adds it.
LEMMA OrphanPut ==
    ASSUME NEW f, NEW S, NEW b \in Block, OrphanKeys(f, S)
    PROVE  /\ OrphanKeys(WithoutOrphan(f, Height[b], b), S)
           /\ \A x : InKeys(WithoutOrphan(f, Height[b], b), x) <=> InKeys(f, x) /\ x # b
<1> DEFINE h == Height[b]
           g == WithoutOrphan(f, h, b)
<1>1. CASE h \notin DOMAIN f
  <2>1. g = f
    BY <1>1 DEF WithoutOrphan
  <2>2. \A x : InKeys(f, x) => x # b
    BY <1>1 DEF InKeys
  <2> QED BY <2>1, <2>2
<1>2. CASE h \in DOMAIN f /\ f[h] \ {b} = {}
  <2>1. g = Del(f, h)
    BY <1>2 DEF WithoutOrphan
  <2>2. DOMAIN g = DOMAIN f \ {h} /\ \A i \in DOMAIN g : g[i] = f[i]
    BY <2>1 DEF Del
  <2> HIDE DEF g
  <2>3. OrphanKeys(g, S)
    BY <2>2 DEF OrphanKeys
  <2>4. ASSUME NEW x PROVE InKeys(g, x) <=> InKeys(f, x) /\ x # b
    BY <1>2, <2>2 DEF InKeys
  <2> QED BY <2>3, <2>4 DEF g
<1>3. CASE h \in DOMAIN f /\ f[h] \ {b} # {}
  <2>1. g = Put(f, h, f[h] \ {b})
    BY <1>3 DEF WithoutOrphan
  <2>2. DOMAIN g = DOMAIN f /\ g[h] = f[h] \ {b} /\ \A i \in DOMAIN g : i # h => g[i] = f[i]
    BY <1>3, <2>1 DEF Put
  <2> HIDE DEF g
  <2>3. OrphanKeys(g, S)
    BY <1>3, <2>2 DEF OrphanKeys
  <2>4. ASSUME NEW x PROVE InKeys(g, x) <=> InKeys(f, x) /\ x # b
    BY <1>3, <2>2 DEF InKeys
  <2> QED BY <2>3, <2>4 DEF g
<1> QED BY <1>1, <1>2, <1>3

WithOrphan(f, h, b) == Put(f, h, (IF h \in DOMAIN f THEN f[h] ELSE {}) \cup {b})

\* One orphan more in the list of its height.
LEMMA OrphanAdd ==
    ASSUME NEW f, NEW S, NEW b \in Block, b \in S, OrphanKeys(f, S), NEW g,
           g = WithOrphan(f, Height[b], b)
    PROVE  /\ OrphanKeys(g, S)
           /\ \A x : InKeys(g, x) <=> InKeys(f, x) \/ x = b
<1> DEFINE h == Height[b]
           old == IF h \in DOMAIN f THEN f[h] ELSE {}
<1>1. /\ DOMAIN g = DOMAIN f \cup {h} /\ g[h] = old \cup {b}
      /\ \A i \in DOMAIN g : i # h => g[i] = f[i]
  BY DEF Put, WithOrphan
<1>2. \A x \in old : h \in DOMAIN f /\ x \in f[h]
  OBVIOUS
<1>3. h \in DOMAIN f => old = f[h]
  OBVIOUS
<1> HIDE DEF old
<1>4. OrphanKeys(g, S)
  <2>1. \A x \in g[h] : x \in Block /\ x \in S /\ Height[x] = h
    BY <1>1, <1>2 DEF OrphanKeys
  <2>2. g[h] # {}
    BY <1>1
  <2>3. \A i \in DOMAIN g : i # h => i \in DOMAIN f /\ g[i] = f[i]
    BY <1>1
  <2> HIDE DEF h
  <2> QED BY <2>1, <2>2, <2>3 DEF OrphanKeys
<1>5. ASSUME NEW x PROVE InKeys(g, x) <=> InKeys(f, x) \/ x = b
  BY <1>1, <1>2, <1>3 DEF InKeys
<1> QED BY <1>4, <1>5

\* AcceptOrphans and RejectOrphans list the orphans of the new tip.
LEMMA OrphansWritten ==
    ASSUME RowsInv, BlocksInv, OrphansInv, AcceptOrphans \/ RejectOrphans
    PROVE  OrphansInv'
<1>1. OrphanKeys(k13, DOMAIN k11) /\ k11' = k11
  BY DEF OrphansInv, OrphanKeys, AcceptOrphans, RejectOrphans
<1>2. \A b : (Listed(b) <=> InKeys(k13, b)) /\ (Listed(b)' <=> InKeys(k13', b))
  BY DEF Listed, InKeys
<1>3. /\ Old' = Old /\ New' = New /\ B' = B
      /\ consumed < Len(rows)
  BY WorkingKeeps DEF AcceptOrphans, RejectOrphans
<1>4. PICK c : c = B
  OBVIOUS
<1>5. CASE AcceptOrphans
  <2>1. Working("confirm", 4) /\ k13' = WithoutOrphan(k13, Height[c], c)
    BY <1>4, <1>5 DEF AcceptOrphans, H
  <2>2. Old = Prev[B] /\ New = B /\ c \in Block /\ c \in OnChain[New]
    BY <1>3, <1>4, <2>1, RowTips, OnChainFacts DEF Working
  <2>3. OrphanKeys(k13', DOMAIN k11) /\ \A x : InKeys(k13', x) <=> InKeys(k13, x) /\ x # c
    BY <1>1, <2>1, <2>2, OrphanPut
  <2>4. \A b : Listed(b)' <=> Listed(b) /\ b # c
    BY <1>2, <2>3
  <2>5. \A b \in DOMAIN k11' : b \in OnChain[Old'] /\ b \in OnChain[New'] => ~Listed(b)'
    BY <1>1, <1>3, <2>4 DEF OrphansInv
  <2>6. \A b \in DOMAIN k11' : b \notin OnChain[Old'] /\ b \notin OnChain[New'] => Listed(b)'
    BY <1>1, <1>3, <2>2, <2>4 DEF OrphansInv
  <2>7. ~Listed(B)'
    <3>1. ~Listed(c)'
      BY <2>4
    <3> QED BY <1>3, <1>4, <3>1 DEF Listed
  <2>8. ~Written("reject", 1)'
    BY <2>1, WorkingKeeps
  <2>9. \A h \in DOMAIN k13' :
          /\ k13'[h] # {}
          /\ \A b \in k13'[h] : b \in Block /\ b \in DOMAIN k11' /\ Height[b] = h
    BY <1>1, <2>3 DEF OrphanKeys
  <2> QED BY <2>5, <2>6, <2>7, <2>8, <2>9 DEF OrphansInv
<1>6. CASE RejectOrphans
  <2>1. /\ Working("reject", 0)
        /\ k13' = WithOrphan(k13, Height[c], c)
    BY <1>4, <1>6 DEF RejectOrphans, H, WithOrphan
  <2>2. Old = B /\ New = Prev[B] /\ c \in Block /\ c \in OnChain[Old] /\ c \notin OnChain[New]
    BY <1>3, <1>4, <2>1, RowTips, OnChainFacts DEF Working
  <2>3. c \in DOMAIN k11
    BY <2>2 DEF BlocksInv
  <2>4. OrphanKeys(k13', DOMAIN k11) /\ \A x : InKeys(k13', x) <=> InKeys(k13, x) \/ x = c
    <3>1. PICK f, g, S : f = k13 /\ g = k13' /\ S = DOMAIN k11
      OBVIOUS
    <3>2. g = WithOrphan(f, Height[c], c)
      BY <2>1, <3>1
    <3>3. OrphanKeys(f, S) /\ c \in S /\ c \in Block
      BY <1>1, <2>2, <2>3, <3>1
    <3>4. OrphanKeys(g, S) /\ \A x : InKeys(g, x) <=> InKeys(f, x) \/ x = c
      BY <3>2, <3>3, OrphanAdd
    <3> QED BY <3>1, <3>4
  <2>5. \A b : Listed(b)' <=> Listed(b) \/ b = c
    BY <1>2, <2>4
  <2>6. \A b \in DOMAIN k11' : b \in OnChain[Old'] /\ b \in OnChain[New'] => ~Listed(b)'
    BY <1>1, <1>3, <2>2, <2>5 DEF OrphansInv
  <2>7. \A b \in DOMAIN k11' : b \notin OnChain[Old'] /\ b \notin OnChain[New'] => Listed(b)'
    BY <1>1, <1>3, <2>5 DEF OrphansInv
  <2>8. Listed(B)'
    <3>1. Listed(c)'
      BY <2>5
    <3> QED BY <1>3, <1>4, <3>1 DEF Listed
  <2>9. ~Written("confirm", 5)'
    BY <2>1 DEF Written, Working
  <2>10. \A h \in DOMAIN k13' :
          /\ k13'[h] # {}
          /\ \A b \in k13'[h] : b \in Block /\ b \in DOMAIN k11' /\ Height[b] = h
    BY <1>1, <2>4 DEF OrphanKeys
  <2> QED BY <2>6, <2>7, <2>8, <2>9, <2>10 DEF OrphansInv
<1> QED BY <1>5, <1>6

-----------------------------------------------------------------------------
(* The store, step by step. *)

StoreInv == RowsInv /\ HeightsInv /\ BlocksInv /\ OrphansInv /\ TimesInv

Accepts ==
    \/ AcceptObject \/ AcceptHeight \/ AcceptPrevLink \/ AcceptTxs \/ AcceptOrphans
    \/ AcceptTimestamp \/ Recognize

Rejects == RejectOrphans \/ RejectHeight \/ RejectFlag \/ RejectTimestamp \/ RejectPrevLink

\* Every write of acceptBlock() preserves the invariant of the store.
LEMMA StoreAccepts ==
    ASSUME StoreInv, Accepts, T = NewestTime[B]
    PROVE  StoreInv'
<1> USE DEF StoreInv
<1>1. CASE AcceptObject
  <2>1. Working("confirm", 0) /\ UNCHANGED <<k10, k13, k14>>
    BY <1>1 DEF AcceptObject
  <2>2. BlocksInv' /\ DOMAIN k11' = DOMAIN k11 \cup {B}
    BY <1>1, AcceptObjectBlocks
  <2> QED BY <2>1, <2>2, WorkingKeeps, HeightsWrite, OrphansWrite, TimesWrite
<1>2. CASE AcceptHeight
  <2>1. Working("confirm", 1) /\ UNCHANGED <<k11, k13, k14>>
    BY <1>2 DEF AcceptHeight
  <2> QED BY <1>2, <2>1, WorkingKeeps, HeightsWritten, BlocksWrite, OrphansWrite, TimesWrite
<1>3. CASE AcceptPrevLink
  <2>1. Working("confirm", 2) /\ UNCHANGED <<k10, k13, k14>>
    BY <1>3 DEF AcceptPrevLink
  <2>2. BlocksInv' /\ DOMAIN k11' = DOMAIN k11
    BY <1>3, AcceptPrevLinkBlocks
  <2> QED BY <2>1, <2>2, WorkingKeeps, HeightsWrite, OrphansWrite, TimesWrite
<1>4. CASE AcceptTxs
  <2>1. Working("confirm", 3) /\ UNCHANGED <<k10, k11, k13, k14>>
    BY <1>4 DEF AcceptTxs
  <2> QED BY <2>1, WorkingKeeps, HeightsWrite, BlocksWrite, OrphansWrite, TimesWrite
<1>5. CASE AcceptOrphans
  <2>1. Working("confirm", 4) /\ UNCHANGED <<k10, k11, k14>>
    BY <1>5 DEF AcceptOrphans
  <2> QED BY <1>5, <2>1, WorkingKeeps, HeightsWrite, BlocksWrite, OrphansWritten, TimesWrite
<1>6. CASE AcceptTimestamp
  <2>1. Working("confirm", 5) /\ UNCHANGED <<k10, k11, k13>>
    BY <1>6 DEF AcceptTimestamp
  <2> QED BY <1>6, <2>1, WorkingKeeps, HeightsWrite, BlocksWrite, OrphansWrite, TimesWritten
<1>7. CASE Recognize
  <2>1. Working("confirm", 6) /\ UNCHANGED <<k10, k11, k13, k14>>
    BY <1>7 DEF Recognize
  <2> QED BY <2>1, WorkingKeeps, HeightsWrite, BlocksWrite, OrphansWrite, TimesWrite
<1> QED BY <1>1, <1>2, <1>3, <1>4, <1>5, <1>6, <1>7 DEF Accepts

\* Every write of rejectBlock() does.
LEMMA StoreRejects ==
    ASSUME StoreInv, Rejects, T = NewestTime[B]
    PROVE  StoreInv'
<1> USE DEF StoreInv
<1>1. CASE RejectOrphans
  <2>1. Working("reject", 0) /\ UNCHANGED <<k10, k11, k14>>
    BY <1>1 DEF RejectOrphans
  <2> QED BY <1>1, <2>1, WorkingKeeps, HeightsWrite, BlocksWrite, OrphansWritten, TimesWrite
<1>2. CASE RejectHeight
  <2>1. Working("reject", 1) /\ UNCHANGED <<k11, k13, k14>>
    BY <1>2 DEF RejectHeight
  <2> QED BY <1>2, <2>1, WorkingKeeps, HeightsWritten, BlocksWrite, OrphansWrite, TimesWrite
<1>3. CASE RejectFlag
  <2>1. Working("reject", 2) /\ UNCHANGED <<k10, k13, k14>>
    BY <1>3 DEF RejectFlag
  <2>2. BlocksInv' /\ DOMAIN k11' = DOMAIN k11
    BY <1>3, RejectFlagBlocks
  <2> QED BY <2>1, <2>2, WorkingKeeps, HeightsWrite, OrphansWrite, TimesWrite
<1>4. CASE RejectTimestamp
  <2>1. Working("reject", 3) /\ UNCHANGED <<k10, k11, k13>>
    BY <1>4 DEF RejectTimestamp
  <2> QED BY <1>4, <2>1, WorkingKeeps, HeightsWrite, BlocksWrite, OrphansWrite, TimesWritten
<1>5. CASE RejectPrevLink
  <2>1. Working("reject", 4) /\ UNCHANGED <<k10, k13, k14>>
    BY <1>5 DEF RejectPrevLink
  <2>2. BlocksInv' /\ DOMAIN k11' = DOMAIN k11
    BY <1>5, RejectPrevLinkBlocks
  <2> QED BY <2>1, <2>2, WorkingKeeps, HeightsWrite, OrphansWrite, TimesWrite
<1> QED BY <1>1, <1>2, <1>3, <1>4, <1>5 DEF Rejects

-----------------------------------------------------------------------------
(* The window of timestamps. *)

\* An interval, its ends and its size.
LEMMA IntervalEnds ==
    ASSUME NEW a \in Nat, NEW c \in Nat, a <= c
    PROVE  Max(a..c) = c /\ Min(a..c) = a /\ Cardinality(a..c) = c - a + 1
<1>1. Max(a..c) = c
  BY DEF Max
<1>2. Min(a..c) = a
  BY DEF Min
<1>3. Cardinality(a..c) = c - a + 1
  BY FS_Interval
<1> QED BY <1>1, <1>2, <1>3

\* An element that no other exceeds is the maximum.
LEMMA MaxIs ==
    ASSUME NEW M, NEW m \in M, m \in Nat, \A y \in M : y \in Nat /\ y <= m
    PROVE  Max(M) = m
<1>1. \A y \in M : m >= y
  OBVIOUS
<1>2. Max(M) \in M /\ \A y \in M : Max(M) >= y
  BY <1>1 DEF Max
<1>3. Max(M) >= m /\ Max(M) <= m /\ Max(M) \in Nat
  BY <1>2
<1> QED BY <1>3

\* The values that the assumptions on headers and limits give numbers to.
LEMMA WindowTypes ==
    /\ Limit \in Nat /\ Limit >= 1 /\ Recent \in Nat /\ Recent >= 1
    /\ Height[Loaded] \in Nat /\ Height[Begin] \in Nat
    /\ \A b \in AllBlocks : Time[b] \in Nat /\ Limit >= Recent + Height[b] - Height[Loaded]
<1>1. Limit \in Nat /\ Limit >= 1 /\ Recent \in Nat /\ Recent >= 1
  BY TimeAssumption
<1>2. \A b \in AllBlocks : Time[b] \in Nat /\ Limit >= Recent + Height[b] - Height[Loaded]
  BY TimeAssumption
<1> QED BY <1>1, <1>2, TreeTypes

\* The window of a tip above the loaded one holds its newest timestamp.
LEMMA WindowHasNewest ==
    ASSUME NEW f, NEW t \in AllBlocks, NEW lo \in Nat, WindowAt(f, t, lo), Loaded \in OnChain[t]
    PROVE  /\ \A h \in DOMAIN f : \E b \in OnChain[t] : Height[b] = h /\ f[h] = Time[b]
           /\ \A h \in DOMAIN f : f[h] \in Nat /\ f[h] <= NewestTime[t]
           /\ \E h \in DOMAIN f : f[h] = NewestTime[t]
<1>1. /\ Height[t] \in Nat /\ Height[Loaded] \in Nat /\ Height[Loaded] <= Height[t]
      /\ Height[Begin] \in Nat /\ Recent \in Nat
  BY OnChainFacts, TreeTypes, WindowTypes
<1>2. /\ lo >= Height[Begin] /\ DOMAIN f = lo..Height[t]
      /\ lo = Height[Begin] \/ lo <= Height[Loaded] - Recent + 1
      /\ \A b \in OnChain[t] : Height[b] \in DOMAIN f => f[Height[b]] = Time[b]
  BY DEF WindowAt
<1>3. ASSUME NEW h \in DOMAIN f
      PROVE  \E b \in OnChain[t] : Height[b] = h /\ f[h] = Time[b]
  <2>1. h \in Height[Begin]..Height[t]
    BY <1>1, <1>2
  <2>2. PICK b \in OnChain[t] : Height[b] = h
    BY <2>1, OnChainHeights
  <2> QED BY <1>2, <2>2
<1>4. ASSUME NEW h \in DOMAIN f PROVE f[h] \in Nat /\ f[h] <= NewestTime[t]
  <2>1. PICK b \in OnChain[t] : f[h] = Time[b]
    BY <1>3
  <2>2. b \in AllBlocks
    BY OnChainFacts
  <2> QED BY <2>1, <2>2, WindowTypes, NewestTimeMax
<1>5. \E h \in DOMAIN f : f[h] = NewestTime[t]
  <2>1. PICK c \in OnChain[t] : Height[t] - Height[c] < Recent /\ Time[c] = NewestTime[t]
    BY TimeAssumption
  <2>2. Height[c] \in Nat /\ Height[Begin] <= Height[c] /\ Height[c] <= Height[t]
    BY OnChainFacts, TreeTypes
  <2>3. Height[c] \in lo..Height[t]
    BY <1>1, <1>2, <2>1, <2>2
  <2> QED BY <1>2, <2>1, <2>3
<1> QED BY <1>3, <1>4, <1>5

\* pushBlock() makes the window of the new tip.
LEMMA PushWindow ==
    ASSUME NEW w, NEW b \in Block, NEW lo \in Nat, WindowAt(w.ts, Prev[b], lo),
           w.max = NewestTime[Prev[b]]
    PROVE  LET v == PushBlock(w, Height[b], Time[b]) IN
           (\E l \in Nat : WindowAt(v.ts, b, l)) /\ v.max = NewestTime[b]
<1> DEFINE v == PushBlock(w, Height[b], Time[b])
           f == Put(w.ts, Height[b], Time[b])
<1>1. /\ v.ts = IF Cardinality(DOMAIN f) > Limit THEN Del(f, Min(DOMAIN f)) ELSE f
      /\ v.max = IF Time[b] > w.max THEN Time[b] ELSE w.max
  BY DEF PushBlock
<1>2. v.max = NewestTime[b]
  BY <1>1, NewestTimeStep
<1>3. /\ b \in AllBlocks /\ Prev[b] \in AllBlocks /\ Height[b] = Height[Prev[b]] + 1
      /\ Height[b] \in Nat /\ Height[Prev[b]] \in Nat /\ OnChain[b] = OnChain[Prev[b]] \cup {b}
  BY OnChainFacts, TreeTypes
<1>4. /\ lo >= Height[Begin] /\ lo <= Height[Prev[b]] /\ Height[Prev[b]] - lo < Limit
      /\ lo = Height[Begin] \/ lo <= Height[Loaded] - Recent + 1
      /\ DOMAIN w.ts = lo..Height[Prev[b]]
      /\ \A c \in OnChain[Prev[b]] : Height[c] \in DOMAIN w.ts => w.ts[Height[c]] = Time[c]
  BY DEF WindowAt
<1>5. /\ Limit \in Nat /\ Limit >= 1 /\ Recent \in Nat /\ Height[Loaded] \in Nat
      /\ Height[Begin] \in Nat /\ Limit >= Recent + Height[b] - Height[Loaded]
  BY <1>3, WindowTypes
<1>6. DOMAIN f = lo..Height[b]
  BY <1>3, <1>4 DEF Put
<1>7. \A c \in OnChain[b] : Height[c] \in DOMAIN f => f[Height[c]] = Time[c]
  <2>1. f[Height[b]] = Time[b]
    BY DEF Put
  <2>2. ASSUME NEW c \in OnChain[Prev[b]], Height[c] \in DOMAIN f PROVE f[Height[c]] = Time[c]
    <3>1. Height[c] <= Height[Prev[b]]
      BY <1>3, OnChainFacts
    <3>2. Height[c] \in lo..Height[Prev[b]] /\ Height[c] # Height[b]
      BY <1>3, <1>6, <2>2, <3>1
    <3> QED BY <1>4, <2>2, <3>2 DEF Put
  <2> QED BY <1>3, <2>1, <2>2
<1> HIDE DEF f, v
<1>8. Cardinality(DOMAIN f) = Height[b] - lo + 1 /\ Min(DOMAIN f) = lo
  <2>1. lo <= Height[b]
    BY <1>3, <1>4
  <2>2. Cardinality(lo..Height[b]) = Height[b] - lo + 1 /\ Min(lo..Height[b]) = lo
    BY <1>3, <2>1, IntervalEnds
  <2> QED BY <1>6, <2>2
<1>9. CASE Cardinality(DOMAIN f) > Limit
  <2>1. v.ts = Del(f, lo)
    BY <1>1, <1>8, <1>9
  <2>2. Height[b] = lo + Limit
    <3>1. Height[b] - lo + 1 > Limit
      BY <1>8, <1>9
    <3>2. Height[Prev[b]] - lo < Limit
      BY <1>4
    <3> QED BY <1>3, <1>5, <3>1, <3>2
  <2>3. DOMAIN v.ts = (lo + 1)..Height[b] /\ \A h \in DOMAIN v.ts : v.ts[h] = f[h] /\ h \in DOMAIN f
    BY <1>3, <1>6, <2>1 DEF Del
  <2>4. /\ lo + 1 \in Nat /\ lo + 1 >= Height[Begin] /\ lo + 1 <= Height[b]
        /\ Height[b] - (lo + 1) < Limit /\ lo + 1 <= Height[Loaded] - Recent + 1
    <3>1. lo >= Height[Begin]
      BY <1>4
    <3> QED BY <1>3, <1>5, <2>2, <3>1
  <2>5. \A c \in OnChain[b] : Height[c] \in DOMAIN v.ts => v.ts[Height[c]] = Time[c]
    BY <1>7, <2>3
  <2>6. WindowAt(v.ts, b, lo + 1)
    BY <2>3, <2>4, <2>5 DEF WindowAt
  <2> QED BY <1>2, <2>4, <2>6 DEF v
<1>10. CASE ~(Cardinality(DOMAIN f) > Limit)
  <2>1. v.ts = f
    BY <1>1, <1>10
  <2>2. lo <= Height[b] /\ Height[b] - lo < Limit
    BY <1>3, <1>4, <1>5, <1>8, <1>10
  <2>3. WindowAt(v.ts, b, lo)
    BY <1>4, <1>6, <1>7, <2>1, <2>2 DEF WindowAt
  <2> QED BY <1>2, <2>3 DEF v
<1> QED BY <1>9, <1>10

\* popBlock() makes that of the tip below, down to the loaded one.
LEMMA PopWindow ==
    ASSUME NEW w, NEW b \in Block, NEW lo \in Nat, WindowAt(w.ts, b, lo),
           Loaded \in OnChain[Prev[b]]
    PROVE  /\ \E l \in Nat : WindowAt(PopBlock(w).ts, Prev[b], l)
           /\ PopBlock(w).max = NewestTime[Prev[b]]
<1> DEFINE v == PopBlock(w)
           f == Del(w.ts, Max(DOMAIN w.ts))
<1>1. v.ts = f /\ v.max = Max({0} \cup {f[h] : h \in DOMAIN f})
  BY DEF PopBlock
<1>2. /\ b \in AllBlocks /\ Prev[b] \in AllBlocks /\ Height[b] = Height[Prev[b]] + 1
      /\ Height[b] \in Nat /\ Height[Prev[b]] \in Nat /\ OnChain[b] = OnChain[Prev[b]] \cup {b}
      /\ Height[Begin] <= Height[Prev[b]] /\ Height[Loaded] <= Height[Prev[b]]
  BY OnChainFacts, TreeTypes
<1>3. /\ lo >= Height[Begin] /\ lo <= Height[b] /\ Height[b] - lo < Limit
      /\ lo = Height[Begin] \/ lo <= Height[Loaded] - Recent + 1
      /\ DOMAIN w.ts = lo..Height[b]
      /\ \A c \in OnChain[b] : Height[c] \in DOMAIN w.ts => w.ts[Height[c]] = Time[c]
  BY DEF WindowAt
<1>4. /\ Limit \in Nat /\ Recent \in Nat /\ Recent >= 1 /\ Height[Loaded] \in Nat
      /\ Height[Begin] \in Nat
  BY WindowTypes
<1>5. Max(DOMAIN w.ts) = Height[b]
  BY <1>2, <1>3, IntervalEnds
<1>6. DOMAIN f = lo..Height[Prev[b]] /\ \A h \in DOMAIN f : f[h] = w.ts[h] /\ h \in DOMAIN w.ts
  BY <1>2, <1>3, <1>5 DEF Del
<1> HIDE DEF f, v
<1>7. lo <= Height[Prev[b]] /\ Height[Prev[b]] - lo < Limit
  BY <1>2, <1>3, <1>4
<1>8. \A c \in OnChain[Prev[b]] : Height[c] \in DOMAIN f => f[Height[c]] = Time[c]
  BY <1>2, <1>3, <1>6
<1>9. WindowAt(f, Prev[b], lo)
  BY <1>3, <1>6, <1>7, <1>8 DEF WindowAt
<1>10. v.max = NewestTime[Prev[b]]
  <2> DEFINE M == {0} \cup {f[h] : h \in DOMAIN f}
             m == NewestTime[Prev[b]]
  <2>1. /\ \A h \in DOMAIN f : f[h] \in Nat /\ f[h] <= m
        /\ \E h \in DOMAIN f : f[h] = m
    BY <1>2, <1>9, WindowHasNewest
  <2>2. m \in Nat
    BY <1>2, NewestTimeMax
  <2>3. m \in M /\ \A y \in M : y \in Nat /\ y <= m
    BY <2>1, <2>2
  <2>4. Max(M) = m
    <3> HIDE DEF M, m
    <3> QED BY <2>2, <2>3, MaxIs
  <2> QED BY <1>1, <2>4
<1> QED BY <1>1, <1>9, <1>10 DEF v

\* What holds at the low end of an interval and from each number to the next holds
\* in all of it.
LEMMA IntervalInduction ==
    ASSUME NEW a \in Nat, NEW c \in Nat, NEW X, a \in X,
           \A i \in a..c : i \in X /\ i < c => i + 1 \in X
    PROVE  a..c \subseteq X
<1> SUFFICES ASSUME NEW z \in a..c, z \notin X PROVE FALSE
  OBVIOUS
<1> DEFINE S == (a..c) \ X
<1>1. S \in SUBSET Nat /\ S # {}
  OBVIOUS
<1>2. PICK x \in S : \A y \in S : x <= y
  BY <1>1, NatMin
<1>3. x \in a..c /\ x # a /\ x \notin X
  BY <1>2
<1>4. x - 1 \in a..c /\ x - 1 < c /\ ~(x <= x - 1)
  BY <1>3
<1>5. x - 1 \in X
  BY <1>2, <1>4
<1>6. (x - 1) + 1 \in X
  BY <1>4, <1>5
<1> QED BY <1>3, <1>6

\* The function that LoadFrom() is a value of.
LoadDef(S, f) ==
    [h \in Int |-> IF \A g \in S : g > h THEN [ts |-> <<>>, max |-> 0]
                   ELSE IF h \in S THEN PushBlock(f[h - 1], h, Time[k10[h]])
                   ELSE f[h - 1]]

\* initLog2() reads consecutive heights: the window holds the last Limit of them,
\* and the maximum that of all.
LEMMA LoadInterval ==
    ASSUME NEW lo \in Nat, NEW hi \in Nat, lo <= hi, hi - lo <= Limit,
           \A h \in lo..hi : Time[k10[h]] \in Nat
    PROVE  LET bot == IF hi - lo >= Limit THEN lo + 1 ELSE lo
               w == LoadFrom(lo..hi)
           IN  /\ w.ts = [g \in bot..hi |-> Time[k10[g]]]
               /\ w.max = Max({0} \cup {Time[k10[g]] : g \in lo..hi})
<1> DEFINE tm(h) == Time[k10[h]]
           top(h) == IF h < hi THEN h ELSE hi
           bot(h) == IF top(h) - lo >= Limit THEN lo + 1 ELSE lo
           M(h) == {0} \cup {tm(g) : g \in lo..top(h)}
           Empty == [ts |-> <<>>, max |-> 0]
           Gts(h) == [g \in bot(h)..top(h) |-> tm(g)]
           G == [h \in Int |-> IF h < lo THEN Empty ELSE [ts |-> Gts(h), max |-> Max(M(h))]]
           S == lo..hi
           Load == CHOOSE f : f = LoadDef(S, f)
<1>1. LoadFrom(S) = Load[Max(S)] /\ Max(S) = hi
  <2>1. LoadFrom(S) = Load[Max(S)]
    BY DEF LoadFrom, LoadDef
  <2> QED BY <2>1, IntervalEnds
<1>2. Limit \in Nat /\ Limit >= 1
  BY WindowTypes
<1>3. \A h \in lo..hi : tm(h) \in Nat
  OBVIOUS
<1> HIDE DEF tm
<1>4. ASSUME NEW h \in lo..hi
      PROVE  Max(M(h)) \in Nat /\ Max(M(h)) \in M(h) /\ \A y \in M(h) : y <= Max(M(h))
  <2> DEFINE X == {x \in lo..hi : \E m \in M(x) : \A y \in M(x) : y <= m}
  <2>1. \A x \in lo..hi : top(x) = x /\ \A y \in M(x) : y \in Nat
    BY <1>3
  <2>2. lo \in X
    <3>1. M(lo) = {0, tm(lo)} /\ tm(lo) \in Nat
      BY <1>3, <2>1
    <3> HIDE DEF M
    <3>2. \A y \in M(lo) : y <= tm(lo)
      BY <3>1
    <3> QED BY <3>1, <3>2
  <2>3. ASSUME NEW x \in lo..hi, x \in X, x < hi PROVE x + 1 \in X
    <3>1. x + 1 \in lo..hi /\ M(x + 1) = M(x) \cup {tm(x + 1)}
      <4>1. x + 1 \in lo..hi /\ top(x + 1) = x + 1 /\ top(x) = x
        BY <2>1, <2>3
      <4>2. lo..(x + 1) = (lo..x) \cup {x + 1}
        OBVIOUS
      <4> QED BY <4>1, <4>2
    <3>2. PICK m \in M(x) : \A y \in M(x) : y <= m
      BY <2>3
    <3>3. m \in Nat /\ tm(x + 1) \in Nat /\ \A y \in M(x) : y \in Nat
      BY <1>3, <2>1, <3>1, <3>2
    <3> HIDE DEF M
    <3>4. CASE m <= tm(x + 1)
      <4>1. \A y \in M(x + 1) : y <= tm(x + 1)
        BY <3>1, <3>2, <3>3, <3>4
      <4> QED BY <3>1, <4>1
    <3>5. CASE tm(x + 1) <= m
      <4>1. \A y \in M(x + 1) : y <= m
        BY <3>1, <3>2, <3>3, <3>5
      <4> QED BY <3>1, <3>2, <4>1
    <3> QED BY <3>3, <3>4, <3>5
  <2>4. h \in X
    <3> HIDE DEF X
    <3> QED BY <2>2, <2>3, IntervalInduction
  <2>5. PICK m \in M(h) : \A y \in M(h) : y <= m
    BY <2>4
  <2>6. \A y \in M(h) : y \in Nat
    BY <2>1
  <2> HIDE DEF M
  <2>7. Max(M(h)) = m
    BY <2>5, <2>6, MaxIs
  <2> QED BY <2>5, <2>6, <2>7
<1>5. ASSUME NEW h \in lo..hi, NEW w, w = G[h - 1] PROVE PushBlock(w, h, tm(h)) = G[h]
  <2> DEFINE f == Put(w.ts, h, tm(h))
  <2>1. G[h] = [ts |-> Gts(h), max |-> Max(M(h))] /\ top(h) = h
    OBVIOUS
  <2>2. /\ DOMAIN f = lo..h /\ \A g \in lo..h : f[g] = tm(g)
        /\ (IF tm(h) > w.max THEN tm(h) ELSE w.max) = Max(M(h))
    <3>1. CASE h = lo
      <4>1. w = Empty
        BY <1>5, <3>1
      <4>2. w.ts = <<>> /\ w.max = 0
        BY <4>1
      <4>3. DOMAIN f = {lo} /\ f[lo] = tm(lo)
        BY <3>1, <4>2 DEF Put
      <4>4. M(h) = {0, tm(lo)} /\ tm(lo) \in Nat
        BY <1>3, <3>1
      <4>5. Max(M(h)) = tm(lo)
        <5> HIDE DEF M
        <5>1. tm(lo) \in M(h) /\ \A y \in M(h) : y \in Nat /\ y <= tm(lo)
          BY <4>4
        <5> QED BY <4>4, <5>1, MaxIs
      <4> HIDE DEF f, M
      <4> QED BY <3>1, <4>2, <4>3, <4>4, <4>5
    <3>2. CASE h # lo
      <4>1. h - 1 \in lo..hi /\ top(h - 1) = h - 1 /\ ~(h - 1 - lo >= Limit)
        BY <1>2, <3>2
      <4>2. G[h - 1] = [ts |-> Gts(h - 1), max |-> Max(M(h - 1))]
        BY <4>1
      <4>3. w.ts = Gts(h - 1) /\ w.max = Max(M(h - 1))
        <5> HIDE DEF Gts, M, G
        <5>1. w = [ts |-> Gts(h - 1), max |-> Max(M(h - 1))]
          BY <1>5, <4>2
        <5> QED BY <5>1
      <4>4. Gts(h - 1) = [g \in lo..(h - 1) |-> tm(g)]
        BY <4>1
      <4>5. DOMAIN f = lo..h /\ \A g \in lo..h : f[g] = tm(g)
        BY <3>2, <4>3, <4>4 DEF Put
      <4>6. M(h) = M(h - 1) \cup {tm(h)}
        <5>1. lo..h = (lo..(h - 1)) \cup {h}
          BY <3>2
        <5> QED BY <2>1, <4>1, <5>1
      <4>7. /\ Max(M(h - 1)) \in Nat /\ Max(M(h - 1)) \in M(h - 1)
            /\ \A y \in M(h - 1) : y <= Max(M(h - 1))
        BY <1>4, <4>1
      <4>8. /\ Max(M(h)) \in Nat /\ Max(M(h)) \in M(h) /\ \A y \in M(h) : y <= Max(M(h))
        BY <1>4
      <4>9. tm(h) \in Nat
        BY <1>3
      <4> HIDE DEF M, f, Gts
      <4>10. /\ Max(M(h)) = tm(h) \/ Max(M(h)) <= Max(M(h - 1))
             /\ tm(h) <= Max(M(h)) /\ Max(M(h - 1)) <= Max(M(h))
        BY <4>6, <4>7, <4>8
      <4>11. (IF tm(h) > w.max THEN tm(h) ELSE w.max) = Max(M(h))
        BY <4>3, <4>7, <4>8, <4>9, <4>10
      <4> QED BY <4>5, <4>11
    <3> QED BY <3>1, <3>2
  <2>3. Cardinality(DOMAIN f) = h - lo + 1 /\ Min(DOMAIN f) = lo
    <3>1. h \in Nat /\ lo <= h
      OBVIOUS
    <3>2. Cardinality(lo..h) = h - lo + 1 /\ Min(lo..h) = lo
      BY <3>1, IntervalEnds
    <3> HIDE DEF f
    <3> QED BY <2>2, <3>2
  <2>4. PushBlock(w, h, tm(h)) =
          [ts |-> IF Cardinality(DOMAIN f) > Limit THEN Del(f, Min(DOMAIN f)) ELSE f,
           max |-> IF tm(h) > w.max THEN tm(h) ELSE w.max]
    BY DEF PushBlock
  <2>5. (IF Cardinality(DOMAIN f) > Limit THEN Del(f, Min(DOMAIN f)) ELSE f) = Gts(h)
    <3>1. f = [g \in lo..h |-> tm(g)]
      <4>1. f = [x \in DOMAIN f |-> f[x]]
        BY DEF Put
      <4> HIDE DEF f
      <4> QED BY <2>2, <4>1
    <3> HIDE DEF f
    <3>2. CASE h - lo + 1 > Limit
      <4>1. Del(f, lo) = [g \in (lo + 1)..h |-> tm(g)]
        BY <2>2 DEF Del
      <4>2. bot(h) = lo + 1
        BY <1>2, <2>1, <3>2
      <4> QED BY <2>1, <2>3, <3>2, <4>1, <4>2
    <3>3. CASE ~(h - lo + 1 > Limit)
      <4>1. bot(h) = lo
        BY <1>2, <2>1, <3>3
      <4> QED BY <2>1, <2>3, <3>1, <3>3, <4>1
    <3> QED BY <3>2, <3>3
  <2> HIDE DEF f, Gts, M, G
  <2> QED BY <2>1, <2>2, <2>4, <2>5
<1>6. ASSUME NEW h \in Int
      PROVE  /\ (\A g \in S : g > h) <=> h < lo
             /\ h < lo => G[h] = Empty
             /\ h > hi => G[h] = G[h - 1]
  <2>1. (\A g \in S : g > h) <=> h < lo
    OBVIOUS
  <2>2. h < lo => G[h] = Empty
    OBVIOUS
  <2>3. ASSUME h > hi PROVE G[h] = G[h - 1]
    <3>1. top(h) = hi /\ top(h - 1) = hi /\ ~(h < lo) /\ ~(h - 1 < lo)
      BY <2>3
    <3>2. G[h] = [ts |-> Gts(h), max |-> Max(M(h))]
      BY <3>1
    <3>3. G[h - 1] = [ts |-> Gts(h - 1), max |-> Max(M(h - 1))]
      BY <3>1
    <3>4. Gts(h) = Gts(h - 1) /\ M(h) = M(h - 1)
      BY <3>1
    <3> HIDE DEF G, Gts, M
    <3> QED BY <3>2, <3>3, <3>4
  <2> QED BY <2>1, <2>2, <2>3
<1>7. G = [h \in Int |-> G[h]]
  OBVIOUS
<1> HIDE DEF G
<1>8. G = LoadDef(S, G)
  <2>1. ASSUME NEW h \in Int
        PROVE  G[h] = IF \A g \in S : g > h THEN [ts |-> <<>>, max |-> 0]
                      ELSE IF h \in S THEN PushBlock(G[h - 1], h, Time[k10[h]])
                      ELSE G[h - 1]
    <3>1. CASE h < lo
      BY <1>6, <3>1
    <3>2. CASE h \in lo..hi
      <4>1. PushBlock(G[h - 1], h, Time[k10[h]]) = G[h]
        BY <1>5, <3>2 DEF tm
      <4> QED BY <1>6, <3>2, <4>1
    <3>3. CASE h > hi
      <4>1. ~(h < lo) /\ h \notin S
        BY <3>3
      <4>2. ~(\A g \in S : g > h) /\ G[h] = G[h - 1]
        BY <1>6, <3>3, <4>1
      <4> HIDE DEF S
      <4> QED BY <4>1, <4>2
    <3> QED BY <3>1, <3>2, <3>3
  <2> QED BY <1>7, <2>1 DEF LoadDef
<1>9. Load = LoadDef(S, Load)
  <2> HIDE DEF S
  <2>1. \E f : f = LoadDef(S, f)
    BY <1>8
  <2> QED BY <2>1
<1> HIDE DEF Load
<1>10. Load[hi] = G[hi]
  <2> DEFINE X == {x \in lo..hi : Load[x] = G[x]}
  <2>1. \A h \in Int : Load[h] = IF \A g \in S : g > h THEN [ts |-> <<>>, max |-> 0]
                       ELSE IF h \in S THEN PushBlock(Load[h - 1], h, Time[k10[h]])
                       ELSE Load[h - 1]
    BY <1>9 DEF LoadDef
  <2>2. Load[lo - 1] = G[lo - 1]
    <3>1. lo - 1 \in Int /\ lo - 1 < lo
      OBVIOUS
    <3>2. (\A g \in S : g > lo - 1) /\ G[lo - 1] = Empty
      BY <1>6, <3>1
    <3>3. Load[lo - 1] = Empty
      BY <2>1, <3>1, <3>2
    <3> QED BY <3>2, <3>3
  <2>3. ASSUME NEW h \in lo..hi, Load[h - 1] = G[h - 1] PROVE Load[h] = G[h]
    <3>1. Load[h] = PushBlock(Load[h - 1], h, tm(h))
      <4>1. h \in Int /\ ~(h < lo) /\ h \in S
        OBVIOUS
      <4>2. ~(\A g \in S : g > h)
        BY <1>6, <4>1
      <4> HIDE DEF S
      <4> QED BY <2>1, <4>1, <4>2 DEF tm
    <3> QED BY <1>5, <2>3, <3>1
  <2>4. lo \in X
    BY <2>2, <2>3
  <2>5. ASSUME NEW x \in lo..hi, x \in X, x < hi PROVE x + 1 \in X
    <3>1. x + 1 \in lo..hi /\ (x + 1) - 1 = x
      BY <2>5
    <3> QED BY <2>3, <2>5, <3>1
  <2>6. hi \in X
    <3> HIDE DEF X
    <3>1. lo..hi \subseteq X
      BY <2>4, <2>5, IntervalInduction
    <3> QED BY <3>1
  <2> QED BY <2>6
<1>11. /\ G[hi].ts = [g \in (IF hi - lo >= Limit THEN lo + 1 ELSE lo)..hi |-> tm(g)]
       /\ G[hi].max = Max({0} \cup {tm(g) : g \in lo..hi})
  <2>1. G[hi] = [ts |-> Gts(hi), max |-> Max(M(hi))] /\ top(hi) = hi
    BY DEF G
  <2>2. Gts(hi) = [g \in (IF hi - lo >= Limit THEN lo + 1 ELSE lo)..hi |-> tm(g)]
    BY <2>1
  <2>3. M(hi) = {0} \cup {tm(g) : g \in lo..hi}
    BY <2>1
  <2> HIDE DEF Gts, M
  <2> QED BY <2>1, <2>2, <2>3
<1> QED BY <1>1, <1>10, <1>11 DEF tm

\* A restarted log2producer has the window of the tip that the 10_ keys name.
LEMMA LoadWindow ==
    ASSUME NEW t \in AllBlocks, HeightMap(k10, t), Loaded \in OnChain[t]
    PROVE  /\ \E l \in Nat : WindowAt(InitBlkTs.ts, t, l)
           /\ InitBlkTs.max = NewestTime[t]
           /\ k10[Max(DOMAIN k10)] = t
<1> DEFINE a == Height[Begin]
           hi == Height[t]
           lo == IF hi - Limit > a THEN hi - Limit ELSE a
           bot == IF hi - lo >= Limit THEN lo + 1 ELSE lo
           f == [g \in bot..hi |-> Time[k10[g]]]
<1>1. a \in Nat /\ hi \in Nat /\ a <= hi
  BY TreeTypes
<1>2. /\ Limit \in Nat /\ Limit >= 1 /\ Recent \in Nat /\ Height[Loaded] \in Nat
      /\ Limit >= Recent + hi - Height[Loaded]
  BY WindowTypes
<1>3. DOMAIN k10 = a..hi /\ \A b \in OnChain[t] : k10[Height[b]] = b
  BY OnChainHeights DEF HeightMap
<1> HIDE DEF a, hi
<1>4. Max(DOMAIN k10) = hi
  BY <1>1, <1>3, IntervalEnds
<1>5. k10[Max(DOMAIN k10)] = t
  BY <1>3, <1>4, OnChainFacts DEF hi
<1>6. lo \in Nat /\ lo >= a /\ lo <= hi /\ hi - lo <= Limit
  BY <1>1, <1>2
<1>7. /\ bot \in Nat /\ bot >= lo /\ bot <= hi /\ hi - bot < Limit
      /\ bot = a \/ bot <= Height[Loaded] - Recent + 1
  BY <1>1, <1>2
<1>8. {h \in DOMAIN k10 : h >= Max(DOMAIN k10) - Limit} = lo..hi
  BY <1>1, <1>2, <1>3, <1>4
<1>9. InitBlkTs = LoadFrom(lo..hi)
  BY <1>8 DEF InitBlkTs
<1>10. ASSUME NEW h \in lo..hi
       PROVE  \E b \in OnChain[t] : Height[b] = h /\ k10[h] = b
  <2>1. h \in a..hi
    BY <1>1, <1>6
  <2>2. PICK b \in OnChain[t] : Height[b] = h
    BY <2>1, OnChainHeights DEF a, hi
  <2> QED BY <1>3, <2>2
<1> HIDE DEF lo
<1>11. \A h \in lo..hi : Time[k10[h]] \in Nat /\ Time[k10[h]] <= NewestTime[t]
  <2> SUFFICES ASSUME NEW h \in lo..hi
               PROVE  Time[k10[h]] \in Nat /\ Time[k10[h]] <= NewestTime[t]
    OBVIOUS
  <2>1. PICK b \in OnChain[t] : k10[h] = b
    BY <1>10
  <2>2. b \in AllBlocks
    BY OnChainFacts
  <2> QED BY <2>1, <2>2, WindowTypes, NewestTimeMax
<1>12. /\ InitBlkTs.ts = f
       /\ InitBlkTs.max = Max({0} \cup {Time[k10[g]] : g \in lo..hi})
  BY <1>1, <1>6, <1>9, <1>11, LoadInterval
<1>13. WindowAt(f, t, bot)
  <2>1. DOMAIN f = bot..Height[t]
    BY DEF hi
  <2>2. \A b \in OnChain[t] : Height[b] \in DOMAIN f => f[Height[b]] = Time[b]
    BY <1>3
  <2> HIDE DEF f, bot
  <2>3. bot >= Height[Begin]
    BY <1>1, <1>6, <1>7 DEF a
  <2> QED BY <1>7, <2>1, <2>2, <2>3 DEF WindowAt, a, hi
<1>14. InitBlkTs.max = NewestTime[t]
  <2> DEFINE M == {0} \cup {Time[k10[g]] : g \in lo..hi}
  <2>1. NewestTime[t] \in Nat
    BY NewestTimeMax
  <2>2. PICK h \in DOMAIN f : f[h] = NewestTime[t]
    <3> HIDE DEF f, bot
    <3> QED BY <1>7, <1>13, WindowHasNewest
  <2>3. h \in lo..hi /\ Time[k10[h]] = NewestTime[t]
    <3> HIDE DEF bot
    <3> QED BY <1>1, <1>6, <1>7, <2>2
  <2>4. NewestTime[t] \in M
    BY <2>3
  <2>5. \A y \in M : y \in Nat /\ y <= NewestTime[t]
    BY <1>11, <2>1
  <2> HIDE DEF M
  <2>6. Max(M) = NewestTime[t]
    BY <2>1, <2>4, <2>5, MaxIs
  <2> QED BY <1>12, <2>6 DEF M
<1> HIDE DEF bot, f
<1> QED BY <1>5, <1>7, <1>12, <1>13, <1>14

\* The window at the first start.
LEMMA FirstWindow ==
    \E lo \in Nat : WindowAt(LoadedWindow, Loaded, lo)
<1> DEFINE a == Height[Begin]
           hi == Height[Loaded]
           lo == IF hi - Limit + 1 > a THEN hi - Limit + 1 ELSE a
           w == LoadedWindow
<1>1. a \in Nat /\ hi \in Nat /\ a <= hi /\ Loaded \in AllBlocks
  BY TreeTypes
<1>2. /\ Limit \in Nat /\ Limit >= 1 /\ Recent \in Nat /\ Limit >= Recent + hi - hi
  BY <1>1, WindowTypes
<1>3. {Height[b] : b \in OnChain[Loaded]} = a..hi
  BY <1>1, OnChainHeights
<1> HIDE DEF a, hi
<1>4. {g \in a..hi : g > hi - Limit} = lo..hi
  BY <1>1, <1>2
<1>5. /\ lo \in Nat /\ lo >= a /\ lo <= hi /\ hi - lo < Limit
      /\ lo = a \/ lo <= hi - Recent + 1
  BY <1>1, <1>2
<1> HIDE DEF lo
<1>6. w = [h \in lo..hi |-> Time[CHOOSE b \in OnChain[Loaded] : Height[b] = h]]
  BY <1>3, <1>4 DEF LoadedWindow, hi
<1>7. ASSUME NEW b \in OnChain[Loaded], Height[b] \in lo..hi PROVE w[Height[b]] = Time[b]
  <2>1. (CHOOSE c \in OnChain[Loaded] : Height[c] = Height[b]) = b
    BY <1>1, OnChainHeights
  <2> QED BY <1>6, <1>7, <2>1
<1>8. DOMAIN w = lo..hi
  BY <1>6
<1>9. WindowAt(w, Loaded, lo)
  <2> HIDE DEF w
  <2> QED BY <1>5, <1>7, <1>8 DEF WindowAt, a, hi
<1> QED BY <1>5, <1>9

-----------------------------------------------------------------------------
(* log2producer, step by step. *)

\* A row about a block next to the tip moves the tip.
LEMMA AppendRows ==
    ASSUME RowsInv, NEW r \in Row, rows' = Append(rows, r), UNCHANGED <<consumed, step>>,
           cur = TipAfter(Len(rows)), Follows(r, cur), cur' \in AllBlocks, Loaded \in OnChain[cur'],
           cur' = IF r.type = "confirm" THEN r.block ELSE Prev[r.block],
           NEW k \in Nat, k = Len(rows)
    PROVE  /\ RowsInv' /\ KeepsRow
           /\ Len(rows') = k + 1 /\ rows'[k + 1] = r
           /\ \A n \in 1..k : rows'[n] = rows[n]
<1>1. /\ Len(rows') = Len(rows) + 1 /\ rows' \in Seq(Row) /\ rows'[Len(rows) + 1] = r
      /\ \A n \in 1..Len(rows) : rows'[n] = rows[n]
      /\ \A n \in 0..Len(rows) : TipAfter(n)' = TipAfter(n)
      /\ KeepsRow
  BY KeepsAppend
<1>2. TipAfter(k + 1)' = cur' /\ TipAfter(k)' = cur
  <2>1. k + 1 # 0 /\ rows'[k + 1] = r /\ k \in 0..Len(rows)
    BY <1>1
  <2>2. TipAfter(k + 1)' = IF r.type = "confirm" THEN r.block ELSE Prev[r.block]
    BY <2>1 DEF TipAfter
  <2> QED BY <1>1, <2>1, <2>2
<1>3. consumed' \in 0..Len(rows') /\ step' \in 0..7 /\ consumed' # Len(rows')
  BY <1>1 DEF RowsInv
<1>4. ASSUME NEW n \in 1..Len(rows') PROVE Follows(rows'[n], TipAfter(n - 1)')
  <2>1. CASE n = k + 1
    <3>1. n - 1 = k
      BY <2>1
    <3> QED BY <1>1, <1>2, <2>1, <3>1
  <2>2. CASE n # k + 1
    <3>1. n \in 1..Len(rows) /\ n - 1 \in 0..Len(rows)
      BY <1>1, <2>2
    <3>2. rows'[n] = rows[n] /\ TipAfter(n - 1)' = TipAfter(n - 1)
      BY <1>1, <3>1
    <3>3. Follows(rows[n], TipAfter(n - 1))
      BY <3>1 DEF RowsInv
    <3> QED BY <3>2, <3>3
  <2> QED BY <2>1, <2>2
<1>5. ASSUME NEW n \in 0..Len(rows')
      PROVE  TipAfter(n)' \in AllBlocks /\ Loaded \in OnChain[TipAfter(n)']
  <2>1. CASE n = k + 1
    BY <1>2, <2>1
  <2>2. CASE n # k + 1
    <3>1. n \in 0..Len(rows)
      BY <1>1, <2>2
    <3> QED BY <1>1, <3>1 DEF RowsInv
  <2> QED BY <2>1, <2>2
<1>6. cur' = TipAfter(Len(rows))'
  BY <1>1, <1>2
<1>7. RowsInv'
  BY <1>1, <1>3, <1>4, <1>5, <1>6 DEF RowsInv, Follows
<1> QED BY <1>1, <1>7

\* The window is that of the new tip.
LEMMA WindowMoves ==
    ASSUME WindowInv, NEW k \in Nat, k = Len(rows), Len(rows') = k + 1,
           \A n \in 1..k : rows'[n] = rows[n],
           rows'[k + 1].time = NewestTime[rows'[k + 1].block],
           cur' \in AllBlocks, \E lo \in Nat : WindowAt(ts', cur', lo),
           currMax' = NewestTime[cur'], UNCHANGED <<restarts, crashes>>
    PROVE  WindowInv'
<1>1. currMax' \in Nat
  BY NewestTimeMax
<1>2. \E t \in AllBlocks, lo \in Nat : WindowAt(ts', t, lo)
  OBVIOUS
<1>3. \A n \in 1..Len(rows') : rows'[n].time = NewestTime[rows'[n].block]
  <2> SUFFICES ASSUME NEW n \in 1..Len(rows')
               PROVE  rows'[n].time = NewestTime[rows'[n].block]
    OBVIOUS
  <2>1. n = k + 1 \/ n \in 1..k
    OBVIOUS
  <2> QED BY <2>1 DEF WindowInv
<1>4. restarts' \in 0..MaxRestart /\ crashes' \in 0..MaxCrash
  BY DEF WindowInv
<1> QED BY <1>1, <1>2, <1>3, <1>4 DEF WindowInv, WindowAt

\* handleBlockAccept()
LEMMA AcceptRow ==
    ASSUME RowsInv, WindowInv, HandleBlockAccept
    PROVE  /\ RowsInv' /\ WindowInv' /\ KeepsRow
           /\ UNCHANGED <<consumed, step, keyVars, scanVars>>
<1>1. PICK b \in Block :
        /\ cur # Down /\ Prev[b] = cur /\ cur' = b
        /\ SetWindow(PushBlock(Window, Height[b], Time[b]))
        /\ rows' = Append(rows, RowOf("confirm", b, PushBlock(Window, Height[b], Time[b]).max))
        /\ UNCHANGED <<restarts, consumed, step, keyVars, scanVars, crashes>>
  BY DEF HandleBlockAccept
<1>2. PICK w : w = Window
  OBVIOUS
<1>3. w.ts = ts /\ w.max = currMax
  BY <1>2 DEF Window
<1>4. PICK lo \in Nat : WindowAt(ts, cur, lo)
  BY <1>1 DEF WindowInv
<1>5. currMax = NewestTime[cur] /\ cur = TipAfter(Len(rows))
  BY <1>1 DEF WindowInv, RowsInv
<1>6. PICK v : v = PushBlock(w, Height[b], Time[b])
  OBVIOUS
<1>7. (\E l \in Nat : WindowAt(v.ts, b, l)) /\ v.max = NewestTime[b]
  BY <1>1, <1>3, <1>4, <1>5, <1>6, PushWindow
<1>8. ts' = v.ts /\ currMax' = v.max /\ rows' = Append(rows, RowOf("confirm", b, v.max))
  BY <1>1, <1>2, <1>6 DEF SetWindow
<1>9. b \in AllBlocks /\ NewestTime[b] \in Nat
  BY TreeTypes, NewestTimeMax
<1>10. PICK r : r = RowOf("confirm", b, v.max)
  OBVIOUS
<1>11. r \in Row /\ r.type = "confirm" /\ r.block = b /\ r.time = NewestTime[b]
  BY <1>7, <1>9, <1>10 DEF RowOf, Row, RowType
<1>12. PICK k \in Nat : k = Len(rows)
  BY DEF RowsInv
<1>13. Loaded \in OnChain[b]
  <2>1. Loaded \in OnChain[TipAfter(k)]
    BY <1>12 DEF RowsInv
  <2> QED BY <1>1, <1>5, <1>12, <2>1, OnChainFacts
<1>14. Follows(r, cur)
  BY <1>1, <1>11 DEF Follows
<1>15. /\ RowsInv' /\ KeepsRow /\ Len(rows') = k + 1 /\ rows'[k + 1] = r
       /\ \A n \in 1..k : rows'[n] = rows[n]
  BY <1>1, <1>5, <1>8, <1>9, <1>10, <1>11, <1>12, <1>13, <1>14, AppendRows
<1>16. WindowInv'
  BY <1>1, <1>7, <1>8, <1>9, <1>11, <1>12, <1>15, WindowMoves
<1> QED BY <1>1, <1>15, <1>16

\* handleBlockRollback()
LEMMA RollbackRow ==
    ASSUME RowsInv, WindowInv, HandleBlockRollback
    PROVE  /\ RowsInv' /\ WindowInv' /\ KeepsRow
           /\ UNCHANGED <<consumed, step, keyVars, scanVars>>
<1>1. /\ cur # Down /\ cur # Loaded /\ cur' = Prev[cur]
      /\ SetWindow(PopBlock(Window))
      /\ rows' = Append(rows, RowOf("reject", cur, currMax))
      /\ UNCHANGED <<restarts, consumed, step, keyVars, scanVars, crashes>>
  BY DEF HandleBlockRollback, RollbackTime
<1>2. PICK k \in Nat : k = Len(rows)
  BY DEF RowsInv
<1>3. /\ cur = TipAfter(k) /\ cur \in AllBlocks /\ Loaded \in OnChain[cur]
      /\ currMax = NewestTime[cur]
  BY <1>1, <1>2 DEF RowsInv, WindowInv
<1>4. cur \in Block
  BY <1>1, <1>3, OnChainFacts, TreeTypes
<1>5. Loaded \in OnChain[Prev[cur]] /\ Prev[cur] \in AllBlocks
  BY <1>1, <1>3, <1>4, OnChainFacts, TreeTypes
<1>6. PICK lo \in Nat : WindowAt(ts, cur, lo)
  BY <1>1 DEF WindowInv
<1>7. PICK w : w = Window
  OBVIOUS
<1>8. w.ts = ts
  BY <1>7 DEF Window
<1>9. /\ \E l \in Nat : WindowAt(PopBlock(w).ts, Prev[cur], l)
      /\ PopBlock(w).max = NewestTime[Prev[cur]]
  BY <1>4, <1>5, <1>6, <1>8, PopWindow
<1>10. ts' = PopBlock(w).ts /\ currMax' = PopBlock(w).max
  BY <1>1, <1>7 DEF SetWindow
<1>11. PICK r : r = RowOf("reject", cur, currMax)
  OBVIOUS
<1>12. NewestTime[cur] \in Nat
  BY <1>3, NewestTimeMax
<1>13. r \in Row /\ r.type = "reject" /\ r.block = cur /\ r.time = NewestTime[cur]
  BY <1>3, <1>4, <1>11, <1>12 DEF RowOf, Row, RowType
<1>14. Follows(r, cur)
  BY <1>13 DEF Follows
<1>15. /\ RowsInv' /\ KeepsRow /\ Len(rows') = k + 1 /\ rows'[k + 1] = r
       /\ \A n \in 1..k : rows'[n] = rows[n]
  BY <1>1, <1>2, <1>3, <1>5, <1>11, <1>13, <1>14, AppendRows
<1>16. WindowInv'
  BY <1>1, <1>2, <1>5, <1>9, <1>10, <1>13, <1>15, WindowMoves
<1> QED BY <1>1, <1>15, <1>16

\* log2producer stops, and a new one starts where the 10_ keys and the rows end.
LEMMA RestartRow ==
    ASSUME RowsInv, HeightsInv, WindowInv, StopProducer \/ InitLog2
    PROVE  /\ RowsInv' /\ WindowInv' /\ KeepsRow
           /\ UNCHANGED <<consumed, step, keyVars, scanVars>>
<1>1. UNCHANGED <<rows, consumed, step, keyVars, scanVars, crashes>>
  BY DEF StopProducer, InitLog2
<1>2. KeepsRow
  BY <1>1, KeepsSame
<1>3. step' \in 0..7 /\ (consumed = Len(rows) => step' = 0)
  BY <1>1 DEF RowsInv
<1>4. \A n \in 1..Len(rows') : rows'[n].time = NewestTime[rows'[n].block]
  BY <1>1 DEF WindowInv
<1>5. CASE StopProducer
  <2>1. cur' = Down /\ ts' = <<>> /\ currMax' = 0 /\ restarts < MaxRestart /\ restarts' = restarts + 1
    BY <1>5 DEF StopProducer
  <2>2. RowsInv'
    BY <1>1, <1>3, <2>1, RowsSame
  <2>3. currMax' \in Nat /\ restarts' \in 0..MaxRestart /\ crashes' \in 0..MaxCrash
    BY <1>1, <2>1, TimeAssumption DEF WindowInv
  <2>4. WindowInv'
    BY <1>4, <2>1, <2>3 DEF WindowInv
  <2> QED BY <1>1, <1>2, <2>2, <2>4
<1>6. CASE InitLog2
  <2>1. /\ consumed = Len(rows) /\ SetWindow(InitBlkTs) /\ UNCHANGED restarts
        /\ cur' = IF rows = <<>> THEN Loaded ELSE k10[Max(DOMAIN k10)]
    BY <1>6 DEF InitLog2
  <2>2. /\ New = Old /\ Old \in AllBlocks /\ Old = TipAfter(Len(rows))
    BY <2>1, Tips DEF Old
  <2>3. HeightMap(k10, Old)
    BY <2>2 DEF HeightsInv
  <2>4. Loaded \in OnChain[Old]
    BY <2>1 DEF Old, RowsInv
  <2>5. /\ \E l \in Nat : WindowAt(InitBlkTs.ts, Old, l)
        /\ InitBlkTs.max = NewestTime[Old]
        /\ k10[Max(DOMAIN k10)] = Old
    BY <2>2, <2>3, <2>4, LoadWindow
  <2>6. cur' = Old
    <3>1. rows = <<>> => Old = Loaded
      BY <2>2 DEF TipAfter
    <3> QED BY <2>1, <2>5, <3>1
  <2>7. RowsInv'
    BY <1>1, <1>3, <2>2, <2>6, RowsSame
  <2>8. ts' = InitBlkTs.ts /\ currMax' = InitBlkTs.max
    BY <2>1 DEF SetWindow
  <2>9. currMax' \in Nat /\ restarts' \in 0..MaxRestart /\ crashes' \in 0..MaxCrash
    BY <1>1, <2>1, <2>2, <2>5, <2>8, NewestTimeMax DEF WindowInv
  <2>10. (\E l \in Nat : WindowAt(ts', cur', l)) /\ cur' \in AllBlocks /\ currMax' = NewestTime[cur']
    BY <2>2, <2>5, <2>6, <2>8
  <2>11. \E t \in AllBlocks, l \in Nat : WindowAt(ts', t, l)
    BY <2>10
  <2>12. WindowInv'
    BY <1>4, <2>9, <2>10, <2>11 DEF WindowInv, WindowAt
  <2> QED BY <1>1, <1>2, <2>7, <2>12
<1> QED BY <1>5, <1>6

\* tparser leaves log2producer's variables.
LEMMA WindowKept ==
    ASSUME WindowInv, UNCHANGED producerVars, crashes' \in 0..MaxCrash
    PROVE  WindowInv'
BY DEF WindowInv, WindowAt, producerVars

-----------------------------------------------------------------------------
(* RecognizeBlock, step by step. *)

MarksCond == ~cut => MarksInv

\* The next block to look at is the highest; the others are on its chain.
LEMMA ScanNextTop ==
    ASSUME ScanInv, scan # {}
    PROVE  ScanNext \in scan /\ ScanNext \in AllBlocks /\ scan \subseteq OnChain[ScanNext]
<1>1. PICK t \in AllBlocks : scan \subseteq OnChain[t]
  BY DEF ScanInv
<1>2. \A c \in scan : c \in AllBlocks /\ Height[c] <= Height[t] /\ Height[c] \in Nat
  BY <1>1, OnChainFacts, TreeTypes
<1>3. Height[t] \in Nat
  BY TreeTypes
<1> DEFINE D == {Height[t] - Height[c] : c \in scan}
<1>4. D \in SUBSET Nat /\ D # {}
  BY <1>2, <1>3
<1>5. PICK d \in D : \A e \in D : d <= e
  BY <1>4, NatMin
<1>6. PICK b \in scan : d = Height[t] - Height[b]
  BY <1>5
<1>7. \A c \in scan : Height[c] <= Height[b]
  <2> SUFFICES ASSUME NEW c \in scan PROVE Height[c] <= Height[b]
    OBVIOUS
  <2>1. d <= Height[t] - Height[c]
    BY <1>5
  <2> HIDE DEF D
  <2> QED BY <1>2, <1>3, <1>6, <2>1
<1>8. ScanNext \in scan /\ \A c \in scan : Height[c] <= Height[ScanNext]
  BY <1>7 DEF ScanNext
<1>9. scan \subseteq OnChain[ScanNext]
  BY <1>1, <1>8, OnChainCompare
<1> QED BY <1>2, <1>8, <1>9

\* The scan and the marks stay as they are.
LEMMA MarksKept ==
    ASSUME RowsInv, KeepsRow, ScanInv, MarksCond, UNCHANGED <<k12, k15, scanVars>>
    PROVE  ScanInv' /\ MarksCond'
<1>1. Old' = Old /\ (New' = New \/ New = Old)
  BY KeepsTips
<1>2. Written("confirm", 7)' => B' \in k15'
  BY KeepsWritten DEF ScanInv
<1>3. UNCHANGED <<started, scan, cut>>
  BY DEF scanVars
<1>4. ScanInv'
  BY <1>2, <1>3 DEF ScanInv
<1>5. MarksCond'
  <2> SUFFICES ASSUME ~cut' PROVE MarksInv'
    BY DEF MarksCond
  <2>1. MarksInv
    BY <1>3 DEF MarksCond
  <2>2. started' => OnChain[Old'] \cap OnChain[New'] \subseteq k15' \cup scan'
    BY <1>1, <1>3, <2>1 DEF MarksInv
  <2> QED BY <1>3, <2>1, <2>2 DEF MarksInv
<1> QED BY <1>4, <1>5

\* ... in every write but the mark.
LEMMA MarksWrite ==
    ASSUME RowsInv, ScanInv, MarksCond, NEW type, NEW n \in 0..5, Working(type, n),
           UNCHANGED <<k15, scanVars>>, k12' \subseteq AllBlocks
    PROVE  ScanInv' /\ MarksCond'
<1>1. /\ Old' = Old /\ New' = New
      /\ \A ty, m : Written(ty, m)' => ty = type /\ m <= n + 1
  BY WorkingKeeps
<1>2. ~Written("confirm", 7)'
  BY <1>1
<1>3. UNCHANGED <<started, scan, cut>>
  BY DEF scanVars
<1>4. ScanInv'
  BY <1>2, <1>3 DEF ScanInv
<1>5. MarksCond'
  BY <1>1, <1>3 DEF MarksCond, MarksInv
<1> QED BY <1>4, <1>5

\* The consumer marks the block it has accepted.
LEMMA MarksRecognize ==
    ASSUME RowsInv, ScanInv, MarksCond, Recognize
    PROVE  ScanInv' /\ MarksCond'
<1>1. /\ Working("confirm", 6) /\ k15' = k15 \cup {B} /\ UNCHANGED <<k12, started, scan>>
      /\ cut' = (cut \/ (B \notin k15 /\ (~started \/ B \in scan)))
  BY DEF Recognize
<1>2. /\ Old' = Old /\ New' = New /\ B' = B /\ consumed < Len(rows)
      /\ Old = Prev[B] /\ New = B
  BY <1>1, WorkingKeeps, RowTips
<1>3. B \in AllBlocks /\ OnChain[B] = OnChain[Prev[B]] \cup {B}
  BY <1>2, RowTips
<1>4. ScanInv'
  <2>1. k12' \subseteq AllBlocks /\ k15' \subseteq AllBlocks /\ B' \in k15'
    BY <1>1, <1>2, <1>3 DEF ScanInv
  <2>2. started' \in BOOLEAN /\ cut' \in BOOLEAN
    BY <1>1 DEF ScanInv
  <2>3. (\E t \in AllBlocks : scan' \subseteq OnChain[t]) /\ (~started' => scan' = {})
    BY <1>1 DEF ScanInv
  <2> QED BY <2>1, <2>2, <2>3 DEF ScanInv
<1>5. MarksCond'
  <2> SUFFICES ASSUME ~cut' PROVE MarksInv'
    BY DEF MarksCond
  <2>1. ~cut /\ (B \in k15 \/ (started /\ B \notin scan))
    BY <1>1
  <2>2. MarksInv
    BY <2>1 DEF MarksCond
  <2>3. OnChain[B] \subseteq k15' \cup scan'
    <3>1. CASE B \in k15
      BY <1>1, <2>2, <3>1 DEF MarksInv
    <3>2. CASE started
      BY <1>1, <1>2, <1>3, <2>2, <3>2 DEF MarksInv
    <3> QED BY <2>1, <3>1, <3>2
  <2>4. \A b \in k15' : OnChain[b] \subseteq k15' \cup scan'
    BY <1>1, <2>2, <2>3 DEF MarksInv
  <2>5. \A b \in scan' : OnChain[b] \subseteq k15' \cup scan'
    BY <1>1, <2>2 DEF MarksInv
  <2>6. \A b \in scan' \cap k15' : OnChain[b] \subseteq k15'
    BY <1>1, <2>1, <2>2 DEF MarksInv
  <2>7. started' => OnChain[Old'] \cap OnChain[New'] \subseteq k15' \cup scan'
    BY <1>1, <1>2, <2>2 DEF MarksInv
  <2> QED BY <2>4, <2>5, <2>6, <2>7 DEF MarksInv
<1> QED BY <1>4, <1>5

\* The block of an accepted row has its mark when the row is done.
LEMMA DoneMarked ==
    ASSUME RowsInv, ScanInv, RowDone
    PROVE  OnChain[New] \subseteq (OnChain[Old] \cap OnChain[New]) \cup k15
<1>1. consumed < Len(rows) /\ step = Steps[rows[consumed + 1].type]
  BY DEF RowDone
<1>2. CASE rows[consumed + 1].type = "confirm"
  <2>1. Written("confirm", 7)
    BY <1>1, <1>2 DEF Written, Steps
  <2> QED BY <1>1, <1>2, <2>1, RowTips DEF ScanInv
<1>3. CASE rows[consumed + 1].type = "reject"
  BY <1>1, <1>3, RowTips
<1> QED BY <1>1, <1>2, <1>3, RowTips

\* The row is consumed.
LEMMA MarksTaken ==
    ASSUME RowsInv, ScanInv, MarksCond, UpdateLastTxlog2Id, Old' = New
    PROVE  ScanInv' /\ MarksCond'
<1>1. RowDone /\ step' = 0 /\ UNCHANGED <<k12, k15, started, scan, cut>>
  BY DEF UpdateLastTxlog2Id, keyVars, scanVars
<1>2. ~Written("confirm", 7)'
  BY <1>1 DEF Written
<1>3. ScanInv'
  BY <1>1, <1>2 DEF ScanInv
<1>4. OnChain[New] \subseteq (OnChain[Old] \cap OnChain[New]) \cup k15
  BY <1>1, DoneMarked
<1>5. MarksCond'
  <2> SUFFICES ASSUME ~cut' PROVE MarksInv'
    BY DEF MarksCond
  <2>1. MarksInv
    BY <1>1 DEF MarksCond
  <2>2. started' => OnChain[Old'] \cap OnChain[New'] \subseteq k15' \cup scan'
    BY <1>1, <1>4, <2>1 DEF MarksInv
  <2> QED BY <1>1, <2>1, <2>2 DEF MarksInv
<1> QED BY <1>3, <1>5

\* The thread reads the 10_ keys: a whole chain.
LEMMA MarksStart ==
    ASSUME RowsInv, HeightsInv, ScanInv, MarksCond, ScanStarts
    PROVE  ScanInv' /\ MarksCond'
<1>1. /\ ~started /\ started' = TRUE /\ scan' = {k10[h] : h \in DOMAIN k10}
      /\ UNCHANGED <<rows, consumed, step, k12, k15, cut>>
  BY DEF ScanStarts, ScanIdle, producerVars, keyVars
<1>2. Old \in AllBlocks /\ New \in AllBlocks
  BY Tips
<1>3. PICK t \in {Old, New} : HeightMap(k10, t)
  BY DEF HeightsInv
<1>4. scan' = OnChain[t]
  BY <1>1, <1>3 DEF HeightMap
<1>5. Old' = Old /\ New' = New /\ B' = B /\ (Written("confirm", 7)' <=> Written("confirm", 7))
  BY <1>1 DEF Old, New, B, TipAfter, Written
<1>6. ScanInv'
  BY <1>1, <1>2, <1>3, <1>4, <1>5 DEF ScanInv
<1>7. MarksCond'
  <2> SUFFICES ASSUME ~cut' PROVE MarksInv'
    BY DEF MarksCond
  <2>1. MarksInv /\ scan = {}
    BY <1>1 DEF MarksCond, ScanInv
  <2>2. \A b \in k15 : OnChain[b] \subseteq k15
    BY <2>1 DEF MarksInv
  <2>3. \A b \in scan' : OnChain[b] \subseteq scan'
    BY <1>2, <1>3, <1>4, OnChainTrans
  <2>4. OnChain[Old'] \cap OnChain[New'] \subseteq scan'
    BY <1>3, <1>4, <1>5
  <2> QED BY <1>1, <2>2, <2>3, <2>4 DEF MarksInv
<1> QED BY <1>6, <1>7

\* The thread looks at a block.
LEMMA MarksStep ==
    ASSUME RowsInv, ScanInv, MarksCond, ScanStep
    PROVE  ScanInv' /\ MarksCond'
<1>1. PICK x : x = ScanNext
  OBVIOUS
<1>2. /\ scan # {} /\ k15' = k15 \cup {x}
      /\ scan' = IF x \in k15 THEN {} ELSE scan \ {x}
      /\ UNCHANGED <<rows, consumed, step, k12, started, cut>>
  BY <1>1 DEF ScanStep, ScanIdle, producerVars
<1>3. x \in scan /\ x \in AllBlocks /\ scan \subseteq OnChain[x]
  BY <1>1, <1>2, ScanNextTop
<1>4. Old' = Old /\ New' = New /\ B' = B /\ (Written("confirm", 7)' <=> Written("confirm", 7))
  BY <1>2 DEF Old, New, B, TipAfter, Written
<1>5. ScanInv'
  <2>1. k12' \subseteq AllBlocks /\ k15' \subseteq AllBlocks
    BY <1>2, <1>3 DEF ScanInv
  <2>2. \E t \in AllBlocks : scan' \subseteq OnChain[t]
    BY <1>2, <1>3
  <2>3. ~started' => scan' = {}
    BY <1>2 DEF ScanInv
  <2>4. Written("confirm", 7)' => B' \in k15'
    BY <1>2, <1>4 DEF ScanInv
  <2>5. started' \in BOOLEAN /\ cut' \in BOOLEAN
    BY <1>2 DEF ScanInv
  <2> QED BY <2>1, <2>2, <2>3, <2>4, <2>5 DEF ScanInv
<1>6. MarksCond'
  <2> SUFFICES ASSUME ~cut' PROVE MarksInv'
    BY DEF MarksCond
  <2>1. MarksInv
    BY <1>2 DEF MarksCond
  <2>2. CASE x \in k15
    <3>1. scan' = {} /\ k15' = k15 /\ started' = started
      BY <1>2, <2>2
    <3>2. scan \subseteq k15
      BY <1>3, <2>1, <2>2 DEF MarksInv
    <3>3. \A b \in k15 : OnChain[b] \subseteq k15
      BY <2>1, <3>2 DEF MarksInv
    <3>4. started => OnChain[Old] \cap OnChain[New] \subseteq k15
      BY <2>1, <3>2 DEF MarksInv
    <3> QED BY <1>4, <3>1, <3>3, <3>4 DEF MarksInv
  <2>3. CASE x \notin k15
    <3>1. scan' = scan \ {x} /\ k15' = k15 \cup {x} /\ started' = started
      BY <1>2, <2>3
    <3>2. k15' \cup scan' = k15 \cup scan
      BY <1>3, <3>1
    <3>3. \A b \in k15' : OnChain[b] \subseteq k15' \cup scan'
      BY <1>3, <2>1, <3>1, <3>2 DEF MarksInv
    <3>4. \A b \in scan' : OnChain[b] \subseteq k15' \cup scan'
      BY <2>1, <3>1, <3>2 DEF MarksInv
    <3>5. \A b \in scan' \cap k15' : OnChain[b] \subseteq k15'
      BY <2>1, <3>1 DEF MarksInv
    <3>6. started' => OnChain[Old'] \cap OnChain[New'] \subseteq k15' \cup scan'
      BY <1>4, <2>1, <3>1, <3>2 DEF MarksInv
    <3> QED BY <3>3, <3>4, <3>5, <3>6 DEF MarksInv
  <2> QED BY <2>2, <2>3
<1> QED BY <1>5, <1>6

\* The process dies.
LEMMA MarksDied ==
    ASSUME RowsInv, ScanInv, MarksCond, Died
    PROVE  ScanInv' /\ MarksCond'
<1>1. /\ step' = 0 /\ started' = FALSE /\ scan' = {}
      /\ cut' = (cut \/ \E b \in k15, c \in scan : Height[c] < Height[b])
      /\ UNCHANGED <<k12, k15>>
  BY DEF Died, keyVars
<1>2. ~Written("confirm", 7)'
  BY <1>1 DEF Written
<1>3. ScanInv'
  <2>1. started' \in BOOLEAN /\ cut' \in BOOLEAN
    BY <1>1 DEF ScanInv
  <2>2. \E t \in AllBlocks : scan' \subseteq OnChain[t]
    BY <1>1 DEF ScanInv
  <2> QED BY <1>1, <1>2, <2>1, <2>2 DEF ScanInv
<1>4. MarksCond'
  <2> SUFFICES ASSUME ~cut' PROVE MarksInv'
    BY DEF MarksCond
  <2>1. MarksInv /\ \A b \in k15, c \in scan : ~(Height[c] < Height[b])
    BY <1>1 DEF MarksCond
  <2>2. ASSUME NEW b \in k15, NEW c \in OnChain[b] PROVE c \in k15
    <3>1. CASE c \in scan
      <4>1. b \in AllBlocks /\ c \in AllBlocks
        BY OnChainFacts DEF ScanInv
      <4>2. Height[c] \in Nat /\ Height[b] \in Nat /\ Height[c] <= Height[b] /\ ~(Height[c] < Height[b])
        BY <2>1, <3>1, <4>1, OnChainFacts, TreeTypes
      <4>3. Height[c] = Height[b]
        BY <4>2
      <4>4. b \in OnChain[b]
        BY <4>1, OnChainFacts
      <4>5. c = b
        BY <4>1, <4>3, <4>4, OnChainHeights
      <4> QED BY <4>5
    <3>2. CASE c \notin scan
      BY <2>1, <3>2 DEF MarksInv
    <3> QED BY <3>1, <3>2
  <2> QED BY <1>1, <2>2 DEF MarksInv
<1> QED BY <1>3, <1>4

-----------------------------------------------------------------------------
(* The theorems. *)

IndexInv == StoreInv /\ WindowInv /\ ScanInv /\ MarksCond

\* The invariant holds in the initial states.
LEMMA IndexInit == ASSUME Init PROVE IndexInv
<1>1. /\ cur = Loaded /\ ts = LoadedWindow /\ currMax = NewestTime[Loaded]
      /\ rows = <<>> /\ consumed = 0 /\ step = 0
      /\ k13 = <<>> /\ k12 = OnChain[Loaded] /\ k15 = {}
      /\ started = FALSE /\ scan = {} /\ cut = FALSE /\ crashes = 0 /\ restarts = 0
  BY DEF Init
<1>2. Loaded \in AllBlocks /\ Loaded \in OnChain[Loaded] /\ OnChain[Loaded] \subseteq AllBlocks
  BY TreeTypes, OnChainFacts
<1>3. Len(rows) = 0 /\ rows \in Seq(Row)
  BY <1>1
<1>4. TipAfter(0) = Loaded
  BY DEF TipAfter
<1>5. Old = Loaded /\ New = Loaded
  BY <1>1, <1>3, <1>4 DEF Old, New
<1>6. \A type, n : ~Written(type, n)
  BY <1>1, <1>3 DEF Written
<1>7. RowsInv
  <2>1. \A n \in 0..Len(rows) : TipAfter(n) \in AllBlocks /\ Loaded \in OnChain[TipAfter(n)]
    BY <1>2, <1>3, <1>4
  <2>2. cur = TipAfter(Len(rows))
    BY <1>1, <1>3, <1>4
  <2>3. \A n \in 1..Len(rows) : Follows(rows[n], TipAfter(n - 1))
    BY <1>3
  <2> QED BY <1>1, <1>3, <2>1, <2>2, <2>3 DEF RowsInv
<1>8. HeightsInv
  <2>1. k10 = [h \in {Height[b] : b \in OnChain[Loaded]} |->
                 CHOOSE b \in OnChain[Loaded] : Height[b] = h]
    BY DEF Init
  <2>2. \A b \in OnChain[Loaded] : k10[Height[b]] = b
    <3> SUFFICES ASSUME NEW b \in OnChain[Loaded] PROVE k10[Height[b]] = b
      OBVIOUS
    <3>1. (CHOOSE c \in OnChain[Loaded] : Height[c] = Height[b]) = b
      BY <1>2, OnChainHeights
    <3> QED BY <2>1, <3>1
  <2>3. HeightMap(k10, Loaded)
    BY <2>1, <2>2 DEF HeightMap
  <2> QED BY <1>1, <1>5, <2>3 DEF HeightsInv
<1>9. BlocksInv
  <2>1. k11 = [b \in OnChain[Loaded] |-> [orphan |-> FALSE, next |-> NextOf(b, Loaded)]]
    BY DEF Init
  <2>2. DOMAIN k11 = OnChain[Loaded]
    BY <2>1
  <2>3. \A b \in OnChain[Loaded] : k11[b] = Obj(b, Loaded)
    BY <2>1 DEF Obj
  <2> QED BY <1>2, <1>5, <1>6, <2>2, <2>3 DEF BlocksInv
<1>10. OrphansInv
  <2>1. DOMAIN k11 = OnChain[Loaded] /\ DOMAIN k13 = {}
    BY <1>1 DEF Init
  <2> QED BY <1>5, <1>6, <2>1 DEF OrphansInv, Listed
<1>11. TimesInv
  <2>1. k14 = [k \in {TimeKey(b) : b \in OnChain[Loaded]} |->
                 CHOOSE b \in OnChain[Loaded] : TimeKey(b) = k]
    BY DEF Init, TimeKey
  <2>2. \A b \in OnChain[Loaded] : k14[TimeKey(b)] = b
    <3> SUFFICES ASSUME NEW b \in OnChain[Loaded] PROVE k14[TimeKey(b)] = b
      OBVIOUS
    <3>1. \A c \in OnChain[Loaded] : TimeKey(c) = TimeKey(b) => c = b
      BY <1>2, OnChainHeights DEF TimeKey
    <3> HIDE DEF TimeKey
    <3>2. (CHOOSE c \in OnChain[Loaded] : TimeKey(c) = TimeKey(b)) = b
      BY <3>1
    <3> QED BY <2>1, <3>2
  <2>3. TimeMap(k14, Loaded)
    BY <2>1, <2>2 DEF TimeMap
  <2> QED BY <1>5, <1>6, <2>3 DEF TimesInv
<1>12. WindowInv
  <2>1. \E lo \in Nat : WindowAt(ts, Loaded, lo)
    BY <1>1, FirstWindow
  <2>2. NewestTime[Loaded] \in Nat
    BY <1>2, NewestTimeMax
  <2>3. restarts \in 0..MaxRestart /\ crashes \in 0..MaxCrash
    BY <1>1, TimeAssumption
  <2> QED BY <1>1, <1>2, <1>3, <2>1, <2>2, <2>3 DEF WindowInv
<1>13. ScanInv
  BY <1>1, <1>2, <1>6 DEF ScanInv
<1>14. MarksCond
  BY <1>1 DEF MarksCond, MarksInv
<1> QED BY <1>7, <1>8, <1>9, <1>10, <1>11, <1>12, <1>13, <1>14 DEF IndexInv, StoreInv

\* Every step keeps the invariant.
LEMMA IndexStep == ASSUME IndexInv, [Next]_vars PROVE IndexInv'
<1>1. StoreInv /\ WindowInv /\ ScanInv /\ MarksCond
  BY DEF IndexInv
<1>2. RowsInv /\ HeightsInv /\ BlocksInv /\ OrphansInv /\ TimesInv
  BY <1>1 DEF StoreInv
<1>3. crashes \in 0..MaxCrash
  BY <1>1 DEF WindowInv
<1>4. ASSUME consumed < Len(rows) PROVE T = NewestTime[B]
  <2>1. consumed + 1 \in 1..Len(rows)
    BY <1>2, <1>4 DEF RowsInv
  <2> QED BY <1>1, <2>1 DEF WindowInv, T, B
<1>5. CASE HandleBlockAccept \/ HandleBlockRollback \/ StopProducer \/ InitLog2
  <2>1. /\ RowsInv' /\ WindowInv' /\ KeepsRow
        /\ UNCHANGED <<consumed, step, keyVars, scanVars>>
    BY <1>1, <1>2, <1>5, AcceptRow, RollbackRow, RestartRow
  <2>2. UNCHANGED <<k10, k11, k13, k14>> /\ UNCHANGED <<k12, k15, scanVars>>
    BY <2>1 DEF keyVars
  <2>3. HeightsInv' /\ BlocksInv' /\ OrphansInv' /\ TimesInv'
    BY <1>2, <2>1, <2>2, StoreKept
  <2>4. ScanInv' /\ MarksCond'
    BY <1>1, <1>2, <2>1, <2>2, MarksKept
  <2> QED BY <2>1, <2>3, <2>4 DEF IndexInv, StoreInv
<1>6. CASE Accepts
  <2>1. consumed < Len(rows) /\ UNCHANGED <<producerVars, crashes>>
    BY <1>6 DEF Accepts, AcceptObject, AcceptHeight, AcceptPrevLink, AcceptTxs, AcceptOrphans,
                AcceptTimestamp, Recognize, Working
  <2>2. StoreInv'
    BY <1>1, <1>4, <1>6, <2>1, StoreAccepts
  <2>3. WindowInv'
    BY <1>1, <1>3, <2>1, WindowKept
  <2>4. B \in AllBlocks /\ k12 \subseteq AllBlocks
    BY <1>1, <1>2, <2>1, RowTips DEF ScanInv
  <2>5. CASE Recognize
    BY <1>1, <1>2, <2>2, <2>3, <2>5, MarksRecognize DEF IndexInv
  <2>6. CASE ~Recognize
    <3>1. PICK n \in 0..5 : Working("confirm", n)
      BY <1>6, <2>6 DEF Accepts, AcceptObject, AcceptHeight, AcceptPrevLink, AcceptTxs,
                        AcceptOrphans, AcceptTimestamp
    <3>2. UNCHANGED <<k15, scanVars>> /\ (k12' = k12 \/ k12' = k12 \cup {B})
      BY <1>6, <2>6 DEF Accepts, AcceptObject, AcceptHeight, AcceptPrevLink, AcceptTxs,
                        AcceptOrphans, AcceptTimestamp
    <3>3. k12' \subseteq AllBlocks
      BY <2>4, <3>2
    <3>4. ScanInv' /\ MarksCond'
      BY <1>1, <1>2, <3>1, <3>2, <3>3, MarksWrite
    <3> QED BY <2>2, <2>3, <3>4 DEF IndexInv
  <2> QED BY <2>5, <2>6
<1>7. CASE Rejects
  <2>1. consumed < Len(rows) /\ UNCHANGED <<producerVars, crashes>>
    BY <1>7 DEF Rejects, RejectOrphans, RejectHeight, RejectFlag, RejectTimestamp, RejectPrevLink,
                Working
  <2>2. StoreInv'
    BY <1>1, <1>4, <1>7, <2>1, StoreRejects
  <2>3. WindowInv'
    BY <1>1, <1>3, <2>1, WindowKept
  <2>4. PICK n \in 0..5 : Working("reject", n)
    BY <1>7 DEF Rejects, RejectOrphans, RejectHeight, RejectFlag, RejectTimestamp, RejectPrevLink
  <2>5. UNCHANGED <<k12, k15, scanVars>>
    BY <1>7 DEF Rejects, RejectOrphans, RejectHeight, RejectFlag, RejectTimestamp, RejectPrevLink
  <2>6. k12' \subseteq AllBlocks
    BY <1>1, <2>5 DEF ScanInv
  <2>7. ScanInv' /\ MarksCond'
    BY <1>1, <1>2, <2>4, <2>5, <2>6, MarksWrite
  <2> QED BY <2>2, <2>3, <2>7 DEF IndexInv
<1>8. CASE UpdateLastTxlog2Id
  <2>1. Old' = New /\ RowsInv' /\ HeightsInv' /\ BlocksInv' /\ OrphansInv' /\ TimesInv'
    BY <1>2, <1>8, RowTaken
  <2>2. WindowInv'
    BY <1>1, <1>3, <1>8, WindowKept DEF UpdateLastTxlog2Id
  <2>3. ScanInv' /\ MarksCond'
    BY <1>1, <1>2, <1>8, <2>1, MarksTaken
  <2> QED BY <2>1, <2>2, <2>3 DEF IndexInv, StoreInv
<1>9. ASSUME UNCHANGED <<producerVars, consumed, k10, k11, k13, k14>>, step' \in {0, step},
             crashes' \in 0..MaxCrash
      PROVE  StoreInv' /\ WindowInv'
  <2>1. UNCHANGED <<rows, cur>>
    BY <1>9 DEF producerVars
  <2>2. KeepsRow
    BY <1>2, <1>9, <2>1, KeepsSame
  <2>3. /\ step' \in 0..7 /\ (consumed = Len(rows) => step' = 0)
        /\ cur' = Down \/ cur' = TipAfter(Len(rows))
    BY <1>2, <1>9, <2>1 DEF RowsInv
  <2>4. RowsInv'
    BY <1>2, <1>9, <2>1, <2>3, RowsSame
  <2>5. HeightsInv' /\ BlocksInv' /\ OrphansInv' /\ TimesInv'
    BY <1>2, <1>9, <2>2, StoreKept
  <2>6. WindowInv'
    BY <1>1, <1>9, WindowKept
  <2> QED BY <2>4, <2>5, <2>6 DEF StoreInv
<1>10. CASE ScanStarts
  <2>1. UNCHANGED <<producerVars, consumed, step, k10, k11, k13, k14, crashes>>
    BY <1>10 DEF ScanStarts, ScanIdle, keyVars
  <2> QED BY <1>1, <1>2, <1>3, <1>9, <1>10, <2>1, MarksStart DEF IndexInv
<1>11. CASE ScanStep
  <2>1. UNCHANGED <<producerVars, consumed, step, k10, k11, k13, k14, crashes>>
    BY <1>11 DEF ScanStep, ScanIdle
  <2> QED BY <1>1, <1>2, <1>3, <1>9, <1>11, <2>1, MarksStep DEF IndexInv
<1>12. CASE ScanFails \/ Crash
  <2>1. Died /\ crashes' \in 0..MaxCrash
    BY <1>3, <1>12, TimeAssumption DEF ScanFails, Crash
  <2>2. UNCHANGED <<producerVars, consumed, k10, k11, k13, k14>> /\ step' = 0
    BY <2>1 DEF Died, keyVars
  <2> QED BY <1>1, <1>2, <1>9, <2>1, <2>2, MarksDied DEF IndexInv
<1>13. CASE UNCHANGED vars
  <2>1. UNCHANGED <<producerVars, consumed, step, k10, k11, k13, k14, crashes>>
        /\ UNCHANGED <<k12, k15, scanVars>>
    BY <1>13 DEF vars, keyVars
  <2>2. KeepsRow
    BY <1>2, <2>1, KeepsSame DEF producerVars
  <2>3. ScanInv' /\ MarksCond'
    BY <1>1, <1>2, <2>1, <2>2, MarksKept
  <2> QED BY <1>3, <1>9, <2>1, <2>3 DEF IndexInv
<1> QED BY <1>5, <1>6, <1>7, <1>8, <1>10, <1>11, <1>12, <1>13 DEF Next, Accepts, Rejects

\* The inductive invariant holds in every behaviour.
THEOREM IndexInvHolds == Spec => []IndexInv
BY IndexInit, IndexStep, PTL DEF Spec

\* What RowDone tells of the tip.
LEMMA DoneTip == ASSUME RowsInv, RowDone PROVE Tip = New
BY DEF Tip, New, RowDone, RowsInv

\* Whatever the crashes, the restarts and the blocks undone, the 10_ keys are the
\* chain of the tip when the writes of a row are complete, and initLog2() finds the
\* tip of the rows in them.
THEOREM HeightsFollow == Spec => []HeightsAreChain
<1>1. IndexInv => HeightsAreChain
  <2> SUFFICES ASSUME IndexInv, RowDone
               PROVE  HeightMap(k10, Tip)
    BY DEF HeightsAreChain, HeightMap
  <2> QED BY DoneExact, DoneTip DEF IndexInv, StoreInv
<1> QED BY <1>1, IndexInvHolds, PTL

\* The orphan flags, the 13_ keys and the links agree with each other and with the
\* chain when the writes of a row are complete.
THEOREM BlocksFollow == Spec => []BlocksExact
<1>1. IndexInv => BlocksExact
  <2> SUFFICES ASSUME IndexInv, RowDone
               PROVE  /\ \A b \in DOMAIN k11 : k11[b].orphan <=> b \notin OnChain[Tip]
                      /\ \A b \in DOMAIN k11 : k11[b].orphan <=> Listed(b)
                      /\ \A h \in DOMAIN k13 : k13[h] # {} /\ k13[h] \subseteq DOMAIN k11
                      /\ \A b \in DOMAIN k11 : k11[b].next = NextOf(b, Tip)
    BY DEF BlocksExact, Listed
  <2>1. /\ \A b \in DOMAIN k11 : k11[b] = Obj(b, Tip)
        /\ \A b \in DOMAIN k11 : Listed(b) <=> b \notin OnChain[Tip]
    BY DoneExact, DoneTip DEF IndexInv, StoreInv
  <2>2. ASSUME NEW b \in DOMAIN k11
        PROVE  (k11[b].orphan <=> b \notin OnChain[Tip]) /\ k11[b].next = NextOf(b, Tip)
    <3>1. k11[b] = Obj(b, Tip)
      BY <2>1
    <3>2. k11[b].orphan = (b \notin OnChain[Tip]) /\ k11[b].next = NextOf(b, Tip)
      BY <3>1 DEF Obj
    <3> QED BY <3>2
  <2>3. \A h \in DOMAIN k13 : k13[h] # {} /\ k13[h] \subseteq DOMAIN k11
    BY DEF IndexInv, StoreInv, OrphansInv
  <2> QED BY <2>1, <2>2, <2>3
<1> QED BY <1>1, IndexInvHolds, PTL

\* The 14_ key that rejectBlock() deletes is the one that acceptBlock() wrote.
THEOREM TimestampsFollow == Spec => []TimestampsExact
<1>1. IndexInv => TimestampsExact
  <2> SUFFICES ASSUME IndexInv, RowDone
               PROVE  TimeMap(k14, Tip)
    BY DEF TimestampsExact, TimeMap, TimeKey
  <2> QED BY DoneExact, DoneTip DEF IndexInv, StoreInv
<1> QED BY <1>1, IndexInvHolds, PTL

\* log2producer's window ends at its tip, and its maximum is that of the chain.
THEOREM WindowFollows == Spec => []WindowFollowsTip
<1>1. IndexInv => WindowFollowsTip
  <2> SUFFICES ASSUME IndexInv, cur # Down
               PROVE  /\ ts # <<>> /\ Max(DOMAIN ts) = Height[cur]
                      /\ \A h \in DOMAIN ts : \E b \in OnChain[cur] : Height[b] = h /\ ts[h] = Time[b]
                      /\ currMax = NewestTime[cur]
    BY DEF WindowFollowsTip
  <2>1. PICK lo \in Nat : WindowAt(ts, cur, lo)
    BY DEF IndexInv, WindowInv
  <2>2. currMax = NewestTime[cur]
    BY DEF IndexInv, WindowInv
  <2>3. cur \in AllBlocks /\ Loaded \in OnChain[cur]
    BY DEF IndexInv, StoreInv, RowsInv
  <2>4. lo <= Height[cur] /\ DOMAIN ts = lo..Height[cur] /\ Height[cur] \in Nat
    BY <2>1, <2>3, TreeTypes DEF WindowAt
  <2>5. Max(DOMAIN ts) = Height[cur]
    BY <2>4, IntervalEnds
  <2>6. ts # <<>>
    BY <2>4
  <2>7. \A h \in DOMAIN ts : \E b \in OnChain[cur] : Height[b] = h /\ ts[h] = Time[b]
    BY <2>1, <2>3, WindowHasNewest
  <2> QED BY <2>2, <2>5, <2>6, <2>7
<1> QED BY <1>1, IndexInvHolds, PTL

\* Once the thread has ended, every block of the chain has its mark, unless the
\* thread was cut off.
THEOREM MarksFollow == Spec => []MarksComplete
<1>1. IndexInv => MarksComplete
  <2> SUFFICES ASSUME IndexInv, RowDone, started, scan = {}, ~cut
               PROVE  OnChain[Tip] \subseteq k15
    BY DEF MarksComplete
  <2>1. RowsInv /\ ScanInv /\ MarksInv
    BY DEF IndexInv, StoreInv, MarksCond
  <2>2. OnChain[Old] \cap OnChain[New] \subseteq k15
    BY <2>1 DEF MarksInv
  <2>3. OnChain[New] \subseteq (OnChain[Old] \cap OnChain[New]) \cup k15
    BY <2>1, DoneMarked
  <2> QED BY <2>1, <2>2, <2>3, DoneTip
<1> QED BY <1>1, IndexInvHolds, PTL

\* Every variable has its type; the window never exceeds its limit.
THEOREM TypeCorrect == Spec => []TypeOK
<1>1. IndexInv => TypeOK
  <2> SUFFICES ASSUME IndexInv PROVE TypeOK
    OBVIOUS
  <2>1. RowsInv /\ HeightsInv /\ BlocksInv /\ OrphansInv /\ TimesInv /\ WindowInv /\ ScanInv
    BY DEF IndexInv, StoreInv
  <2>2. Old \in AllBlocks /\ New \in AllBlocks
    BY <2>1, Tips
  <2>3. cur = Down \/ cur \in AllBlocks
    BY <2>1 DEF RowsInv
  <2>4. /\ DOMAIN ts \subseteq Nat /\ Cardinality(DOMAIN ts) <= Limit
        /\ \A h \in DOMAIN ts : ts[h] \in Nat
    <3>1. CASE ts = <<>>
      <4>1. DOMAIN ts = {}
        BY <3>1
      <4> QED BY <4>1, FS_EmptySet, WindowTypes
    <3>2. CASE ts # <<>>
      <4>1. PICK t \in AllBlocks : \E lo \in Nat : WindowAt(ts, t, lo)
        BY <2>1, <3>2 DEF WindowInv
      <4>2. PICK lo \in Nat : WindowAt(ts, t, lo)
        BY <4>1
      <4>3. /\ lo >= Height[Begin] /\ lo <= Height[t] /\ Height[t] - lo < Limit
            /\ DOMAIN ts = lo..Height[t] /\ Height[t] \in Nat
            /\ \A b \in OnChain[t] : Height[b] \in DOMAIN ts => ts[Height[b]] = Time[b]
        BY <4>2, TreeTypes DEF WindowAt
      <4>4. Cardinality(DOMAIN ts) = Height[t] - lo + 1
        BY <4>3, IntervalEnds
      <4>5. Cardinality(DOMAIN ts) <= Limit
        BY <4>3, <4>4, WindowTypes
      <4>6. ASSUME NEW h \in DOMAIN ts PROVE ts[h] \in Nat
        <5>1. h \in Height[Begin]..Height[t]
          BY <4>3, TreeTypes
        <5>2. PICK b \in OnChain[t] : Height[b] = h
          BY <5>1, OnChainHeights
        <5>3. b \in AllBlocks
          BY OnChainFacts
        <5> QED BY <4>3, <5>2, <5>3, WindowTypes
      <4> QED BY <4>3, <4>5, <4>6
    <3> QED BY <3>1, <3>2
  <2>5. currMax \in Nat /\ crashes \in 0..MaxCrash /\ restarts \in 0..MaxRestart
    BY <2>1 DEF WindowInv
  <2>6. (\A i \in 1..Len(rows) : rows[i] \in Row) /\ consumed \in 0..Len(rows) /\ step \in 0..7
    BY <2>1 DEF RowsInv
  <2>7. \A h \in DOMAIN k10 : k10[h] \in AllBlocks
    <3>1. PICK t \in {Old, New} : HeightMap(k10, t)
      BY <2>1 DEF HeightsInv
    <3>2. OnChain[t] \subseteq AllBlocks
      BY <2>2, <3>1, OnChainFacts
    <3> QED BY <3>1, <3>2 DEF HeightMap
  <2>8. \A k \in DOMAIN k14 : k14[k] \in AllBlocks
    <3>1. PICK t \in {Old, New} : TimeMap(k14, t)
      BY <2>1 DEF TimesInv
    <3>2. OnChain[t] \subseteq AllBlocks
      BY <2>2, <3>1, OnChainFacts
    <3> QED BY <3>1, <3>2 DEF TimeMap
  <2>9. DOMAIN k11 \subseteq AllBlocks
    BY <2>1 DEF BlocksInv
  <2>10. ASSUME NEW b \in DOMAIN k11
         PROVE  k11[b].orphan \in BOOLEAN /\ (k11[b].next = NoBlock \/ k11[b].next \in Block)
    <3>1. PICK t \in {Old, New} : k11[b] = Obj(b, t)
      BY <2>1 DEF BlocksInv
    <3>2. k11[b].orphan = (b \notin OnChain[t]) /\ k11[b].next = NextOf(b, t)
      BY <3>1 DEF Obj
    <3> QED BY <3>2, NextOfType
  <2>11. \A h \in DOMAIN k13 : k13[h] \subseteq Block
    BY <2>1 DEF OrphansInv
  <2>12. /\ k12 \subseteq AllBlocks /\ k15 \subseteq AllBlocks
         /\ started \in BOOLEAN /\ cut \in BOOLEAN
    BY <2>1 DEF ScanInv
  <2>13. scan \subseteq AllBlocks
    BY <2>1, OnChainFacts DEF ScanInv
  <2> QED BY <2>3, <2>4, <2>5, <2>6, <2>7, <2>8, <2>9, <2>10, <2>11, <2>12, <2>13 DEF TypeOK
<1> QED BY <1>1, IndexInvHolds, PTL
=============================================================================
