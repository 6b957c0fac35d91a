------------------------- MODULE Log1ProducerProofs -------------------------
(***************************************************************************)
(* Theorems about Log1Producer for every block tree, every behaviour of    *)
(* the node and every bound: types, that a restart rebuilds the chain that *)
(* the process had, that log0 is copied line by line, and that the blocks  *)
(* of log1 are a walk that ends at the tip of the node.                    *)
(***************************************************************************)
EXTENDS Log1Producer, BlockTreeProofs

Blocks == Block \cup {Begin}
AnyLine == Line \cup {ClearLine}

\* A piece of a branch, oldest block first: what chain_ holds.
Linked(c) ==
    /\ c \in Seq(Blocks) /\ c # <<>>
    /\ \A i \in 2..Len(c) : c[i] \in Block /\ Prev[c[i]] = c[i - 1]

-----------------------------------------------------------------------------
(* Lines and sequences. *)

\* The parts of a line of log0 or log1.
LEMMA LineParts ==
    /\ \A b \in Blocks : BlockLine(b) \in Line /\ BlockLine(b).type = "block" /\ BlockLine(b).item = b
    /\ \A t \in Tx : TxLine(t) \in Line /\ TxLine(t).type # "block"
    /\ ClearLine.type # "block"
    /\ \A x \in AnyLine : x.type = "block" => x.item \in Blocks /\ x = BlockLine(x.item)
<1>1. \A b \in Blocks : BlockLine(b) \in Line /\ BlockLine(b).type = "block" /\ BlockLine(b).item = b
  BY DEF BlockLine, Line, Blocks
<1>2. \A t \in Tx : TxLine(t) \in Line /\ TxLine(t).type # "block"
  BY DEF TxLine, Line
<1>3. ClearLine.type # "block"
  BY DEF ClearLine
<1>4. ASSUME NEW x \in AnyLine, x.type = "block" PROVE x.item \in Blocks /\ x = BlockLine(x.item)
  <2>1. x \in Line
    BY <1>3, <1>4 DEF AnyLine
  <2>2. PICK b \in Blocks : x = BlockLine(b)
    BY <1>2, <1>4, <2>1 DEF Line, Blocks
  <2> QED BY <1>1, <2>2
<1> QED BY <1>1, <1>2, <1>3, <1>4

\* Front drops the last element.
LEMMA FrontFacts ==
    ASSUME NEW S, NEW c \in Seq(S), c # <<>>
    PROVE  /\ Front(c) \in Seq(S) /\ Len(Front(c)) = Len(c) - 1
           /\ \A i \in 1..(Len(c) - 1) : Front(c)[i] = c[i]
           /\ Len(c) \in Nat /\ Len(c) >= 1 /\ Last(c) \in S
<1>1. Len(c) \in Nat /\ Len(c) >= 1 /\ \A i \in 1..Len(c) : c[i] \in S
  BY EmptySeq
<1>2. PICK n : n = Len(c) - 1
  OBVIOUS
<1>3. n \in Nat /\ \A i \in 1..n : c[i] \in S
  BY <1>1, <1>2
<1>4. /\ SubSeq(c, 1, n) \in Seq(S)
      /\ Len(SubSeq(c, 1, n)) = IF 1 <= n THEN n - 1 + 1 ELSE 0
      /\ \A i \in 1..(n - 1 + 1) : SubSeq(c, 1, n)[i] = c[1 + i - 1]
  BY <1>3, SubSeqProperties
<1>5. PICK f : f = Front(c)
  OBVIOUS
<1>6. f = SubSeq(c, 1, n)
  BY <1>2, <1>5 DEF Front
<1>7. f \in Seq(S) /\ Len(f) = n
  BY <1>3, <1>4, <1>6
<1>8. \A i \in 1..n : f[i] = c[i]
  BY <1>3, <1>4, <1>6
<1>9. Last(c) \in S
  BY <1>1 DEF Last
<1> QED BY <1>1, <1>2, <1>5, <1>7, <1>8, <1>9

-----------------------------------------------------------------------------
(* class Chain. *)

\* The block below: one lower, and it is in the tree.
LEMMA BelowOne ==
    /\ \A b \in Blocks : Height[b] \in Nat /\ Height[b] >= Height[Begin]
    /\ \A b \in Block : b \in Blocks /\ Prev[b] \in Blocks /\ Height[b] = Height[Prev[b]] + 1
    /\ Begin \in Blocks /\ Height[Begin] \in Nat
  BY BlockTreeAssumption DEF Blocks

\* Front of a linked chain, and the two last blocks of it.
LEMMA FrontLinked ==
    ASSUME NEW c, Linked(c), Len(c) > 1
    PROVE  /\ Linked(Front(c)) /\ Len(Front(c)) = Len(c) - 1
           /\ Last(Front(c)) = c[Len(c) - 1] /\ Last(c) \in Block
           /\ Prev[Last(c)] = Last(Front(c)) /\ Last(Front(c)) \in Blocks
<1>1. PICK f, n : f = Front(c) /\ n = Len(c) - 1
  OBVIOUS
<1>2. /\ c \in Seq(Blocks) /\ c # <<>> /\ Len(c) \in Nat
      /\ \A i \in 2..Len(c) : c[i] \in Block /\ Prev[c[i]] = c[i - 1]
  BY DEF Linked
<1>3. f \in Seq(Blocks) /\ Len(f) = n /\ \A i \in 1..n : f[i] = c[i]
  BY <1>1, <1>2, FrontFacts
<1>4. n \in Nat /\ n >= 1 /\ Len(c) = n + 1
  BY <1>1, <1>2
<1>5. ASSUME NEW i \in 2..n PROVE f[i] \in Block /\ Prev[f[i]] = f[i - 1]
  <2>1. i \in 1..n /\ i - 1 \in 1..n /\ i \in 2..Len(c)
    BY <1>4
  <2> QED BY <1>2, <1>3, <2>1
<1>6. f # <<>>
  BY <1>3, <1>4
<1>7. Linked(f)
  BY <1>3, <1>5, <1>6 DEF Linked
<1>8. Last(f) = c[n]
  BY <1>3, <1>4 DEF Last
<1>9. n + 1 \in 2..Len(c) /\ (n + 1) - 1 = n /\ n \in 1..n
  BY <1>4
<1>10. Last(c) \in Block /\ Prev[Last(c)] = c[n]
  BY <1>2, <1>4, <1>9 DEF Last
<1>11. c[n] \in Blocks
  BY <1>10, BelowOne
<1> QED BY <1>1, <1>3, <1>7, <1>8, <1>10, <1>11

\* A linked chain with another block on top.
LEMMA AppendLinked ==
    ASSUME NEW c, Linked(c), NEW b \in Block, Prev[b] = Last(c)
    PROVE  Linked(Append(c, b)) /\ Len(Append(c, b)) = Len(c) + 1 /\ Last(Append(c, b)) = b
<1>1. PICK f : f = Append(c, b)
  OBVIOUS
<1>2. /\ c \in Seq(Blocks) /\ c # <<>> /\ Len(c) \in Nat /\ Len(c) >= 1
      /\ \A i \in 2..Len(c) : c[i] \in Block /\ Prev[c[i]] = c[i - 1]
  BY FrontFacts DEF Linked
<1>3. /\ f \in Seq(Blocks) /\ Len(f) = Len(c) + 1
      /\ \A i \in 1..Len(c) : f[i] = c[i]
      /\ f[Len(c) + 1] = b
  BY <1>1, <1>2, BelowOne, AppendProperties
<1>4. ASSUME NEW i \in 2..Len(f) PROVE f[i] \in Block /\ Prev[f[i]] = f[i - 1]
  <2>1. CASE i \in 2..Len(c)
    <3>1. f[i] = c[i] /\ f[i - 1] = c[i - 1]
      BY <1>3, <2>1
    <3> QED BY <1>2, <2>1, <3>1
  <2>2. CASE i = Len(c) + 1
    <3>1. f[i] = b /\ f[i - 1] = c[Len(c)]
      BY <1>2, <1>3, <2>2
    <3> QED BY <3>1 DEF Last
  <2> QED BY <1>2, <1>3, <2>1, <2>2
<1>5. f # <<>>
  BY <1>2, <1>3
<1>6. Linked(f)
  BY <1>3, <1>4, <1>5 DEF Linked
<1>7. Last(f) = b
  BY <1>3 DEF Last
<1> QED BY <1>1, <1>3, <1>6, <1>7

\* Dropping the oldest block of two or more.
LEMMA TailLinked ==
    ASSUME NEW c, Linked(c), Len(c) > 1
    PROVE  Linked(Tail(c)) /\ Len(Tail(c)) = Len(c) - 1 /\ Last(Tail(c)) = Last(c)
<1>1. PICK f, n : f = Tail(c) /\ n = Len(c) - 1
  OBVIOUS
<1>2. /\ c \in Seq(Blocks) /\ c # <<>> /\ Len(c) \in Nat
      /\ \A i \in 2..Len(c) : c[i] \in Block /\ Prev[c[i]] = c[i - 1]
  BY DEF Linked
<1>3. f \in Seq(Blocks) /\ Len(f) = n /\ \A i \in 1..n : f[i] = c[i + 1]
  BY <1>1, <1>2, HeadTailProperties
<1>4. n \in Nat /\ n >= 1 /\ Len(c) = n + 1
  BY <1>1, <1>2
<1>5. ASSUME NEW i \in 2..n PROVE f[i] \in Block /\ Prev[f[i]] = f[i - 1]
  <2>1. i \in 1..n /\ i - 1 \in 1..n /\ i + 1 \in 2..Len(c) /\ (i + 1) - 1 = i /\ (i - 1) + 1 = i
    BY <1>4
  <2>2. f[i] = c[i + 1] /\ f[i - 1] = c[i]
    BY <1>3, <2>1
  <2> QED BY <1>2, <2>1, <2>2
<1>6. f # <<>>
  BY <1>3, <1>4
<1>7. Last(f) = Last(c)
  BY <1>3, <1>4 DEF Last
<1> QED BY <1>1, <1>3, <1>5, <1>6, <1>7 DEF Linked

\* push(): a linked chain stays linked and within the limit.  A block that fits
\* because it is adjacent to the last one becomes the last one.
LEMMA PushFacts ==
    ASSUME NEW c, Linked(c), Len(c) <= ChainLimit, NEW b \in Blocks, CanPush(c, b)
    PROVE  /\ Linked(Push(c, b)) /\ Len(Push(c, b)) <= ChainLimit
           /\ Adjacent(Last(c), b) => Last(Push(c, b)) = b
           /\ Height[b] > Height[Last(c)] => Last(Push(c, b)) = b
<1>1. c \in Seq(Blocks) /\ Len(c) \in Nat /\ Len(c) >= 1 /\ Last(c) \in Blocks
  BY FrontFacts DEF Linked
<1>2. ChainLimit \in Nat /\ ChainLimit >= 1
  BY Log1Assumption
<1>3. Height[b] \in Nat /\ Height[Last(c)] \in Nat /\ Height[Last(c)] >= Height[Begin]
  BY <1>1, BelowOne
<1>4. CASE Height[b] > Height[Last(c)]
  <2>1. Height[b] = Height[Last(c)] + 1 /\ Prev[b] = Last(c)
    BY <1>3, <1>4 DEF CanPush
  <2>2. b \in Block
    BY <1>3, <1>4, BelowOne DEF Blocks
  <2>3. PICK f : f = Append(c, b)
    OBVIOUS
  <2>4. Linked(f) /\ Len(f) = Len(c) + 1 /\ Last(f) = b
    BY <2>1, <2>2, <2>3, AppendLinked
  <2>5. Push(c, b) = Trim(f)
    BY <1>4, <2>3 DEF Push
  <2>6. CASE Len(f) > ChainLimit
    <3>1. Trim(f) = Tail(f)
      BY <2>6 DEF Trim
    <3>2. Len(f) > 1 /\ Len(f) - 1 <= ChainLimit
      BY <1>1, <1>2, <2>4
    <3>3. Linked(Tail(f)) /\ Len(Tail(f)) = Len(f) - 1 /\ Last(Tail(f)) = Last(f)
      BY <2>4, <3>2, TailLinked
    <3> QED BY <2>4, <2>5, <3>1, <3>2, <3>3
  <2>7. CASE ~(Len(f) > ChainLimit)
    <3>1. Trim(f) = f
      BY <2>7 DEF Trim
    <3>2. Len(f) <= ChainLimit
      BY <1>1, <1>2, <2>4, <2>7
    <3> QED BY <2>4, <2>5, <3>1, <3>2
  <2> QED BY <2>6, <2>7
<1>5. CASE ~(Height[b] > Height[Last(c)])
  <2>1. Height[b] + 1 = Height[Last(c)] /\ Len(c) > 3
    BY <1>3, <1>5 DEF CanPush
  <2>2. PICK f : f = Front(c)
    OBVIOUS
  <2>3. /\ Linked(f) /\ Len(f) = Len(c) - 1
        /\ Last(c) \in Block /\ Prev[Last(c)] = Last(f)
    BY <1>1, <2>1, <2>2, FrontLinked
  <2>4. Len(f) <= ChainLimit /\ ~(Len(f) > ChainLimit)
    BY <1>1, <1>2, <2>3
  <2>5. Push(c, b) = f
    BY <1>5, <2>2, <2>4 DEF Push, Trim
  <2>6. ASSUME Adjacent(Last(c), b) PROVE Last(f) = b
    <3>1. CASE b \in Block /\ Prev[b] = Last(c)
      <4>1. Height[b] = Height[Last(c)] + 1
        BY <3>1, BelowOne
      <4> QED BY <1>3, <2>1, <4>1
    <3>2. CASE Last(c) \in Block /\ Prev[Last(c)] = b
      BY <2>3, <3>2
    <3> QED BY <2>6, <3>1, <3>2 DEF Adjacent
  <2> QED BY <1>5, <2>3, <2>4, <2>5, <2>6
<1> QED BY <1>4, <1>5

\* A block that is adjacent to the last one fits, if the chain is long enough to
\* go back.
LEMMA AdjacentFits ==
    ASSUME NEW c, Linked(c), NEW b \in Blocks, Adjacent(Last(c), b),
           Height[b] < Height[Last(c)] => Len(c) > 3
    PROVE  CanPush(c, b)
<1>1. c \in Seq(Blocks) /\ Len(c) \in Nat /\ Len(c) >= 1 /\ Last(c) \in Blocks
  BY FrontFacts DEF Linked
<1>2. Height[b] \in Nat /\ Height[Last(c)] \in Nat
  BY <1>1, BelowOne
<1>3. CASE b \in Block /\ Prev[b] = Last(c)
  BY <1>3, BelowOne DEF CanPush
<1>4. CASE Last(c) \in Block /\ Prev[Last(c)] = b
  <2>1. Height[b] + 1 = Height[Last(c)]
    BY <1>4, BelowOne
  <2>2. Len(c) > 3
    BY <1>2, <2>1
  <2>3. PICK n : n = Len(c)
    OBVIOUS
  <2>4. n \in 2..Len(c) /\ n - 1 \in 2..Len(c) /\ (n - 1) - 1 = n - 2
    BY <1>1, <2>2, <2>3
  <2>5. Prev[c[n]] = c[n - 1] /\ Prev[c[n - 1]] = c[n - 2]
    BY <2>4 DEF Linked
  <2>6. Prev[b] = c[Len(c) - 2]
    BY <1>4, <2>3, <2>5 DEF Last
  <2> QED BY <2>1, <2>2, <2>6 DEF CanPush
<1> QED BY <1>3, <1>4 DEF Adjacent

-----------------------------------------------------------------------------
(* initLog1(): the recursive definition of Replay computes what it says. *)

NoReplay == [ok |-> TRUE, chain |-> <<>>]

\* g is the replay of the first n lines, for every n up to m.
IsAfter(g, s, m) == g = [n \in 0..m |-> IF n = 0 THEN NoReplay ELSE ReplayLine(g[n - 1], s[n])]

\* There is a replay of any number of lines.
LEMMA AfterExists ==
    ASSUME NEW s, NEW m \in Nat
    PROVE  \E g : IsAfter(g, s, m)
<1> DEFINE X == {k \in 0..m : \E g : IsAfter(g, s, k)}
<1>1. 0 \in X
  <2>1. PICK g : g = [n \in 0..0 |-> NoReplay]
    OBVIOUS
  <2>2. IsAfter(g, s, 0)
    BY <2>1 DEF IsAfter
  <2> QED BY <2>2
<1>2. ASSUME NEW k \in 0..(m - 1), k \in X PROVE k + 1 \in X
  <2>1. PICK g : IsAfter(g, s, k)
    BY <1>2
  <2>2. PICK h : h = [n \in 0..(k + 1) |-> IF n = k + 1 THEN ReplayLine(g[k], s[k + 1]) ELSE g[n]]
    OBVIOUS
  <2>3. k \in Nat /\ k + 1 \in 0..m
    OBVIOUS
  <2>4. ASSUME NEW n \in 0..(k + 1)
        PROVE  h[n] = IF n = 0 THEN NoReplay ELSE ReplayLine(h[n - 1], s[n])
    <3>1. CASE n = k + 1
      <4>1. n # 0 /\ n - 1 = k /\ k \in 0..(k + 1) /\ k # k + 1
        BY <2>3, <3>1
      <4>2. h[k] = g[k]
        BY <2>2, <4>1
      <4>3. h[n] = ReplayLine(g[k], s[n])
        BY <2>2, <3>1
      <4> QED BY <4>1, <4>2, <4>3
    <3>2. CASE n \in 0..k
      <4>1. n # k + 1
        BY <2>3, <3>2
      <4>2. h[n] = g[n]
        BY <2>2, <4>1
      <4>3. g[n] = IF n = 0 THEN NoReplay ELSE ReplayLine(g[n - 1], s[n])
        BY <2>1, <3>2 DEF IsAfter
      <4>4. CASE n = 0
        BY <4>2, <4>3, <4>4
      <4>5. CASE n # 0
        <5>1. n - 1 \in 0..(k + 1) /\ n - 1 # k + 1
          BY <2>3, <3>2, <4>5
        <5>2. h[n - 1] = g[n - 1]
          BY <2>2, <5>1
        <5> QED BY <4>2, <4>3, <4>5, <5>2
      <4> QED BY <4>4, <4>5
    <3> QED BY <2>3, <3>1, <3>2
  <2>5. h = [n \in 0..(k + 1) |-> IF n = 0 THEN NoReplay ELSE ReplayLine(h[n - 1], s[n])]
    BY <2>2, <2>4
  <2> QED BY <2>3, <2>5 DEF IsAfter
<1>3. m \in 0..m
  OBVIOUS
<1>4. m \in X
  <2> HIDE DEF X
  <2> QED BY <1>1, <1>2, <1>3, UpTo
<1> QED BY <1>4

\* There is only one, and it does not depend on later lines.
LEMMA AfterUnique ==
    ASSUME NEW s, NEW t, NEW m \in Nat, NEW k \in Nat, m <= k,
           \A i \in 1..m : s[i] = t[i],
           NEW g, NEW h, IsAfter(g, s, m), IsAfter(h, t, k)
    PROVE  g[m] = h[m]
<1> DEFINE X == {n \in 0..m : g[n] = h[n]}
<1>1. ASSUME NEW n \in 0..m
      PROVE  /\ g[n] = IF n = 0 THEN NoReplay ELSE ReplayLine(g[n - 1], s[n])
             /\ h[n] = IF n = 0 THEN NoReplay ELSE ReplayLine(h[n - 1], t[n])
  <2>1. n \in 0..k
    OBVIOUS
  <2> QED BY <2>1 DEF IsAfter
<1>2. 0 \in X
  <2>1. 0 \in 0..m
    OBVIOUS
  <2>2. g[0] = NoReplay /\ h[0] = NoReplay
    BY <1>1, <2>1
  <2> QED BY <2>1, <2>2
<1>3. ASSUME NEW n \in 0..(m - 1), n \in X PROVE n + 1 \in X
  <2>1. n + 1 \in 0..m /\ n + 1 # 0 /\ (n + 1) - 1 = n /\ n + 1 \in 1..m
    OBVIOUS
  <2>2. g[n] = h[n]
    BY <1>3
  <2>3. g[n + 1] = ReplayLine(g[n], s[n + 1]) /\ h[n + 1] = ReplayLine(h[n], t[n + 1])
    BY <1>1, <2>1
  <2>4. s[n + 1] = t[n + 1]
    BY <2>1
  <2> QED BY <2>1, <2>2, <2>3, <2>4
<1>4. m \in X
  <2>1. m \in 0..m
    OBVIOUS
  <2> HIDE DEF X
  <2> QED BY <1>2, <1>3, <2>1, UpTo
<1> QED BY <1>4

\* The replay is the value of such a function at the last line.
LEMMA ReplayValue ==
    ASSUME NEW s, NEW m \in Nat, Len(s) = m
    PROVE  \E g : IsAfter(g, s, m) /\ Replay(s) = g[m]
<1> DEFINE D(f) == f = [n \in 0..m |-> IF n = 0 THEN NoReplay ELSE ReplayLine(f[n - 1], s[n])]
<1>1. PICK g : g = CHOOSE f : D(f)
  OBVIOUS
<1>2. \E f : D(f)
  BY AfterExists DEF IsAfter
<1>3. D(g)
  BY <1>1, <1>2
<1>4. Replay(s) = g[m]
  BY <1>1 DEF Replay, NoReplay
<1> QED BY <1>3, <1>4 DEF IsAfter

\* The replay of no line, and of one more.
LEMMA ReplayEmpty == Replay(<<>>) = NoReplay
<1>1. PICK g : IsAfter(g, <<>>, 0) /\ Replay(<<>>) = g[0]
  BY ReplayValue
<1>2. g[0] = NoReplay
  BY <1>1 DEF IsAfter
<1> QED BY <1>1, <1>2

\* The replay of one line more is one more step of initLog1().
LEMMA ReplayAppend ==
    ASSUME NEW S, NEW s \in Seq(S), NEW x \in S
    PROVE  Replay(Append(s, x)) = ReplayLine(Replay(s), x)
<1>1. PICK m, t : m = Len(s) /\ t = Append(s, x)
  OBVIOUS
<1>2. m \in Nat /\ Len(t) = m + 1 /\ (\A i \in 1..m : s[i] = t[i]) /\ t[m + 1] = x
  BY <1>1, AppendProperties
<1>3. PICK g : IsAfter(g, s, m) /\ Replay(s) = g[m]
  BY <1>1, <1>2, ReplayValue
<1>4. PICK h : IsAfter(h, t, m + 1) /\ Replay(t) = h[m + 1]
  BY <1>2, ReplayValue
<1>5. m <= m + 1 /\ m + 1 \in Nat /\ m + 1 \in 0..(m + 1) /\ m + 1 # 0 /\ (m + 1) - 1 = m
  BY <1>2
<1>6. g[m] = h[m]
  BY <1>2, <1>3, <1>4, <1>5, AfterUnique
<1>7. h[m + 1] = ReplayLine(h[m], t[m + 1])
  BY <1>4, <1>5 DEF IsAfter
<1> QED BY <1>1, <1>2, <1>3, <1>4, <1>6, <1>7

-----------------------------------------------------------------------------
(* The last block of a prefix of a log. *)

\* A set of positions has a highest one.
LEMMA MaxFacts ==
    ASSUME NEW n \in Nat, NEW S \in SUBSET (1..n), S # {}
    PROVE  Max(S) \in S /\ \A y \in S : Max(S) >= y
<1> DEFINE T == {n - x : x \in S}
<1>1. T \in SUBSET Nat /\ T # {}
  <2>1. ASSUME NEW x \in S PROVE n - x \in Nat
    <3>1. x \in 1..n
      OBVIOUS
    <3> QED BY <3>1
  <2>2. T \subseteq Nat
    BY <2>1
  <2>3. PICK x \in S : TRUE
    OBVIOUS
  <2>4. n - x \in T
    BY <2>3
  <2> QED BY <2>2, <2>4
<1>2. PICK m \in T : \A y \in T : m <= y
  BY <1>1, NatMin
<1>3. PICK x \in S : m = n - x
  BY <1>2
<1>4. ASSUME NEW y \in S PROVE x >= y
  <2>1. n - y \in T
    OBVIOUS
  <2>2. n - x <= n - y
    BY <1>2, <1>3, <2>1
  <2>3. x \in 1..n /\ y \in 1..n
    OBVIOUS
  <2> QED BY <2>2, <2>3
<1>5. \E z \in S : \A y \in S : z >= y
  BY <1>4
<1> QED BY <1>5 DEF Max

\* One more line: it is the last block, or the last block is as before.
LEMMA LastBlockNext ==
    ASSUME NEW s, NEW n \in Nat
    PROVE  LastBlock(s, n + 1) = IF s[n + 1].type = "block" THEN s[n + 1].item ELSE LastBlock(s, n)
<1>1. PICK A, B : A = BlockLines(s, n + 1) /\ B = BlockLines(s, n)
  OBVIOUS
<1>2. A \in SUBSET (1..(n + 1)) /\ n + 1 \in Nat /\ n + 1 \in 1..(n + 1)
  BY <1>1 DEF BlockLines
<1>3. CASE s[n + 1].type = "block"
  <2>1. n + 1 \in A
    BY <1>1, <1>2, <1>3 DEF BlockLines
  <2>2. Max(A) \in A /\ Max(A) >= n + 1
    BY <1>2, <2>1, MaxFacts
  <2>3. Max(A) = n + 1
    <3>1. PICK y : y = Max(A)
      OBVIOUS
    <3>2. y \in 1..(n + 1) /\ y >= n + 1
      BY <1>2, <2>2, <3>1
    <3>3. y = n + 1
      BY <3>2
    <3> QED BY <3>1, <3>3
  <2>4. LastBlock(s, n + 1) = s[Max(A)].item
    BY <1>1, <2>1 DEF LastBlock
  <2> QED BY <1>3, <2>3, <2>4
<1>4. CASE s[n + 1].type # "block"
  <2>1. A = B
    BY <1>1, <1>4 DEF BlockLines
  <2> QED BY <1>1, <1>4, <2>1 DEF LastBlock
<1> QED BY <1>3, <1>4

\* It depends on the prefix only.
LEMMA LastBlockPrefix ==
    ASSUME NEW s, NEW t, NEW n \in Nat, \A i \in 1..n : s[i] = t[i]
    PROVE  LastBlock(s, n) = LastBlock(t, n)
<1>1. PICK A, B : A = BlockLines(s, n) /\ B = BlockLines(t, n)
  OBVIOUS
<1>2. A = B /\ A \in SUBSET (1..n)
  BY <1>1 DEF BlockLines
<1>3. CASE A = {}
  BY <1>1, <1>2, <1>3 DEF LastBlock
<1>4. CASE A # {}
  <2>1. Max(A) \in 1..n
    BY <1>2, <1>4, MaxFacts
  <2>2. LastBlock(s, n) = s[Max(A)].item /\ LastBlock(t, n) = t[Max(A)].item
    BY <1>1, <1>2, <1>4 DEF LastBlock
  <2> QED BY <2>1, <2>2
<1> QED BY <1>3, <1>4

\* It is a block.
LEMMA LastBlockType ==
    ASSUME NEW s, NEW n \in Nat, \A i \in 1..n : s[i] \in AnyLine
    PROVE  LastBlock(s, n) \in Blocks
<1>1. PICK A : A = BlockLines(s, n)
  OBVIOUS
<1>2. A \in SUBSET (1..n) /\ \A i \in A : s[i].type = "block"
  BY <1>1 DEF BlockLines
<1>3. CASE A = {}
  BY <1>1, <1>3, BelowOne DEF LastBlock
<1>4. CASE A # {}
  <2>1. Max(A) \in 1..n /\ s[Max(A)].type = "block"
    BY <1>2, <1>4, MaxFacts
  <2>2. LastBlock(s, n) = s[Max(A)].item
    BY <1>1, <1>4 DEF LastBlock
  <2> QED BY <2>1, <2>2, LineParts
<1> QED BY <1>3, <1>4

\* The block of line i, if it has one, is adjacent to the block before.
FitsAt(s, i) == s[i].type = "block" => Adjacent(LastBlock(s, i - 1), s[i].item)
Walk(s) == \A i \in 1..Len(s) : FitsAt(s, i)

\* Walk, line by line, is the property Log1Walk.
LEMMA WalkIsLog1Walk == Walk(log1) <=> Log1Walk
  BY DEF Walk, FitsAt, Log1Walk, BlockLines

\* FitsAt depends on the prefix only.
LEMMA FitsAtPrefix ==
    ASSUME NEW s, NEW t, NEW n \in Nat, NEW k \in 1..n, \A i \in 1..n : s[i] = t[i]
    PROVE  FitsAt(s, k) <=> FitsAt(t, k)
<1>1. k - 1 \in Nat /\ \A i \in 1..(k - 1) : s[i] = t[i]
  OBVIOUS
<1>2. LastBlock(s, k - 1) = LastBlock(t, k - 1)
  BY <1>1, LastBlockPrefix
<1>3. s[k] = t[k]
  OBVIOUS
<1> QED BY <1>2, <1>3 DEF FitsAt

\* The last block after line x, and whether x fits.
BlockAfter(last, x) == IF x.type = "block" THEN x.item ELSE last
Fits(last, x) == x.type = "block" => Adjacent(last, x.item)

\* One line more at the end of a log.
LEMMA LogAppend ==
    ASSUME NEW S, NEW s \in Seq(S), NEW x \in S, NEW t, t = Append(s, x)
    PROVE  /\ t \in Seq(S) /\ Len(t) = Len(s) + 1 /\ Len(s) \in Nat
           /\ t[Len(s) + 1] = x
           /\ \A i \in 1..Len(s) : t[i] = s[i]
           /\ \A k \in 0..Len(s) : LastBlock(t, k) = LastBlock(s, k)
           /\ \A k \in 1..Len(s) : FitsAt(t, k) <=> FitsAt(s, k)
           /\ FitsAt(t, Len(t)) <=> Fits(LastBlock(s, Len(s)), x)
<1>1. PICK n : n = Len(s)
  OBVIOUS
<1>2. t \in Seq(S) /\ Len(t) = n + 1 /\ n \in Nat /\ t[n + 1] = x /\ \A i \in 1..n : t[i] = s[i]
  BY <1>1, AppendProperties
<1>3. ASSUME NEW k \in 0..n PROVE LastBlock(t, k) = LastBlock(s, k)
  <2>1. k \in Nat /\ \A i \in 1..k : t[i] = s[i]
    BY <1>2
  <2> QED BY <2>1, LastBlockPrefix
<1>4. n \in 0..n
  BY <1>2
<1>6. ASSUME NEW k \in 1..n PROVE FitsAt(t, k) <=> FitsAt(s, k)
  BY <1>2, FitsAtPrefix
<1>7. FitsAt(t, n + 1) <=> Fits(LastBlock(s, n), x)
  <2>1. (n + 1) - 1 = n
    BY <1>2
  <2>2. LastBlock(t, n) = LastBlock(s, n)
    BY <1>3, <1>4
  <2> QED BY <1>2, <2>1, <2>2 DEF FitsAt, Fits
<1> QED BY <1>1, <1>2, <1>3, <1>6, <1>7

\* The last block after one line more.
LEMMA LogAppendLast ==
    ASSUME NEW S, NEW s \in Seq(S), NEW x \in S
    PROVE  LastBlock(Append(s, x), Len(Append(s, x))) = BlockAfter(LastBlock(s, Len(s)), x)
<1>1. PICK n, t : n = Len(s) /\ t = Append(s, x)
  OBVIOUS
<1>2. Len(t) = n + 1 /\ n \in Nat /\ t[n + 1] = x /\ \A i \in 1..n : t[i] = s[i]
  BY <1>1, AppendProperties
<1>3. LastBlock(t, n + 1) = IF t[n + 1].type = "block" THEN t[n + 1].item ELSE LastBlock(t, n)
  BY <1>2, LastBlockNext
<1>4. LastBlock(t, n) = LastBlock(s, n)
  BY <1>2, LastBlockPrefix
<1>5. LastBlock(t, n + 1) = BlockAfter(LastBlock(s, n), x)
  BY <1>2, <1>3, <1>4 DEF BlockAfter
<1> QED BY <1>1, <1>2, <1>5

\* A walk with a line that fits is a walk.
LEMMA WalkAppend ==
    ASSUME NEW S, NEW s \in Seq(S), NEW x \in S, Walk(s), Fits(LastBlock(s, Len(s)), x)
    PROVE  Walk(Append(s, x))
<1>1. PICK t : t = Append(s, x)
  OBVIOUS
<1>2. /\ Len(t) = Len(s) + 1 /\ Len(s) \in Nat
      /\ \A k \in 1..Len(s) : FitsAt(t, k) <=> FitsAt(s, k)
      /\ FitsAt(t, Len(t)) <=> Fits(LastBlock(s, Len(s)), x)
  <2>1. Len(t) = Len(s) + 1 /\ Len(s) \in Nat
    BY <1>1, LogAppend
  <2>2. ASSUME NEW k \in 1..Len(s) PROVE FitsAt(t, k) <=> FitsAt(s, k)
    BY <1>1, LogAppend
  <2>3. FitsAt(t, Len(t)) <=> Fits(LastBlock(s, Len(s)), x)
    BY <1>1, LogAppend
  <2> QED BY <2>1, <2>2, <2>3
<1>3. ASSUME NEW i \in 1..Len(t) PROVE FitsAt(t, i)
  <2>1. CASE i \in 1..Len(s)
    BY <1>2, <2>1 DEF Walk
  <2>2. CASE i = Len(t)
    BY <1>2, <2>2
  <2> QED BY <1>2, <2>1, <2>2
<1> QED BY <1>1, <1>3 DEF Walk

-----------------------------------------------------------------------------
(* What initLog1() rebuilds. *)

Rebuilt == [ok : BOOLEAN, chain : Seq(Blocks)]

Good(r) ==
    /\ r \in Rebuilt
    /\ r.chain # <<>> => Linked(r.chain)
    /\ Len(r.chain) <= ChainLimit

EndsAt(r, b) == r.ok /\ r.chain # <<>> => Last(r.chain) = b

\* A chain of one block.
LEMMA OneLinked ==
    ASSUME NEW b \in Blocks
    PROVE  Linked(<<b>>) /\ Len(<<b>>) = 1 /\ Last(<<b>>) = b
  BY DEF Linked, Last

\* A line that is no block, or one after an exception, changes nothing.
LEMMA ReplaySkips ==
    ASSUME NEW r, NEW line, line.type # "block" \/ ~r.ok
    PROVE  ReplayLine(r, line) = r
  BY DEF ReplayLine

\* A block that fits is pushed.
LEMMA ReplayPushes ==
    ASSUME NEW r \in Rebuilt, NEW line, line.type = "block", r.ok,
           r.chain # <<>>, CanPush(r.chain, line.item), Push(r.chain, line.item) \in Seq(Blocks)
    PROVE  /\ ReplayLine(r, line) \in Rebuilt
           /\ ReplayLine(r, line).ok
           /\ ReplayLine(r, line).chain = Push(r.chain, line.item)
<1>1. PICK c : c = Push(r.chain, line.item)
  OBVIOUS
<1>2. ReplayLine(r, line) = [r EXCEPT !.chain = c]
  BY <1>1 DEF ReplayLine
<1>3. PICK q : q = [r EXCEPT !.chain = c]
  OBVIOUS
<1>4. q \in Rebuilt /\ q.chain = c /\ q.ok = r.ok
  BY <1>1, <1>3 DEF Rebuilt
<1> QED BY <1>1, <1>2, <1>3, <1>4

\* The first block is taken as it is.
LEMMA ReplayStarts ==
    ASSUME NEW r \in Rebuilt, NEW line, line.type = "block", r.ok,
           r.chain = <<>>, line.item \in Blocks
    PROVE  /\ ReplayLine(r, line) \in Rebuilt
           /\ ReplayLine(r, line).ok
           /\ ReplayLine(r, line).chain = <<line.item>>
<1>1. PICK c : c = <<line.item>>
  OBVIOUS
<1>2. ReplayLine(r, line) = [r EXCEPT !.chain = c]
  BY <1>1 DEF ReplayLine
<1>3. PICK q : q = [r EXCEPT !.chain = c]
  OBVIOUS
<1>4. c \in Seq(Blocks)
  BY <1>1
<1>5. q \in Rebuilt /\ q.chain = c /\ q.ok = r.ok
  BY <1>3, <1>4 DEF Rebuilt
<1> QED BY <1>1, <1>2, <1>3, <1>5

\* Any other block is an exception.
LEMMA ReplayThrows ==
    ASSUME NEW r \in Rebuilt, NEW line, line.type = "block", r.ok,
           r.chain # <<>>, ~CanPush(r.chain, line.item)
    PROVE  /\ ReplayLine(r, line) \in Rebuilt
           /\ ~ReplayLine(r, line).ok
           /\ ReplayLine(r, line).chain = r.chain
<1>1. PICK o : o = FALSE
  OBVIOUS
<1>2. ReplayLine(r, line) = [r EXCEPT !.ok = o]
  BY <1>1 DEF ReplayLine
<1>3. PICK q : q = [r EXCEPT !.ok = o]
  OBVIOUS
<1>4. o \in BOOLEAN
  BY <1>1
<1>5. q \in Rebuilt /\ q.chain = r.chain /\ q.ok = o
  BY <1>3, <1>4 DEF Rebuilt
<1> QED BY <1>1, <1>2, <1>3, <1>5

\* The rebuilt chain is linked and within the limit.  After a line that fits the
\* last block of the log, an unbroken replay ends at the last block again.
LEMMA ReplayGood ==
    ASSUME NEW r, Good(r), NEW x \in AnyLine
    PROVE  /\ Good(ReplayLine(r, x))
           /\ \A last : Fits(last, x) /\ EndsAt(r, last) => EndsAt(ReplayLine(r, x), BlockAfter(last, x))
<1>1. r \in Rebuilt /\ r.chain \in Seq(Blocks) /\ (r.chain # <<>> => Linked(r.chain)) /\ Len(r.chain) <= ChainLimit
  BY DEF Good, Rebuilt
<1>2. x.type = "block" => x.item \in Blocks
  BY LineParts
<1>3. CASE x.type # "block" \/ ~r.ok
  <2>1. ReplayLine(r, x) = r
    BY <1>3, ReplaySkips
  <2>2. ASSUME NEW last, Fits(last, x), EndsAt(r, last) PROVE EndsAt(r, BlockAfter(last, x))
    BY <1>3, <2>2 DEF BlockAfter, EndsAt
  <2> QED BY <2>1, <2>2
<1>4. CASE x.type = "block" /\ r.ok /\ r.chain = <<>>
  <2>1. /\ ReplayLine(r, x) \in Rebuilt
        /\ ReplayLine(r, x).chain = <<x.item>>
    BY <1>1, <1>2, <1>4, ReplayStarts
  <2>2. Linked(<<x.item>>) /\ Len(<<x.item>>) = 1 /\ Last(<<x.item>>) = x.item
    BY <1>2, <1>4, OneLinked
  <2>3. 1 <= ChainLimit
    BY Log1Assumption
  <2>4. Good(ReplayLine(r, x))
    BY <2>1, <2>2, <2>3 DEF Good
  <2>5. ASSUME NEW last PROVE EndsAt(ReplayLine(r, x), BlockAfter(last, x))
    BY <1>4, <2>1, <2>2 DEF BlockAfter, EndsAt
  <2> QED BY <2>4, <2>5
<1>5. CASE x.type = "block" /\ r.ok /\ r.chain # <<>> /\ CanPush(r.chain, x.item)
  <2>1. PICK c : c = Push(r.chain, x.item)
    OBVIOUS
  <2>2. /\ Linked(c) /\ Len(c) <= ChainLimit
        /\ Adjacent(Last(r.chain), x.item) => Last(c) = x.item
    BY <1>1, <1>2, <1>5, <2>1, PushFacts
  <2>3. c \in Seq(Blocks)
    BY <2>2 DEF Linked
  <2>4. ReplayLine(r, x) \in Rebuilt /\ ReplayLine(r, x).chain = c
    BY <1>1, <1>5, <2>1, <2>3, ReplayPushes
  <2>5. Good(ReplayLine(r, x))
    BY <2>2, <2>4 DEF Good
  <2>6. ASSUME NEW last, Fits(last, x), EndsAt(r, last)
        PROVE  EndsAt(ReplayLine(r, x), BlockAfter(last, x))
    BY <1>5, <2>2, <2>4, <2>6 DEF Fits, BlockAfter, EndsAt
  <2> QED BY <2>5, <2>6
<1>6. CASE x.type = "block" /\ r.ok /\ r.chain # <<>> /\ ~CanPush(r.chain, x.item)
  <2>1. /\ ReplayLine(r, x) \in Rebuilt /\ ~ReplayLine(r, x).ok
        /\ ReplayLine(r, x).chain = r.chain
    BY <1>1, <1>6, ReplayThrows
  <2> QED BY <1>1, <2>1 DEF Good, EndsAt
<1> QED BY <1>3, <1>4, <1>5, <1>6

\* The log1 that the installation starts with: the blocks up to b, a walk whose
\* replay ends at b.
LEMMA BaseLog ==
    ASSUME NEW b \in Blocks, NEW q, q = Lines(Tail(Chain[b]))
    PROVE  /\ q \in Seq(AnyLine) /\ Walk(q) /\ LastBlock(q, Len(q)) = b
           /\ Good(Replay(q)) /\ EndsAt(Replay(q), b) /\ Replay(q).ok
           /\ b \in Block => Replay(q).chain # <<>>
<1> DEFINE P(s, x) == /\ s \in Seq(AnyLine) /\ Walk(s) /\ LastBlock(s, Len(s)) = x
                      /\ Good(Replay(s)) /\ EndsAt(Replay(s), x) /\ Replay(s).ok
                      /\ x \in Block => Replay(s).chain # <<>>
           L(x) == Lines(Tail(Chain[x]))
           X == {x \in Blocks : P(L(x), x)}
<1>1. Begin \in X
  <2>1. Chain[Begin] = <<Begin>>
    BY ChainDef
  <2>2. L(Begin) = <<>>
    BY <2>1 DEF Lines
  <2>3. PICK s : s = <<>>
    OBVIOUS
  <2>4. s \in Seq(AnyLine) /\ Len(s) = 0
    BY <2>3
  <2>5. Walk(s) /\ LastBlock(s, 0) = Begin
    BY <2>4 DEF Walk, LastBlock, BlockLines
  <2>6. PICK r, c : c = <<>> /\ r = [ok |-> TRUE, chain |-> c]
    OBVIOUS
  <2>7. Replay(s) = r
    BY <2>3, <2>6, ReplayEmpty DEF NoReplay
  <2>8. r.chain = c /\ r.ok = TRUE /\ c \in Seq(Blocks) /\ Len(c) = 0
    BY <2>6
  <2>9. r \in Rebuilt
    <3>1. \A o \in BOOLEAN : [ok |-> o, chain |-> c] \in Rebuilt
      BY <2>8 DEF Rebuilt
    <3> QED BY <2>6, <3>1
  <2>10. Good(r)
    BY <2>6, <2>8, <2>9, Log1Assumption DEF Good
  <2>11. EndsAt(r, Begin) /\ r.ok
    BY <2>6, <2>8 DEF EndsAt
  <2>12. Begin \notin Block
    BY BlockTreeAssumption
  <2>13. P(s, Begin)
    BY <2>4, <2>5, <2>7, <2>10, <2>11, <2>12
  <2> QED BY <2>2, <2>3, <2>13, BelowOne
<1>2. ASSUME NEW x \in Block, Prev[x] \in X PROVE x \in X
  <2>1. Prev[x] \in Blocks /\ x \in Blocks /\ Height[x] = Height[Prev[x]] + 1 /\ Height[Prev[x]] \in Nat
    BY BelowOne
  <2>2. PICK c, d : c = Chain[Prev[x]] /\ d = Chain[x]
    OBVIOUS
  <2>3. c \in Seq(Blocks) /\ Len(c) \in Nat /\ Len(c) >= 1 /\ c # <<>>
    <3>1. Prev[x] \in Block \cup {Begin}
      BY <2>1 DEF Blocks
    <3>2. c \in Seq(Block \cup {Begin}) /\ Len(c) >= 1
      BY <2>2, <3>1, ChainShape
    <3> QED BY <3>2 DEF Blocks
  <2>4. d = Append(c, x)
    BY <2>2, ChainDef, BlockTreeAssumption
  <2>5. Tail(d) = Append(Tail(c), x)
    BY <2>3, <2>4, HeadTailAppend
  <2>6. PICK s, t, u, v : u = Tail(c) /\ v = Tail(d) /\ s = L(Prev[x]) /\ t = L(x)
    OBVIOUS
  <2>7. u \in Seq(Blocks) /\ v = Append(u, x)
    BY <2>3, <2>5, <2>6, HeadTailProperties
  <2>8. s = Lines(u) /\ t = Lines(v)
    BY <2>2, <2>6
  <2>9. t = Append(s, BlockLine(x))
    <3>1. PICK n : n = Len(u)
      OBVIOUS
    <3>2. n \in Nat /\ Len(v) = n + 1 /\ v[n + 1] = x /\ \A i \in 1..n : v[i] = u[i]
      BY <2>1, <2>7, <3>1, AppendProperties
    <3>3. s = [i \in 1..n |-> BlockLine(u[i])] /\ t = [i \in 1..(n + 1) |-> BlockLine(v[i])]
      BY <2>8, <3>1, <3>2 DEF Lines
    <3>4. ASSUME NEW i \in 1..n PROVE BlockLine(u[i]) \in AnyLine
      <4>1. u[i] \in Blocks
        BY <2>7, <3>1
      <4> QED BY <4>1, LineParts DEF AnyLine
    <3>5. s \in [1..n -> AnyLine]
      BY <3>3, <3>4
    <3>6. s \in Seq(AnyLine) /\ Len(s) = n
      BY <3>2, <3>5
    <3>7. PICK y : y = BlockLine(x)
      OBVIOUS
    <3>8. y \in AnyLine
      BY <2>1, <3>7, LineParts DEF AnyLine
    <3>9. PICK w : w = Append(s, y)
      OBVIOUS
    <3>10. w \in Seq(AnyLine) /\ Len(w) = n + 1 /\ w[n + 1] = y /\ \A i \in 1..n : w[i] = s[i]
      BY <3>6, <3>8, <3>9, AppendProperties
    <3>11. ASSUME NEW i \in 1..(n + 1) PROVE w[i] = BlockLine(v[i])
      <4>1. CASE i \in 1..n
        <5>1. w[i] = s[i] /\ s[i] = BlockLine(u[i]) /\ v[i] = u[i]
          BY <3>2, <3>3, <3>10, <4>1
        <5> QED BY <5>1
      <4>2. CASE i = n + 1
        BY <3>2, <3>7, <3>10, <4>2
      <4> QED BY <3>2, <4>1, <4>2
    <3>12. w = [i \in 1..(n + 1) |-> w[i]]
      BY <3>2, <3>10
    <3>13. w = t
      BY <3>3, <3>11, <3>12
    <3> QED BY <3>7, <3>9, <3>13
  <2>10. P(s, Prev[x])
    BY <1>2, <2>6
  <2>11. PICK y : y = BlockLine(x)
    OBVIOUS
  <2>12. y \in AnyLine /\ y.type = "block" /\ y.item = x
    BY <2>1, <2>11, LineParts DEF AnyLine
  <2>13. Adjacent(Prev[x], x)
    BY DEF Adjacent
  <2>14. Fits(Prev[x], y) /\ BlockAfter(Prev[x], y) = x
    BY <2>12, <2>13 DEF Fits, BlockAfter
  <2>15. t \in Seq(AnyLine) /\ LastBlock(t, Len(t)) = x
    <3>0. s \in Seq(AnyLine) /\ t = Append(s, y)
      BY <2>9, <2>10, <2>11
    <3>1. LastBlock(t, Len(t)) = BlockAfter(LastBlock(s, Len(s)), y)
      BY <2>12, <3>0, LogAppendLast
    <3> QED BY <2>9, <2>10, <2>11, <2>12, <2>14, <3>1, AppendProperties
  <2>16. Walk(t)
    BY <2>9, <2>10, <2>11, <2>12, <2>14, WalkAppend
  <2>17. PICK r : r = Replay(s)
    OBVIOUS
  <2>18. Replay(t) = ReplayLine(r, y)
    BY <2>9, <2>10, <2>11, <2>12, <2>17, ReplayAppend
  <2>19. Good(r) /\ EndsAt(r, Prev[x]) /\ r.ok
    BY <2>10, <2>17
  <2>20. Good(ReplayLine(r, y)) /\ EndsAt(ReplayLine(r, y), x)
    BY <2>12, <2>14, <2>19, ReplayGood
  <2>21. ReplayLine(r, y).ok /\ ReplayLine(r, y).chain # <<>>
    <3>1. CASE r.chain = <<>>
      <4>1. ReplayLine(r, y).ok /\ ReplayLine(r, y).chain = <<y.item>>
        BY <2>1, <2>12, <2>19, <3>1, ReplayStarts DEF Good
      <4> QED BY <4>1
    <3>2. CASE r.chain # <<>>
      <4>1. r \in Rebuilt /\ Linked(r.chain) /\ Len(r.chain) <= ChainLimit /\ Last(r.chain) = Prev[x]
        BY <2>19, <3>2 DEF Good, EndsAt
      <4>2. CanPush(r.chain, x)
        BY <2>1, <2>13, <4>1, AdjacentFits
      <4>3. Linked(Push(r.chain, x))
        BY <2>1, <4>1, <4>2, PushFacts
      <4>4. ReplayLine(r, y).ok /\ ReplayLine(r, y).chain = Push(r.chain, x)
        BY <2>12, <2>19, <3>2, <4>1, <4>2, <4>3, ReplayPushes DEF Linked
      <4> QED BY <4>3, <4>4 DEF Linked
    <3> QED BY <3>1, <3>2
  <2>22. P(t, x)
    BY <2>15, <2>16, <2>18, <2>20, <2>21
  <2> QED BY <2>1, <2>6, <2>22
<1>3. Block \cup {Begin} \subseteq X
  <2> HIDE DEF X
  <2> QED BY <1>1, <1>2, TreeInduction
<1>4. b \in X
  BY <1>3 DEF Blocks
<1> QED BY <1>4

-----------------------------------------------------------------------------
(* What the node writes. *)

\* A log0: its first line is a block, the later blocks follow each other in the
\* tree, and the last one is the tip of the node.
NodeGood(l, tip) ==
    /\ l \in Seq(Line) /\ Len(l) >= 1 /\ l[1].type = "block" /\ l[1].item \in Block
    /\ tip \in Block
    /\ \A i \in 2..Len(l) : FitsAt(l, i)
    /\ LastBlock(l, Len(l)) = tip

Longer(l, m) == Len(m) >= Len(l) /\ \A i \in 1..Len(l) : m[i] = l[i]

\* The first line after a start of the node.
LEMMA FirstLine ==
    ASSUME NEW b \in Block
    PROVE  NodeGood(<<BlockLine(b)>>, b)
<1>1. PICK y, l : y = BlockLine(b) /\ l = <<y>>
  OBVIOUS
<1>2. y \in Line /\ y.type = "block" /\ y.item = b
  BY <1>1, LineParts, BelowOne
<1>3. l \in Seq(Line) /\ Len(l) = 1 /\ l[1] = y
  BY <1>1, <1>2
<1>4. LastBlock(l, 0 + 1) = IF l[0 + 1].type = "block" THEN l[0 + 1].item ELSE LastBlock(l, 0)
  BY LastBlockNext
<1>5. LastBlock(l, 1) = b
  BY <1>2, <1>3, <1>4
<1>6. \A i \in 2..Len(l) : FitsAt(l, i)
  BY <1>3
<1>7. NodeGood(l, b)
  BY <1>2, <1>3, <1>5, <1>6 DEF NodeGood
<1> QED BY <1>1, <1>7

\* A transaction line.
LEMMA TxLineAdded ==
    ASSUME NEW l, NEW tip, NodeGood(l, tip), NEW t \in Tx, NEW m, m = Append(l, TxLine(t))
    PROVE  NodeGood(m, tip) /\ Longer(l, m)
<1>1. PICK y, n : y = TxLine(t) /\ n = Len(l)
  OBVIOUS
<1>2. y \in Line /\ y.type # "block"
  BY <1>1, LineParts
<1>3. /\ l \in Seq(Line) /\ n >= 1 /\ n \in Nat /\ l[1].type = "block" /\ l[1].item \in Block
      /\ tip \in Block /\ LastBlock(l, n) = tip /\ \A i \in 2..n : FitsAt(l, i)
  BY <1>1 DEF NodeGood
<1>4. m \in Seq(Line) /\ Len(m) = n + 1 /\ m[n + 1] = y /\ \A i \in 1..n : m[i] = l[i]
  BY <1>1, <1>2, <1>3, AppendProperties
<1>5. LastBlock(m, Len(m)) = tip
  <2>1. LastBlock(m, Len(m)) = BlockAfter(LastBlock(l, Len(l)), y)
    BY <1>1, <1>2, <1>3, LogAppendLast
  <2> QED BY <1>1, <1>2, <1>3, <2>1 DEF BlockAfter
<1>6. ASSUME NEW i \in 2..Len(m) PROVE FitsAt(m, i)
  <2>1. CASE i \in 2..n
    <3>1. i \in 1..n
      BY <2>1
    <3>2. FitsAt(m, i) <=> FitsAt(l, i)
      BY <1>3, <1>4, <3>1, FitsAtPrefix
    <3> QED BY <1>3, <2>1, <3>2
  <2>2. CASE i = n + 1
    BY <1>2, <1>4, <2>2 DEF FitsAt
  <2> QED BY <1>3, <1>4, <2>1, <2>2
<1>7. 1 \in 1..n /\ n + 1 >= n /\ n + 1 >= 1
  BY <1>3
<1>8. m[1] = l[1]
  BY <1>4, <1>7
<1>9. NodeGood(m, tip)
  BY <1>3, <1>4, <1>5, <1>6, <1>7, <1>8 DEF NodeGood
<1>10. Longer(l, m)
  BY <1>1, <1>4, <1>7 DEF Longer
<1> QED BY <1>9, <1>10

\* The lines of a change of the tip to a higher block.
LEMMA WayAdded ==
    ASSUME NEW l, NEW tip, NodeGood(l, tip), NEW b \in Block, Height[b] > Height[tip],
           NEW m, m = l \o Lines(Way(tip, b))
    PROVE  NodeGood(m, b) /\ Longer(l, m)
<1>1. PICK w, v, n : w = Way(tip, b) /\ v = Lines(w) /\ n = Len(l)
  OBVIOUS
<1>2. /\ l \in Seq(Line) /\ n >= 1 /\ n \in Nat /\ l[1].type = "block" /\ l[1].item \in Block
      /\ tip \in Block /\ LastBlock(l, n) = tip /\ \A i \in 2..n : FitsAt(l, i)
  BY <1>1 DEF NodeGood
<1>3. /\ w \in Seq(Blocks) /\ Len(w) \in Nat /\ Len(w) >= 1
      /\ Adjacent(tip, w[1]) /\ w[Len(w)] = b
      /\ \A i \in 2..Len(w) : Adjacent(w[i - 1], w[i])
  <2>1. tip \in Block \cup {Begin} /\ b \in Block \cup {Begin}
    BY <1>2
  <2> QED BY <1>1, <2>1, WayShape DEF Blocks
<1>4. PICK k : k = Len(w)
  OBVIOUS
<1>5. v \in Seq(Line) /\ Len(v) = k /\ \A j \in 1..k : v[j].type = "block" /\ v[j].item = w[j]
  <2>1. v = [i \in 1..k |-> BlockLine(w[i])]
    BY <1>1, <1>4 DEF Lines
  <2>2. ASSUME NEW j \in 1..k
        PROVE  BlockLine(w[j]) \in Line /\ BlockLine(w[j]).type = "block" /\ BlockLine(w[j]).item = w[j]
    <3>1. w[j] \in Blocks
      BY <1>3, <1>4
    <3> QED BY <3>1, LineParts
  <2>3. v \in [1..k -> Line]
    BY <2>1, <2>2
  <2>4. k \in Nat
    BY <1>3, <1>4
  <2>5. v \in Seq(Line) /\ Len(v) = k
    BY <2>3, <2>4
  <2> QED BY <2>1, <2>2, <2>5
<1>6. /\ l \o v \in Seq(Line) /\ Len(l \o v) = Len(l) + Len(v)
      /\ \A i \in 1..(Len(l) + Len(v)) :
            (l \o v)[i] = IF i <= Len(l) THEN l[i] ELSE v[i - Len(l)]
  BY <1>2, <1>5, ConcatProperties
<1>7. /\ m \in Seq(Line) /\ Len(m) = n + k
      /\ \A i \in 1..(n + k) : m[i] = IF i <= n THEN l[i] ELSE v[i - n]
  BY <1>1, <1>5, <1>6
<1>8. \A i \in 1..n : m[i] = l[i]
  <2>1. ASSUME NEW i \in 1..n PROVE m[i] = l[i]
    <3>1. i \in 1..(n + k) /\ i <= n
      BY <1>2, <1>3, <1>4
    <3> QED BY <1>7, <3>1
  <2> QED BY <2>1
<1>9. ASSUME NEW j \in 1..k PROVE m[n + j].type = "block" /\ m[n + j].item = w[j]
  <2>1. n + j \in 1..(n + k) /\ ~(n + j <= n) /\ (n + j) - n = j
    BY <1>2, <1>3, <1>4
  <2>2. m[n + j] = v[j]
    BY <1>7, <2>1
  <2> QED BY <1>5, <2>2
<1>10. LastBlock(m, n) = tip
  BY <1>2, <1>8, LastBlockPrefix
<1>11. ASSUME NEW j \in 1..k PROVE LastBlock(m, n + j) = w[j]
  <2>1. (n + j) - 1 \in Nat /\ ((n + j) - 1) + 1 = n + j
    BY <1>2
  <2>2. PICK i : i = (n + j) - 1
    OBVIOUS
  <2>3. LastBlock(m, i + 1) = IF m[i + 1].type = "block" THEN m[i + 1].item ELSE LastBlock(m, i)
    BY <2>1, <2>2, LastBlockNext
  <2> QED BY <1>9, <2>1, <2>2, <2>3
<1>12. ASSUME NEW i \in 2..Len(m) PROVE FitsAt(m, i)
  <2>1. CASE i \in 2..n
    <3>1. i \in 1..n
      BY <2>1
    <3>2. FitsAt(m, i) <=> FitsAt(l, i)
      <4>1. n \in Nat
        BY <1>2
      <4> QED BY <1>8, <3>1, <4>1, FitsAtPrefix
    <3> QED BY <1>2, <2>1, <3>2
  <2>2. CASE i = n + 1
    <3>1. 1 \in 1..k /\ i - 1 = n
      BY <1>2, <1>3, <1>4, <2>2
    <3>2. m[i].item = w[1]
      BY <1>9, <2>2, <3>1
    <3>3. LastBlock(m, i - 1) = tip
      BY <1>10, <3>1
    <3> QED BY <1>3, <3>2, <3>3 DEF FitsAt
  <2>3. CASE i \in (n + 2)..(n + k)
    <3>1. PICK j : j = i - n
      OBVIOUS
    <3>2. j \in 2..k /\ j \in 1..k /\ j - 1 \in 1..k /\ n + j = i /\ n + (j - 1) = i - 1
      BY <1>2, <1>3, <1>4, <2>3, <3>1
    <3>3. m[i].item = w[j] /\ LastBlock(m, i - 1) = w[j - 1]
      BY <1>9, <1>11, <3>2
    <3>4. Adjacent(w[j - 1], w[j])
      BY <1>3, <1>4, <3>2
    <3> QED BY <3>3, <3>4 DEF FitsAt
  <2>4. k \in Nat /\ Len(m) = n + k /\ n \in Nat
    BY <1>2, <1>3, <1>4, <1>7
  <2> QED BY <2>1, <2>2, <2>3, <2>4
<1>13. LastBlock(m, Len(m)) = b
  <2>1. k \in 1..k
    BY <1>3, <1>4
  <2> QED BY <1>3, <1>4, <1>7, <1>11, <2>1
<1>14. 1 \in 1..n /\ n + k >= n /\ n + k >= 1
  BY <1>2, <1>3, <1>4
<1>15. m[1] = l[1]
  BY <1>8, <1>14
<1>16. NodeGood(m, b)
  BY <1>2, <1>7, <1>12, <1>13, <1>14, <1>15 DEF NodeGood
<1>17. Longer(l, m)
  BY <1>1, <1>7, <1>8, <1>14 DEF Longer
<1> QED BY <1>16, <1>17

-----------------------------------------------------------------------------
(* Types. *)

TypeInv ==
    /\ TypeOK
    /\ NodeGood(log0, nodeTip)
    /\ Good(rebuilt) /\ rebuilt = Replay(log1)
    /\ pc # "down" => Linked(chain)

\* writeLog1() keeps what initLog1() would find in order.
LEMMA WriteGood ==
    ASSUME TypeInv, NEW line \in AnyLine, WriteLog1(line)
    PROVE  log1' \in Seq(AnyLine) /\ Good(rebuilt') /\ rebuilt' = Replay(log1')
<1>1. log1 \in Seq(AnyLine) /\ Good(rebuilt) /\ rebuilt = Replay(log1)
  BY DEF TypeInv, TypeOK, AnyLine
<1>2. log1' = Append(log1, line) /\ rebuilt' = ReplayLine(rebuilt, line)
  BY DEF WriteLog1
<1>3. log1' \in Seq(AnyLine)
  BY <1>1, <1>2, AppendProperties
<1>4. Good(rebuilt')
  BY <1>1, <1>2, ReplayGood
<1>5. rebuilt' = Replay(log1')
  BY <1>1, <1>2, ReplayAppend
<1> QED BY <1>3, <1>4, <1>5

\* The last block of chain_ while the process runs.
LEMMA TipFacts ==
    ASSUME TypeInv, pc # "down"
    PROVE  /\ Linked(chain) /\ Tip \in Blocks /\ Height[Tip] \in Nat /\ Len(chain) \in Nat
           /\ Len(chain) >= 1 /\ Len(chain) <= ChainLimit /\ Height[Tip] >= Height[Begin]
<1>1. Linked(chain) /\ Len(chain) <= ChainLimit
  BY DEF TypeInv, TypeOK
<1>2. Last(chain) \in Blocks /\ Len(chain) \in Nat /\ Len(chain) >= 1
  BY <1>1, FrontFacts DEF Linked
<1> QED BY <1>1, <1>2, BelowOne DEF Tip

\* getblockhash above the begin block.
LEMMA BlockAtFacts ==
    ASSUME NEW tip \in Block, NEW h \in Nat, h >= Height[Begin], h <= Height[tip]
    PROVE  /\ Chain[tip][h - Height[Begin] + 1] \in Blocks
           /\ Height[Chain[tip][h - Height[Begin] + 1]] = h
           /\ h > Height[Begin] => Chain[tip][h - Height[Begin] + 1] \in Block
<1>1. tip \in Block \cup {Begin} /\ Height[tip] \in Nat /\ Height[Begin] \in Nat
  BY BelowOne
<1>2. PICK c : c = Chain[tip]
  OBVIOUS
<1>3. /\ c \in Seq(Block \cup {Begin}) /\ Len(c) = Height[tip] - Height[Begin] + 1
      /\ \A i \in 1..Len(c) : Height[c[i]] = Height[Begin] + i - 1
      /\ \A i \in 2..Len(c) : c[i] \in Block
  BY <1>1, <1>2, ChainShape
<1>4. PICK i : i = h - Height[Begin] + 1
  OBVIOUS
<1>5. Len(c) \in Nat
  BY <1>3
<1>6. Len(c) = Height[tip] - Height[Begin] + 1
  BY <1>3
<1>7. i \in 1..Len(c) /\ Height[Begin] + i - 1 = h /\ (h > Height[Begin] => i \in 2..Len(c))
  <2>1. PICK n, g, a : n = Len(c) /\ g = Height[Begin] /\ a = Height[tip]
    OBVIOUS
  <2>2. n = a - g + 1 /\ i = h - g + 1 /\ g \in Nat /\ a \in Nat /\ n \in Nat /\ h \in Nat
    BY <1>1, <1>4, <1>5, <1>6, <2>1
  <2>3. h >= g /\ h <= a
    BY <2>1
  <2>4. i \in 1..n /\ g + i - 1 = h /\ (h > g => i \in 2..n)
    BY <2>2, <2>3
  <2> QED BY <2>1, <2>4
<1>8. c[i] \in Blocks
  BY <1>3, <1>7 DEF Blocks
<1>9. Height[c[i]] = h /\ (h > Height[Begin] => c[i] \in Block)
  BY <1>3, <1>7
<1> QED BY <1>2, <1>4, <1>8, <1>9

\* The next block of the node's chain goes on top of chain_.
LEMMA ForwardFacts ==
    ASSUME TypeInv, pc # "down", HasHeight(Height[Tip] + 1), Prev[BlockAt(Height[Tip] + 1)] = Tip,
           NEW b, b = BlockAt(Height[Tip] + 1)
    PROVE  /\ b \in Block /\ b \in Blocks /\ Height[b] = Height[Tip] + 1 /\ CanPush(chain, b)
           /\ Linked(Push(chain, b)) /\ Len(Push(chain, b)) <= ChainLimit
           /\ Last(Push(chain, b)) = b /\ Push(chain, b) \in Seq(Blocks)
<1>1. /\ Linked(chain) /\ Len(chain) <= ChainLimit /\ Height[Tip] \in Nat
      /\ Height[Tip] >= Height[Begin] /\ Height[Begin] \in Nat
  BY TipFacts, BelowOne
<1>2. nodeTip \in Block
  BY DEF TypeInv, NodeGood
<1>3. PICK h : h = Height[Tip] + 1
  OBVIOUS
<1>4. h \in Nat /\ h > Height[Begin] /\ h >= Height[Begin]
  BY <1>1, <1>3
<1>5. h <= Height[nodeTip]
  BY <1>3 DEF HasHeight
<1>6. b \in Block /\ Height[b] = h
  BY <1>2, <1>3, <1>4, <1>5, BlockAtFacts DEF BlockAt
<1>7. CanPush(chain, b)
  BY <1>3, <1>6 DEF CanPush, Tip
<1>8. Height[b] > Height[Last(chain)]
  BY <1>1, <1>3, <1>6 DEF Tip
<1>9. /\ Linked(Push(chain, b)) /\ Len(Push(chain, b)) <= ChainLimit
      /\ Last(Push(chain, b)) = b
  BY <1>1, <1>6, <1>7, <1>8, PushFacts, BelowOne
<1> QED BY <1>3, <1>6, <1>7, <1>9, BelowOne DEF Linked

\* The node's step keeps log0 in order; unless it restarts, log0 only grows.
LEMMA NodeKeeps ==
    ASSUME TypeInv, NodeStep
    PROVE  /\ NodeGood(log0', nodeTip') /\ epoch' \in 1..MaxEpoch
           /\ \/ epoch' = epoch /\ Longer(log0, log0')
              \/ epoch' = epoch + 1 /\ (QuietInit => pc \in {"down", "run", "batch"})
<1>1. NodeGood(log0, nodeTip) /\ epoch \in 1..MaxEpoch /\ MaxEpoch \in Nat
  BY Log0Assumption DEF TypeInv, TypeOK
<1>2. CASE \E t \in Tx : NodeTx(t)
  <2>1. PICK t \in Tx : NodeTx(t)
    BY <1>2
  <2>2. log0' = Append(log0, TxLine(t)) /\ epoch' = epoch /\ nodeTip' = nodeTip
    BY <2>1 DEF NodeTx
  <2>3. NodeGood(log0', nodeTip) /\ Longer(log0, log0')
    BY <1>1, <2>2, TxLineAdded
  <2> QED BY <1>1, <2>2, <2>3
<1>3. CASE \E b \in Block : NodeActivate(b)
  <2>1. PICK b \in Block : NodeActivate(b)
    BY <1>3
  <2>2. /\ log0' = log0 \o Lines(Way(nodeTip, b)) /\ epoch' = epoch /\ nodeTip' = b
        /\ Height[b] = Height[nodeTip] + 1
    BY <2>1 DEF NodeActivate
  <2>3. nodeTip \in Block
    BY <1>1 DEF NodeGood
  <2>4. Height[b] > Height[nodeTip]
    BY <2>2, <2>3, BelowOne
  <2>5. NodeGood(log0', b) /\ Longer(log0, log0')
    BY <1>1, <2>2, <2>4, WayAdded
  <2> QED BY <1>1, <2>2, <2>5
<1>4. CASE \E b \in Block : NodeRestart(b) /\ (QuietInit => pc \in {"down", "run", "batch"})
  <2>1. PICK b \in Block : NodeRestart(b) /\ (QuietInit => pc \in {"down", "run", "batch"})
    BY <1>4
  <2>2. log0' = <<BlockLine(b)>> /\ epoch' = epoch + 1 /\ nodeTip' = b /\ epoch < MaxEpoch
    BY <2>1 DEF NodeRestart
  <2>3. NodeGood(log0', b)
    BY <2>2, FirstLine
  <2>4. epoch' \in 1..MaxEpoch
    BY <1>1, <2>2
  <2> QED BY <2>1, <2>2, <2>3, <2>4
<1> QED BY <1>2, <1>3, <1>4 DEF NodeStep

\* The initial states.
LEMMA TypeInit == Init => TypeInv
<1> SUFFICES ASSUME Init PROVE TypeInv
  OBVIOUS
<1>1. PICK b \in Bases : log1 = Lines(Tail(Chain[b]))
  BY DEF Init
<1>2. b \in Blocks
  BY Log1Assumption DEF Blocks
<1>3. log1 \in Seq(AnyLine) /\ Good(Replay(log1))
  BY <1>1, <1>2, BaseLog
<1>4. rebuilt = Replay(log1)
  BY DEF Init
<1>5. nodeTip \in Block /\ log0 = <<BlockLine(nodeTip)>> /\ epoch = 1
  BY Log0Assumption DEF Init, Log0Init
<1>6. NodeGood(log0, nodeTip)
  BY <1>5, FirstLine
<1>7. TypeOK
  <2>1. log0 \in Seq(Line) /\ nodeTip \in Block /\ epoch \in 1..MaxEpoch
    BY <1>5, <1>6, Log0Assumption DEF NodeGood
  <2>2. log1 \in Seq(Line \cup {ClearLine}) /\ rebuilt \in [ok : BOOLEAN, chain : Seq(Block \cup {Begin})]
    BY <1>3, <1>4 DEF AnyLine, Good, Rebuilt, Blocks
  <2>3. NoPos \in Pos
    BY Log0Assumption DEF NoPos, Pos
  <2>4. savedEpoch \in 0..MaxEpoch /\ epochRead \in 0..MaxEpoch /\ watched \in 0..MaxEpoch
    BY Log0Assumption DEF Init
  <2>5. starts \in 0..MaxStart /\ crashes \in 0..MaxCrash /\ stops \in 0..MaxStop
    BY Log1Assumption DEF Init
  <2>6. chain \in Seq(Block \cup {Begin}) /\ Len(chain) <= ChainLimit /\ todo \in Seq(Line)
    BY Log1Assumption DEF Init
  <2> QED BY <2>1, <2>2, <2>3, <2>4, <2>5, <2>6 DEF TypeOK, Init, PCs
<1>8. pc = "down"
  BY DEF Init
<1> QED BY <1>3, <1>4, <1>6, <1>7, <1>8 DEF TypeInv

\* The end of the process.
LEMMA TypeDown ==
    ASSUME TypeInv, Down, UNCHANGED <<log0Vars, fileVars>>,
           starts' \in 0..MaxStart, crashes' \in 0..MaxCrash, stops' \in 0..MaxStop
    PROVE  TypeInv'
<1>1. UNCHANGED <<log0, epoch, nodeTip, log1, rebuilt, savedEpoch, savedPos, base>>
  BY DEF log0Vars, fileVars, log1Vars
<1>2. NoPos \in Pos /\ 0 \in 0..MaxEpoch /\ <<>> \in Seq(Line) /\ <<>> \in Seq(Block \cup {Begin}) /\ Len(<<>>) <= ChainLimit
  BY Log0Assumption, Log1Assumption DEF NoPos, Pos
<1>3. TypeOK'
  BY <1>1, <1>2 DEF TypeInv, TypeOK, Down, PCs
<1>4. pc' = "down"
  BY DEF Down
<1> QED BY <1>1, <1>3, <1>4 DEF TypeInv

\* A step that writes a line of log1 and sets chain_.
LEMMA TypeWrite ==
    ASSUME TypeInv, NEW line \in AnyLine, WriteLog1(line), Linked(chain'), Len(chain') <= ChainLimit,
           pc' \in PCs, todo' \in Seq(Line),
           UNCHANGED <<log0Vars, savedEpoch, savedPos, base, running, pos0, epochRead, target, watched, boundVars>>
    PROVE  TypeInv'
<1>1. UNCHANGED <<log0, epoch, nodeTip, starts, crashes, stops>>
  BY DEF log0Vars, boundVars
<1>2. log1' \in Seq(AnyLine) /\ Good(rebuilt') /\ rebuilt' = Replay(log1')
  BY WriteGood
<1>3. chain' \in Seq(Blocks)
  BY DEF Linked
<1>4. rebuilt' \in Rebuilt
  BY <1>2 DEF Good
<1>5. TypeOK'
  BY <1>1, <1>2, <1>3, <1>4 DEF TypeInv, TypeOK, AnyLine, Blocks, Rebuilt
<1> QED BY <1>1, <1>2, <1>5 DEF TypeInv

\* A step that leaves log0 and log1 alone.
LEMMA TypeStay ==
    ASSUME TypeInv, UNCHANGED <<log0Vars, log1Vars>>, pc' # "down" => Linked(chain'),
           Len(chain') <= ChainLimit, chain' \in Seq(Blocks),
           savedEpoch' \in 0..MaxEpoch, savedPos' \in Pos, base' \in Nat, pc' \in PCs, running' \in BOOLEAN,
           pos0' \in Pos, todo' \in Seq(Line), epochRead' \in 0..MaxEpoch, target' \in Nat,
           watched' \in 0..MaxEpoch,
           starts' \in 0..MaxStart, crashes' \in 0..MaxCrash, stops' \in 0..MaxStop
    PROVE  TypeInv'
<1>1. UNCHANGED <<log0, epoch, nodeTip, log1, rebuilt>>
  BY DEF log0Vars, log1Vars
<1>2. TypeOK'
  BY <1>1 DEF TypeInv, TypeOK, Blocks
<1> QED BY <1>1, <1>2 DEF TypeInv

\* The steps of log1producer.
LEMMA TypeProducer ==
    ASSUME TypeInv, Producer
    PROVE  TypeInv'
<1> USE DEF fileVars, procVars, boundVars, PCs
<1>0. /\ TypeOK /\ UNCHANGED log0Vars /\ MaxStart \in Nat /\ MaxEpoch \in Nat
      /\ chain \in Seq(Blocks) /\ Len(chain) <= ChainLimit /\ (pc # "down" => Linked(chain))
      /\ savedEpoch \in 0..MaxEpoch /\ savedPos \in Pos /\ base \in Nat /\ pc \in PCs /\ running \in BOOLEAN
      /\ pos0 \in Pos /\ todo \in Seq(Line) /\ epochRead \in 0..MaxEpoch /\ target \in Nat
      /\ watched \in 0..MaxEpoch /\ epoch \in 0..MaxEpoch
      /\ starts \in 0..MaxStart /\ crashes \in 0..MaxCrash /\ stops \in 0..MaxStop
  BY Log0Assumption, Log1Assumption DEF TypeInv, TypeOK, Producer, Blocks
<1>1. CASE Start
  <2>1. /\ log1 = <<>> \/ (rebuilt.ok /\ rebuilt.chain # <<>>)
        /\ chain' = IF log1 = <<>> THEN <<Begin>> ELSE rebuilt.chain
    BY <1>1 DEF Start
  <2>2. Linked(<<Begin>>) /\ Len(<<Begin>>) = 1 /\ 1 <= ChainLimit
    BY OneLinked, BelowOne, Log1Assumption
  <2>3. Linked(chain') /\ Len(chain') <= ChainLimit
    BY <2>1, <2>2 DEF TypeInv, Good
  <2>4. chain' \in Seq(Blocks)
    BY <2>3 DEF Linked
  <2>5. /\ UNCHANGED <<log1Vars, savedEpoch, savedPos, base, todo, target, watched, crashes, stops>>
        /\ running' = TRUE /\ epochRead' = epoch /\ starts' = starts + 1 /\ starts < MaxStart
        /\ (pc' = "clear" /\ pos0' = pos0) \/ (pc' = "watch" /\ pos0' = savedPos)
    BY <1>1 DEF Start
  <2>6. starts' \in 0..MaxStart
    BY <1>0, <2>5
  <2>7. pc' \in PCs /\ pos0' \in Pos
    BY <1>0, <2>5
  <2> QED BY <1>0, <2>3, <2>4, <2>5, <2>6, <2>7, TypeStay
<1>2. CASE WriteClear
  <2>1. ClearLine \in AnyLine
    BY DEF AnyLine
  <2>2. pc # "down" /\ WriteLog1(ClearLine) /\ chain' = chain /\ pc' \in PCs /\ todo' = todo
    BY <1>2 DEF WriteClear
  <2> QED BY <1>0, <1>2, <2>1, <2>2, TypeWrite DEF WriteClear
<1>3. CASE ReadFirstLine
  <2>1. log0[1].item \in Block
    BY DEF TypeInv, NodeGood
  <2>2. Height[log0[1].item] \in Nat
    BY <2>1, BelowOne
  <2>3. [epoch |-> epoch, line |-> 1] \in Pos
    BY <1>0 DEF Pos
  <2>4. /\ pc # "down" /\ pc' \in PCs /\ target' \in Nat /\ pos0' \in Pos
        /\ UNCHANGED <<log1Vars, savedEpoch, savedPos, base, running, chain, todo, epochRead, watched, starts, crashes, stops>>
    BY <1>0, <1>3, <2>2, <2>3 DEF ReadFirstLine
  <2> QED BY <1>0, <2>4, TypeStay
<1>4. CASE StepBack
  <2>1. pc # "down" /\ pc' = pc /\ Len(chain) > 1 /\ chain' = Front(chain) /\ todo' = todo
    BY <1>4 DEF StepBack
  <2>2. Linked(Front(chain)) /\ Len(Front(chain)) = Len(chain) - 1 /\ Last(Front(chain)) \in Blocks /\ Len(chain) \in Nat
    BY <1>0, <2>1, FrontLinked
  <2>3. Len(Front(chain)) <= ChainLimit
    BY <1>0, <2>2, Log1Assumption
  <2>4. PICK y : y = BlockLine(Last(Front(chain)))
    OBVIOUS
  <2>5. y \in AnyLine /\ WriteLog1(y)
    BY <1>4, <2>2, <2>4, LineParts DEF StepBack, AnyLine
  <2> QED BY <1>0, <1>4, <2>1, <2>2, <2>3, <2>5, TypeWrite DEF StepBack
<1>5. CASE FoundCommon
  BY <1>0, <1>5, TypeStay DEF FoundCommon
<1>6. CASE BackFails
  BY <1>0, <1>6, TypeDown DEF BackFails
<1>7. CASE StepForward
  <2>1. PICK b, c : b = BlockAt(Height[Tip] + 1) /\ c = Push(chain, b)
    OBVIOUS
  <2>2. pc # "down" /\ pc' = pc /\ chain' = c /\ todo' = todo /\ WriteLog1(BlockLine(b))
    BY <1>7, <2>1 DEF StepForward
  <2>3. b \in Blocks /\ Linked(c) /\ Len(c) <= ChainLimit
    BY <1>7, <2>1, <2>2, ForwardFacts DEF StepForward
  <2>4. BlockLine(b) \in AnyLine
    BY <2>3, LineParts DEF AnyLine
  <2> QED BY <1>0, <1>7, <2>2, <2>3, <2>4, TypeWrite DEF StepForward
<1>8. CASE ForwardFails
  BY <1>0, <1>8, TypeDown DEF ForwardFails
<1>9. CASE AtTarget
  BY <1>0, <1>9, TypeStay DEF AtTarget
<1>10. CASE SaveBegin
  <2>1. Len(log1) \in Nat
    BY <1>0 DEF TypeOK
  <2> QED BY <1>0, <1>10, <2>1, TypeStay DEF SaveBegin
<1>11. CASE SaveStatus
  BY <1>0, <1>11, TypeStay DEF SaveStatus
<1>12. CASE Watch
  BY <1>0, <1>12, TypeStay DEF Watch
<1>13. CASE ReadBatch
  <2>1. PICK n \in LinesAt(pos0) : n < Len(log0) /\ todo' = Batch(n)
                                   /\ pos0' = [epoch |-> epoch, line |-> n + Len(Batch(n))]
    BY <1>13 DEF ReadBatch
  <2>2. log0 \in Seq(Line) /\ Len(log0) \in Nat /\ pos0.line \in Nat
    BY <1>0 DEF TypeOK, Pos
  <2>3. n \in Nat
    BY <2>2 DEF LinesAt
  <2>4. PICK e : e = IF Len(log0) > n + BatchSize + 1 THEN n + BatchSize + 1 ELSE Len(log0)
    OBVIOUS
  <2>5. e \in Nat /\ e <= Len(log0) /\ n + 1 \in Int /\ e \in Int
    BY <2>1, <2>2, <2>3, <2>4, Log1Assumption
  <2>6. ASSUME NEW i \in (n + 1)..e PROVE log0[i] \in Line
    <3>1. i \in 1..Len(log0)
      BY <2>2, <2>3, <2>5
    <3> QED BY <2>2, <3>1
  <2>7. SubSeq(log0, n + 1, e) \in Seq(Line)
    BY <2>5, <2>6, SubSeqProperties
  <2>8. Batch(n) \in Seq(Line)
    BY <2>4, <2>7 DEF Batch
  <2>9. Len(Batch(n)) \in Nat
    BY <2>8
  <2>10. n + Len(Batch(n)) \in Nat
    BY <2>3, <2>9
  <2>11. pos0' \in Pos
    BY <1>0, <2>1, <2>10 DEF Pos
  <2>12. todo' \in Seq(Line)
    BY <2>1, <2>8
  <2>13. /\ pc # "down" /\ pc' \in PCs
         /\ UNCHANGED <<log1Vars, savedEpoch, savedPos, base, running, chain, epochRead, target, watched, starts, crashes, stops>>
    BY <1>13 DEF ReadBatch
  <2> QED BY <1>0, <2>11, <2>12, <2>13, TypeStay
<1>14. CASE ReadFails
  BY <1>0, <1>14, TypeDown DEF ReadFails
<1>15. CASE CopyLine
  <2>1. PICK y : y = Head(todo)
    OBVIOUS
  <2>2. /\ pc # "down" /\ pc' = pc /\ WriteLog1(y) /\ todo # <<>> /\ todo' = Tail(todo)
        /\ y.type = "block" => CanPush(chain, y.item)
        /\ chain' = IF y.type = "block" THEN Push(chain, y.item) ELSE chain
    BY <1>15, <2>1 DEF CopyLine
  <2>3. y \in Line /\ Tail(todo) \in Seq(Line)
    BY <1>0, <2>1, <2>2, HeadTailProperties
  <2>4. y \in AnyLine
    BY <2>3 DEF AnyLine
  <2>5. y.type = "block" => y.item \in Blocks
    BY <2>4, LineParts
  <2>6. Linked(chain') /\ Len(chain') <= ChainLimit
    <3>1. CASE y.type = "block"
      BY <1>0, <2>2, <2>5, <3>1, PushFacts
    <3>2. CASE y.type # "block"
      BY <1>0, <2>2, <3>2
    <3> QED BY <3>1, <3>2
  <2> QED BY <1>0, <1>15, <2>2, <2>3, <2>4, <2>6, TypeWrite DEF CopyLine
<1>16. CASE CopyFails
  BY <1>0, <1>16, TypeDown DEF CopyFails
<1>17. CASE BatchDone
  BY <1>0, <1>17, TypeStay DEF BatchDone
<1>18. CASE Exit
  BY <1>0, <1>18, TypeDown DEF Exit
<1> QED BY <1>1, <1>2, <1>3, <1>4, <1>5, <1>6, <1>7, <1>8, <1>9, <1>10, <1>11, <1>12, <1>13,
           <1>14, <1>15, <1>16, <1>17, <1>18 DEF Producer, Sync, Save, Run

\* Every step keeps the types, and chain_ and the replay linked.
LEMMA TypeStep == TypeInv /\ [Next]_vars => TypeInv'
<1> SUFFICES ASSUME TypeInv, [Next]_vars PROVE TypeInv'
  OBVIOUS
<1>1. CASE Producer
  BY <1>1, TypeProducer
<1>2. CASE NodeStep
  <2>1. NodeGood(log0', nodeTip') /\ epoch' \in 1..MaxEpoch
    BY <1>2, NodeKeeps
  <2>2. UNCHANGED <<log1, rebuilt, savedEpoch, savedPos, base, pc, running, chain, pos0, todo,
                    epochRead, target, watched, starts, crashes, stops>>
    BY <1>2 DEF NodeStep, fileVars, log1Vars, procVars, boundVars
  <2>3. log0' \in Seq(Line) /\ nodeTip' \in Block
    BY <2>1 DEF NodeGood
  <2>4. TypeOK'
    BY <2>1, <2>2, <2>3 DEF TypeInv, TypeOK
  <2> QED BY <2>1, <2>2, <2>4 DEF TypeInv
<1>3. CASE Stop /\ UNCHANGED log0Vars
  <2>1. /\ UNCHANGED <<log0, epoch, nodeTip, log1, rebuilt, savedEpoch, savedPos, base, pc, chain, pos0, todo,
                       epochRead, target, watched, starts, crashes>>
        /\ running' = FALSE /\ stops < MaxStop /\ stops' = stops + 1
    BY <1>3 DEF Stop, log0Vars, fileVars, log1Vars
  <2>2. stops' \in 0..MaxStop
    BY <2>1, Log1Assumption DEF TypeInv, TypeOK
  <2>3. TypeOK'
    BY <2>1, <2>2 DEF TypeInv, TypeOK
  <2> QED BY <2>1, <2>3 DEF TypeInv
<1>4. CASE Crash /\ UNCHANGED log0Vars
  <2>1. Down /\ UNCHANGED <<log0Vars, fileVars, starts, stops>> /\ crashes' = crashes + 1 /\ crashes < MaxCrash
    BY <1>4 DEF Crash
  <2>2. crashes' \in 0..MaxCrash
    BY <2>1, Log1Assumption DEF TypeInv, TypeOK
  <2>3. starts' \in 0..MaxStart /\ stops' \in 0..MaxStop
    BY <2>1 DEF TypeInv, TypeOK
  <2> QED BY <2>1, <2>2, <2>3, TypeDown
<1>5. CASE UNCHANGED vars
  BY <1>5 DEF vars, log0Vars, fileVars, log1Vars, procVars, boundVars, TypeInv, TypeOK
<1> QED BY <1>1, <1>2, <1>3, <1>4, <1>5 DEF Next

\* Whatever the node does and wherever log1producer is stopped, every variable has
\* its type, and chain_ never holds more than its limit (class Chain, run(), init()).
THEOREM TypeCorrect == Spec => []TypeOK
<1>1. TypeInv => TypeOK
  BY DEF TypeInv
<1> QED BY TypeInit, TypeStep, <1>1, PTL DEF Spec

-----------------------------------------------------------------------------
(* RestartsCleanly. *)

\* A walk back ends while chain_ still has more than three blocks (or fails with
\* the last one): Chain::push() accepts a step back only then.
DeepBack == (pc = "back" /\ running /\ OffNode) => Len(chain) \notin {2, 3}

CleanInv ==
    /\ TypeInv
    /\ rebuilt.ok /\ rebuilt.chain # <<>>
    /\ pc # "down" => rebuilt.chain = chain

\* A line that fits the chain the process has fits the replay in the same way.
LEMMA CleanPush ==
    ASSUME CleanInv, pc # "down", NEW line \in AnyLine, line.type = "block",
           WriteLog1(line), CanPush(chain, line.item)
    PROVE  rebuilt'.ok /\ rebuilt'.chain = Push(chain, line.item) /\ rebuilt'.chain # <<>>
<1>1. /\ rebuilt \in Rebuilt /\ rebuilt.ok /\ rebuilt.chain # <<>> /\ rebuilt.chain = chain
      /\ Linked(chain) /\ Len(chain) <= ChainLimit
  BY DEF CleanInv, TypeInv, TypeOK, Good
<1>2. line.item \in Blocks
  BY LineParts
<1>3. Linked(Push(chain, line.item))
  BY <1>1, <1>2, PushFacts
<1>4. Push(chain, line.item) \in Seq(Blocks) /\ Push(chain, line.item) # <<>>
  BY <1>3 DEF Linked
<1>5. ReplayLine(rebuilt, line).ok /\ ReplayLine(rebuilt, line).chain = Push(chain, line.item)
  BY <1>1, <1>4, ReplayPushes
<1> QED BY <1>4, <1>5 DEF WriteLog1

\* Other lines change neither.
LEMMA CleanSkip ==
    ASSUME NEW line, line.type # "block", WriteLog1(line)
    PROVE  rebuilt' = rebuilt
  BY ReplaySkips DEF WriteLog1

\* A log1 that is not empty can be replayed.
LEMMA CleanInit ==
    ASSUME Begin \notin Bases, Init
    PROVE  CleanInv
<1>1. PICK b \in Bases : log1 = Lines(Tail(Chain[b]))
  BY DEF Init
<1>2. b \in Block /\ b \in Blocks
  BY Log1Assumption DEF Blocks
<1>3. Replay(log1).ok /\ Replay(log1).chain # <<>>
  BY <1>1, <1>2, BaseLog
<1>4. rebuilt = Replay(log1) /\ pc = "down"
  BY DEF Init
<1> QED BY <1>3, <1>4, TypeInit DEF CleanInv

\* Every step keeps chain_ equal to the replay.
LEMMA CleanStep ==
    ASSUME CleanInv, DeepBack, [Next]_vars
    PROVE  CleanInv'
<1> USE DEF fileVars, log1Vars, procVars, boundVars
<1>0. TypeInv /\ TypeInv'
  BY TypeStep DEF CleanInv
<1>00. rebuilt.ok /\ rebuilt.chain # <<>> /\ (pc # "down" => rebuilt.chain = chain)
  BY DEF CleanInv
<1>1. CASE Start
  <2>1. log1 # <<>>
    <3> SUFFICES ASSUME log1 = <<>> PROVE FALSE
      OBVIOUS
    <3>1. rebuilt = NoReplay
      BY <1>0, ReplayEmpty DEF TypeInv
    <3> QED BY <1>00, <3>1 DEF NoReplay
  <2>2. chain' = rebuilt.chain /\ rebuilt' = rebuilt
    BY <1>1, <2>1 DEF Start
  <2> QED BY <1>0, <1>00, <2>2 DEF CleanInv
<1>2. CASE WriteClear
  <2>1. rebuilt' = rebuilt
    BY <1>2, CleanSkip, LineParts DEF WriteClear
  <2> QED BY <1>0, <1>00, <1>2, <2>1 DEF CleanInv, WriteClear
<1>3. CASE StepBack
  <2>1. /\ pc = "back" /\ running /\ OffNode /\ Len(chain) > 1 /\ chain' = Front(chain)
        /\ WriteLog1(BlockLine(Last(Front(chain))))
    BY <1>3 DEF StepBack
  <2>2. Linked(chain) /\ Len(chain) \in Nat
    BY <1>0, <2>1, TipFacts
  <2>3. Len(chain) > 3
    <3>1. Len(chain) \notin {2, 3} /\ Len(chain) > 1
      BY <2>1 DEF DeepBack
    <3>2. \A n \in Nat : n > 1 /\ n \notin {2, 3} => n > 3
      OBVIOUS
    <3>3. Len(chain) \in Nat
      BY <2>2
    <3> QED BY <3>1, <3>2, <3>3, Zenon
  <2>4. PICK b : b = Last(Front(chain))
    OBVIOUS
  <2>5. b \in Blocks /\ Last(chain) \in Block /\ Prev[Last(chain)] = b /\ Linked(Front(chain)) /\ Len(Front(chain)) = Len(chain) - 1
    BY <2>1, <2>2, <2>4, FrontLinked
  <2>6. Adjacent(Last(chain), b)
    BY <2>5 DEF Adjacent
  <2>7. CanPush(chain, b)
    BY <2>2, <2>3, <2>5, <2>6, AdjacentFits
  <2>8. PICK y : y = BlockLine(b)
    OBVIOUS
  <2>9. y \in AnyLine /\ y.type = "block" /\ y.item = b /\ WriteLog1(y)
    BY <2>1, <2>4, <2>5, <2>8, LineParts DEF AnyLine
  <2>10. rebuilt'.ok /\ rebuilt'.chain = Push(chain, b) /\ rebuilt'.chain # <<>>
    BY <2>1, <2>7, <2>9, CleanPush
  <2>11. Push(chain, b) = Front(chain)
    <3>1. Height[Last(chain)] = Height[b] + 1 /\ Height[b] \in Nat
      BY <2>5, BelowOne
    <3>2. ~(Height[b] > Height[Last(chain)])
      BY <3>1
    <3>3. Len(chain) <= ChainLimit /\ ChainLimit \in Nat
      BY <1>0, Log1Assumption DEF TypeInv, TypeOK
    <3>4. ~(Len(Front(chain)) > ChainLimit)
      BY <2>2, <2>5, <3>3
    <3> QED BY <3>2, <3>4 DEF Push, Trim
  <2> QED BY <1>0, <2>1, <2>10, <2>11 DEF CleanInv
<1>4. CASE StepForward
  <2>1. PICK b : b = BlockAt(Height[Tip] + 1)
    OBVIOUS
  <2>2. pc # "down" /\ chain' = Push(chain, b) /\ WriteLog1(BlockLine(b))
    BY <1>4, <2>1 DEF StepForward
  <2>3. b \in Blocks /\ CanPush(chain, b)
    BY <1>0, <1>4, <2>1, <2>2, ForwardFacts DEF StepForward
  <2>4. PICK y : y = BlockLine(b)
    OBVIOUS
  <2>5. y \in AnyLine /\ y.type = "block" /\ y.item = b /\ WriteLog1(y)
    BY <2>2, <2>3, <2>4, LineParts DEF AnyLine
  <2>6. rebuilt'.ok /\ rebuilt'.chain = Push(chain, b) /\ rebuilt'.chain # <<>>
    BY <2>2, <2>3, <2>5, CleanPush
  <2> QED BY <1>0, <2>2, <2>6 DEF CleanInv
<1>5. CASE CopyLine
  <2>1. PICK y : y = Head(todo)
    OBVIOUS
  <2>2. /\ pc # "down" /\ WriteLog1(y) /\ todo # <<>>
        /\ y.type = "block" => CanPush(chain, y.item)
        /\ chain' = IF y.type = "block" THEN Push(chain, y.item) ELSE chain
    BY <1>5, <2>1 DEF CopyLine
  <2>3. y \in AnyLine
    BY <1>0, <2>1, <2>2, HeadTailProperties DEF TypeInv, TypeOK, AnyLine
  <2>4. CASE y.type = "block"
    <3>1. rebuilt'.ok /\ rebuilt'.chain = Push(chain, y.item) /\ rebuilt'.chain # <<>>
      BY <2>2, <2>3, <2>4, CleanPush
    <3> QED BY <1>0, <2>2, <2>4, <3>1 DEF CleanInv
  <2>5. CASE y.type # "block"
    <3>1. rebuilt' = rebuilt
      BY <2>2, <2>5, CleanSkip
    <3> QED BY <1>0, <1>00, <2>2, <2>5, <3>1 DEF CleanInv
  <2> QED BY <2>4, <2>5
<1>6. CASE /\ rebuilt' = rebuilt
           /\ pc' = "down" \/ (chain' = chain /\ pc # "down") \/ (pc = "down" /\ pc' = pc)
  BY <1>0, <1>00, <1>6 DEF CleanInv
<1>7. CASE ReadFirstLine \/ FoundCommon \/ AtTarget \/ Save \/ ReadBatch \/ BatchDone
  <2>1. rebuilt' = rebuilt /\ chain' = chain /\ pc # "down"
    BY <1>7 DEF ReadFirstLine, FoundCommon, AtTarget, Save, SaveBegin, SaveStatus, Watch, ReadBatch, BatchDone
  <2> QED BY <1>6, <2>1
<1>8. CASE BackFails \/ ForwardFails \/ ReadFails \/ CopyFails \/ Exit \/ Crash
  <2>1. rebuilt' = rebuilt /\ pc' = "down"
    BY <1>8 DEF BackFails, ForwardFails, ReadFails, CopyFails, Exit, Crash, Down
  <2> QED BY <1>6, <2>1
<1>9. CASE NodeStep \/ Stop \/ UNCHANGED vars
  <2>1. rebuilt' = rebuilt /\ chain' = chain /\ pc' = pc
    BY <1>9 DEF NodeStep, Stop, vars
  <2> QED BY <1>6, <2>1
<1> QED BY <1>1, <1>2, <1>3, <1>4, <1>5, <1>7, <1>8, <1>9 DEF Next, Producer, Sync, Save, Run

\* Wherever log1producer is killed or stopped, and whatever the node does meanwhile,
\* initLog1() rebuilds from log1 the chain that the process had, if log1 is not
\* empty at first and every walk back ends while chain_ has more than three blocks.
THEOREM RestartRebuilds == Begin \notin Bases => (Spec /\ []DeepBack => []RestartsCleanly)
<1> SUFFICES ASSUME Begin \notin Bases PROVE Spec /\ []DeepBack => []RestartsCleanly
  OBVIOUS
<1>1. Init => CleanInv
  BY CleanInit
<1>2. CleanInv /\ DeepBack /\ [Next]_vars => CleanInv'
  BY CleanStep
<1>3. CleanInv => RestartsCleanly
  BY DEF CleanInv, TypeInv, RestartsCleanly
<1> QED BY <1>1, <1>2, <1>3, PTL DEF Spec

-----------------------------------------------------------------------------
(* CopiesLog0, Log1Walk and TipMatches. *)

\* What the comments of log1producer assume: no restart of the node during init(),
\* no block up to the first line of log0 undone before the walk to it is recorded,
\* no kill between the two status files or inside a batch, and no SIGTERM in a walk.
Steady ==
    /\ QuietInit /\ MaxUndo = 0
    /\ CrashPCs \cap {"status", "batch"} = {}
    /\ StopPCs \cap {"clear", "first", "back", "forward"} = {}

\* A block that the node undoes finds more than three blocks in chain_.
DeepCopy ==
    (pc = "batch" /\ todo # <<>> /\ Head(todo).type = "block" /\ Height[Head(todo).item] < Height[Tip])
        => Len(chain) > 3

\* b is a block of the chain of tip.
OnChain(b, tip) == Height[b] <= Height[tip] /\ Chain[tip][Height[b] - Height[Begin] + 1] = b

\* log1 holds, since position s of it, the lines 2..n of the log0 l.
SameLines(s, m, l, n) ==
    /\ m \in Nat /\ n \in 1..Len(l) /\ Len(s) = m + n - 1
    /\ \A i \in 2..n : s[m + i - 1] = l[i]

Copied(n) ==
    /\ SameLines(log1, base, log0, n)
    /\ LastBlock(log1, Len(log1)) = LastBlock(log0, n)

AtPos(p) == p.epoch = epoch /\ Copied(p.line)

\* The lines q follow the first k lines of the log l, whose last block is tip.
FollowsLog(l, k, q, tip) ==
    /\ l \in Seq(Line) /\ k \in 1..Len(l) /\ k + Len(q) <= Len(l)
    /\ \A i \in 2..Len(l) : FitsAt(l, i)
    /\ \A j \in 1..Len(q) : q[j] = l[k + j]
    /\ LastBlock(l, k) = tip

\* init(): what is known at each point of the walk.
InitPhase ==
    /\ pc \in {"clear", "first", "back", "forward", "begin"} => savedEpoch # epoch /\ epochRead = epoch
    /\ pc \in {"clear", "first", "back", "forward"} => running
    /\ pc \in {"back", "forward", "begin"} =>
          pos0 = [epoch |-> epoch, line |-> 1] /\ target = Height[log0[1].item]
    /\ pc = "forward" => Height[Tip] <= target /\ OnChain(Tip, nodeTip)
    /\ pc = "begin" => Tip = log0[1].item

\* The saved position, and the one of the process, are where log1 is.
SavedPhase ==
    /\ savedEpoch <= epoch
    /\ savedEpoch # epoch => OnChain(log0[1].item, nodeTip)
    /\ pc = "status" => savedEpoch = epoch /\ pos0 = [epoch |-> epoch, line |-> 1] /\ Copied(1)
    /\ pc = "watch" => savedEpoch = epoch /\ savedPos = pos0 /\ AtPos(pos0)
    /\ pc \in {"run", "batch"} => watched = savedEpoch
    /\ pc = "run" => savedPos = pos0 /\ (savedEpoch = epoch => AtPos(pos0))
    /\ (pc = "down" /\ savedEpoch = epoch) => AtPos(savedPos)

\* The lines that are read and not copied follow those that are.
BatchPhase ==
    pc = "batch" =>
        /\ \E l \in Seq(Line), k \in Nat : FollowsLog(l, k, todo, Tip)
        /\ savedEpoch = epoch =>
              /\ pos0.epoch = epoch
              /\ \E k \in Nat : /\ pos0.line = k + Len(todo)
                                /\ FollowsLog(log0, k, todo, Tip) /\ Copied(k)

\* log1 is a walk; its last block is the one of chain_ and of the replay.
WalkPhase ==
    /\ Walk(log1)
    /\ EndsAt(rebuilt, LastBlock(log1, Len(log1)))
    /\ pc # "down" => Tip = LastBlock(log1, Len(log1))

SteadyInv == TypeInv /\ InitPhase /\ SavedPhase /\ BatchPhase /\ WalkPhase

\* More lines at the end of log0 change nothing of what is copied.
LEMMA SameLinesLonger ==
    ASSUME NEW s, NEW m, NEW l \in Seq(Line), NEW k \in Seq(Line), NEW n, SameLines(s, m, l, n), Longer(l, k)
    PROVE  SameLines(s, m, k, n) /\ LastBlock(k, n) = LastBlock(l, n)
<1>1. n \in 1..Len(l) /\ Len(l) \in Nat /\ Len(k) \in Nat /\ Len(k) >= Len(l)
  BY DEF SameLines, Longer
<1>2. n \in 1..Len(k) /\ n \in Nat
  BY <1>1
<1>3. ASSUME NEW i \in 1..n PROVE k[i] = l[i]
  <2>1. i \in 1..Len(l)
    BY <1>1
  <2> QED BY <2>1 DEF Longer
<1>4. ASSUME NEW i \in 2..n PROVE s[m + i - 1] = k[i]
  <2>1. i \in 1..n
    BY <1>2
  <2> QED BY <1>3, <2>1 DEF SameLines
<1>5. LastBlock(k, n) = LastBlock(l, n)
  BY <1>2, <1>3, LastBlockPrefix
<1> QED BY <1>2, <1>4, <1>5 DEF SameLines

\* The next line is copied.
LEMMA SameLinesNext ==
    ASSUME NEW s \in Seq(AnyLine), NEW m, NEW l \in Seq(Line), NEW n, SameLines(s, m, l, n), n + 1 <= Len(l),
           NEW t, t = Append(s, l[n + 1])
    PROVE  SameLines(t, m, l, n + 1)
<1>1. m \in Nat /\ n \in 1..Len(l) /\ Len(s) = m + n - 1 /\ Len(l) \in Nat /\ \A i \in 2..n : s[m + i - 1] = l[i]
  BY DEF SameLines
<1>2. n + 1 \in 1..Len(l) /\ n \in Nat /\ n >= 1
  BY <1>1
<1>3. PICK y : y = l[n + 1]
  OBVIOUS
<1>4. y \in AnyLine
  BY <1>2, <1>3 DEF AnyLine
<1>5. /\ Len(t) = Len(s) + 1 /\ Len(s) \in Nat /\ t[Len(s) + 1] = y
      /\ \A i \in 1..Len(s) : t[i] = s[i]
  BY <1>3, <1>4, AppendProperties
<1>6. Len(t) = m + (n + 1) - 1
  BY <1>1, <1>2, <1>5
<1>7. ASSUME NEW i \in 2..(n + 1) PROVE t[m + i - 1] = l[i]
  <2>1. CASE i \in 2..n
    <3>1. m + i - 1 \in 1..Len(s)
      BY <1>1, <1>2, <2>1
    <3>2. t[m + i - 1] = s[m + i - 1]
      BY <1>5, <3>1
    <3> QED BY <1>1, <2>1, <3>2
  <2>2. CASE i = n + 1
    <3>1. m + i - 1 = Len(s) + 1
      BY <1>1, <1>2, <2>2
    <3> QED BY <1>3, <1>5, <2>2, <3>1
  <2>3. i \in 2..n \/ i = n + 1
    BY <1>2
  <2> QED BY <2>1, <2>2, <2>3
<1> QED BY <1>1, <1>2, <1>6, <1>7 DEF SameLines

\* Nothing is copied yet.
LEMMA SameLinesNone ==
    ASSUME NEW s \in Seq(AnyLine), NEW l \in Seq(Line), Len(l) >= 1
    PROVE  SameLines(s, Len(s), l, 1)
<1>1. Len(s) \in Nat /\ Len(l) \in Nat
  OBVIOUS
<1>2. 1 \in 1..Len(l) /\ Len(s) = Len(s) + 1 - 1
  BY <1>1
<1> QED BY <1>1, <1>2 DEF SameLines

\* The same as equal subsequences.
LEMMA SameSubSeq ==
    ASSUME NEW s \in Seq(AnyLine), NEW m, NEW l \in Seq(Line), NEW n, SameLines(s, m, l, n)
    PROVE  SubSeq(s, m + 1, Len(s)) = SubSeq(l, 2, n)
<1>1. m \in Nat /\ n \in 1..Len(l) /\ Len(s) = m + n - 1 /\ Len(l) \in Nat /\ \A i \in 2..n : s[m + i - 1] = l[i]
  BY DEF SameLines
<1>2. PICK u, v, k : u = SubSeq(s, m + 1, Len(s)) /\ v = SubSeq(l, 2, n) /\ k = n - 1
  OBVIOUS
<1>3. k \in Nat /\ n = k + 1 /\ n \in Int /\ Len(s) = m + k /\ m + 1 \in Int /\ Len(s) \in Int
  BY <1>1, <1>2
<1>4. u = [i \in 1..k |-> s[m + i]]
  BY <1>1, <1>2, <1>3
<1>5. v = [i \in 1..k |-> l[1 + i]]
  BY <1>1, <1>2, <1>3
<1>6. ASSUME NEW i \in 1..k PROVE s[m + i] = l[1 + i]
  <2>1. 1 + i \in 2..n /\ m + (1 + i) - 1 = m + i
    BY <1>1, <1>3
  <2> QED BY <1>1, <2>1
<1> QED BY <1>2, <1>4, <1>5, <1>6

\* The first of the lines that follow.
LEMMA FollowsHead ==
    ASSUME NEW l, NEW k, NEW q \in Seq(Line), NEW tip, FollowsLog(l, k, q, tip), q # <<>>
    PROVE  /\ Head(q) \in Line /\ Head(q) = l[k + 1] /\ k + 1 <= Len(l) /\ k \in Nat
           /\ Fits(tip, Head(q))
           /\ Tail(q) \in Seq(Line) /\ Len(Tail(q)) = Len(q) - 1 /\ Len(q) \in Nat
           /\ FollowsLog(l, k + 1, Tail(q), BlockAfter(tip, Head(q)))
           /\ LastBlock(l, k + 1) = BlockAfter(tip, Head(q))
<1>1. /\ l \in Seq(Line) /\ k \in 1..Len(l) /\ k + Len(q) <= Len(l) /\ Len(l) \in Nat
      /\ \A i \in 2..Len(l) : FitsAt(l, i)
      /\ \A j \in 1..Len(q) : q[j] = l[k + j]
      /\ LastBlock(l, k) = tip
  BY DEF FollowsLog
<1>2. PICK x, t : x = Head(q) /\ t = Tail(q)
  OBVIOUS
<1>3. /\ x \in Line /\ t \in Seq(Line) /\ Len(t) = Len(q) - 1
      /\ \A i \in 1..Len(t) : t[i] = q[i + 1]
  BY <1>2, HeadTailProperties
<1>4. Len(q) \in Nat /\ Len(q) >= 1 /\ x = q[1]
  BY <1>2
<1>5. k \in Nat /\ k + 1 \in 2..Len(l) /\ 1 \in 1..Len(q) /\ (k + 1) - 1 = k /\ k + 1 \in 1..Len(l)
  BY <1>1, <1>4
<1>6. x = l[k + 1]
  BY <1>1, <1>4, <1>5
<1>7. Fits(tip, x)
  <2>1. FitsAt(l, k + 1)
    BY <1>1, <1>5
  <2> QED BY <1>1, <1>5, <1>6, <2>1 DEF FitsAt, Fits
<1>8. LastBlock(l, k + 1) = BlockAfter(tip, x)
  <2>1. LastBlock(l, k + 1) = IF l[k + 1].type = "block" THEN l[k + 1].item ELSE LastBlock(l, k)
    BY <1>5, LastBlockNext
  <2> QED BY <1>1, <1>6, <2>1 DEF BlockAfter
<1>9. ASSUME NEW j \in 1..Len(t) PROVE t[j] = l[(k + 1) + j]
  <2>1. j + 1 \in 1..Len(q) /\ k + (j + 1) = (k + 1) + j
    BY <1>3, <1>4, <1>5
  <2>2. q[j + 1] = l[k + (j + 1)]
    BY <1>1, <2>1
  <2> QED BY <1>3, <2>1, <2>2
<1>10. (k + 1) + Len(t) <= Len(l)
  BY <1>1, <1>3, <1>4, <1>5
<1>11. FollowsLog(l, k + 1, t, BlockAfter(tip, x))
  BY <1>1, <1>5, <1>8, <1>9, <1>10 DEF FollowsLog
<1>12. k + 1 <= Len(l)
  BY <1>1, <1>5
<1> QED BY <1>2, <1>3, <1>4, <1>5, <1>6, <1>7, <1>8, <1>11, <1>12

\* More lines at the end of the log.
LEMMA FollowsLonger ==
    ASSUME NEW l, NEW k, NEW q \in Seq(Line), NEW tip, FollowsLog(l, k, q, tip),
           NEW m, NEW b, NodeGood(m, b), Longer(l, m)
    PROVE  FollowsLog(m, k, q, tip)
<1>1. /\ l \in Seq(Line) /\ k \in 1..Len(l) /\ k + Len(q) <= Len(l) /\ Len(l) \in Nat
      /\ \A j \in 1..Len(q) : q[j] = l[k + j]
      /\ LastBlock(l, k) = tip
  BY DEF FollowsLog
<1>2. m \in Seq(Line) /\ Len(m) \in Nat /\ \A i \in 2..Len(m) : FitsAt(m, i)
  BY DEF NodeGood
<1>3. Len(m) >= Len(l) /\ \A i \in 1..Len(l) : m[i] = l[i]
  BY DEF Longer
<1>4. k \in Nat /\ k \in 1..Len(m) /\ k + Len(q) <= Len(m) /\ Len(q) \in Nat
  <2>1. Len(q) \in Nat
    OBVIOUS
  <2>2. Len(m) >= Len(l)
    BY <1>3
  <2>3. k \in 1..Len(l) /\ k + Len(q) <= Len(l) /\ Len(l) \in Nat /\ Len(m) \in Nat
    BY <1>1, <1>2
  <2> QED BY <2>1, <2>2, <2>3
<1>5. ASSUME NEW j \in 1..Len(q) PROVE q[j] = m[k + j]
  <2>1. k + j \in 1..Len(l)
    BY <1>1, <1>4
  <2> QED BY <1>1, <1>3, <2>1
<1>6. LastBlock(m, k) = tip
  <2>1. ASSUME NEW i \in 1..k PROVE m[i] = l[i]
    <3>1. i \in 1..Len(l)
      BY <1>1
    <3> QED BY <1>3, <3>1
  <2>2. LastBlock(m, k) = LastBlock(l, k)
    BY <1>4, <2>1, LastBlockPrefix
  <2> QED BY <1>1, <2>2
<1> QED BY <1>2, <1>4, <1>5, <1>6 DEF FollowsLog

\* A batch from position n on follows the first n lines.
LEMMA BatchFollows ==
    ASSUME NodeGood(log0, nodeTip), NEW n \in 1..Len(log0), n < Len(log0)
    PROVE  /\ FollowsLog(log0, n, Batch(n), LastBlock(log0, n))
           /\ Batch(n) \in Seq(Line)
<1>1. log0 \in Seq(Line) /\ Len(log0) \in Nat /\ \A i \in 2..Len(log0) : FitsAt(log0, i)
  BY DEF NodeGood
<1>2. PICK e, q : /\ e = IF Len(log0) > n + BatchSize + 1 THEN n + BatchSize + 1 ELSE Len(log0)
                  /\ q = SubSeq(log0, n + 1, e)
  OBVIOUS
<1>3. BatchSize \in Nat
  BY Log1Assumption
<1>4. n \in Nat /\ e \in Nat /\ e <= Len(log0) /\ n + 1 <= e /\ n + 1 \in Int /\ e \in Int
  BY <1>1, <1>2, <1>3
<1>5. ASSUME NEW i \in (n + 1)..e PROVE log0[i] \in Line
  <2>1. i \in 1..Len(log0)
    BY <1>1, <1>4
  <2> QED BY <1>1, <2>1
<1>6. /\ q \in Seq(Line) /\ Len(q) = IF n + 1 <= e THEN e - (n + 1) + 1 ELSE 0
      /\ \A i \in 1..(e - (n + 1) + 1) : q[i] = log0[(n + 1) + i - 1]
  BY <1>2, <1>4, <1>5, SubSeqProperties
<1>7. Len(q) = e - n /\ n + Len(q) <= Len(log0)
  <2>1. Len(q) = IF n + 1 <= e THEN e - (n + 1) + 1 ELSE 0
    BY <1>6
  <2>2. Len(q) = e - n
    BY <1>4, <2>1
  <2> QED BY <1>1, <1>4, <2>2
<1>8. ASSUME NEW j \in 1..Len(q) PROVE q[j] = log0[n + j]
  <2>1. j \in 1..(e - (n + 1) + 1) /\ (n + 1) + j - 1 = n + j
    BY <1>4, <1>7
  <2> QED BY <1>6, <2>1
<1>9. q = Batch(n)
  BY <1>2 DEF Batch
<1> QED BY <1>1, <1>6, <1>7, <1>8, <1>9 DEF FollowsLog

\* writeLog1() of a line that fits the last block of log1.
LEMMA WalkWrite ==
    ASSUME TypeInv, WalkPhase, NEW line \in AnyLine, WriteLog1(line),
           NEW last, last = LastBlock(log1, Len(log1)), Fits(last, line)
    PROVE  /\ Walk(log1') /\ LastBlock(log1', Len(log1')) = BlockAfter(last, line)
           /\ EndsAt(rebuilt', BlockAfter(last, line))
<1>1. log1 \in Seq(AnyLine) /\ Good(rebuilt)
  BY DEF TypeInv, TypeOK, AnyLine
<1>2. Walk(log1) /\ EndsAt(rebuilt, last)
  BY DEF WalkPhase
<1>3. log1' = Append(log1, line) /\ rebuilt' = ReplayLine(rebuilt, line)
  BY DEF WriteLog1
<1>4. Walk(log1')
  BY <1>1, <1>2, <1>3, WalkAppend
<1>5. LastBlock(log1', Len(log1')) = BlockAfter(last, line)
  BY <1>1, <1>3, LogAppendLast
<1>6. EndsAt(rebuilt', BlockAfter(last, line))
  BY <1>1, <1>2, <1>3, ReplayGood
<1> QED BY <1>4, <1>5, <1>6

\* A tip is on its own chain.
LEMMA OwnChain ==
    ASSUME NEW b \in Block
    PROVE  OnChain(b, b)
<1>1. PICK c : c = Chain[b]
  OBVIOUS
<1>2. Len(c) = Height[b] - Height[Begin] + 1 /\ c[Len(c)] = b
  BY <1>1, ChainShape
<1>3. Height[b] <= Height[b]
  BY BelowOne
<1> QED BY <1>1, <1>2, <1>3 DEF OnChain

\* A block that is not above the fork stays on the chain when the tip moves.
LEMMA ForkKeeps ==
    ASSUME NEW a \in Block, NEW b \in Block, Height[b] > Height[a],
           NEW f \in Blocks, Height[f] <= ForkHeight(a, b), OnChain(f, a)
    PROVE  OnChain(f, b)
<1>1. PICK c, d, k : c = Chain[a] /\ d = Chain[b] /\ k = CommonLen(c, d)
  OBVIOUS
<1>2. a \in Block \cup {Begin} /\ b \in Block \cup {Begin}
  OBVIOUS
<1>3. k \in 1..Len(c) /\ \A i \in 1..k : c[i] = d[i]
  BY <1>1, <1>2, CommonPart
<1>4. Len(c) \in Nat
  <2>1. c \in Seq(Block \cup {Begin})
    BY <1>1, <1>2, ChainShape
  <2> QED BY <2>1
<1>5. PICK g, h, i : g = Height[Begin] /\ h = Height[f] /\ i = h - g + 1
  OBVIOUS
<1>6. g \in Nat /\ h \in Nat /\ h >= g /\ Height[a] \in Nat /\ Height[b] \in Nat
  BY <1>5, BelowOne
<1>7. h <= g + k - 1
  BY <1>1, <1>5 DEF ForkHeight
<1>8. k \in Nat
  BY <1>3, <1>4
<1>9. i \in 1..k
  BY <1>5, <1>6, <1>7, <1>8
<1>10. h <= Height[a] /\ c[i] = f
  BY <1>1, <1>5 DEF OnChain
<1>11. h <= Height[b]
  BY <1>6, <1>10
<1>12. d[i] = f
  BY <1>3, <1>9, <1>10
<1> QED BY <1>1, <1>5, <1>11, <1>12 DEF OnChain

\* The first line of log0.
LEMMA FirstFacts ==
    ASSUME NEW l, NEW tip, NodeGood(l, tip)
    PROVE  l[1].item \in Block /\ LastBlock(l, 1) = l[1].item /\ l \in Seq(Line) /\ Len(l) >= 1
<1>1. l[1].item \in Block /\ l[1].type = "block" /\ l \in Seq(Line) /\ Len(l) >= 1
  BY DEF NodeGood
<1>2. LastBlock(l, 0 + 1) = IF l[0 + 1].type = "block" THEN l[0 + 1].item ELSE LastBlock(l, 0)
  BY LastBlockNext
<1> QED BY <1>1, <1>2

\* The initial states.
LEMMA SteadyInit ==
    ASSUME Init
    PROVE  SteadyInv
<1>1. TypeInv
  BY TypeInit
<1>2. PICK b \in Bases : log1 = Lines(Tail(Chain[b]))
  BY DEF Init
<1>3. b \in Blocks
  BY Log1Assumption DEF Blocks
<1>4. Walk(log1) /\ LastBlock(log1, Len(log1)) = b /\ EndsAt(Replay(log1), b)
  BY <1>2, <1>3, BaseLog
<1>5. rebuilt = Replay(log1) /\ pc = "down" /\ savedEpoch = 0
  BY DEF Init
<1>6. WalkPhase
  BY <1>4, <1>5 DEF WalkPhase
<1>7. epoch = 1 /\ nodeTip \in Block /\ log0 = <<BlockLine(nodeTip)>>
  BY Log0Assumption DEF Init, Log0Init
<1>8. log0[1].item = nodeTip
  BY <1>7 DEF BlockLine
<1>9. OnChain(log0[1].item, nodeTip)
  BY <1>7, <1>8, OwnChain
<1>10. SavedPhase
  BY <1>5, <1>7, <1>9 DEF SavedPhase
<1>11. InitPhase /\ BatchPhase
  BY <1>5 DEF InitPhase, BatchPhase
<1> QED BY <1>1, <1>6, <1>10, <1>11 DEF SteadyInv

\* The process ends where the saved position is right or will not be used.
LEMMA SteadyDown ==
    ASSUME SteadyInv, TypeInv', Down, UNCHANGED <<log0Vars, fileVars>>,
           savedEpoch = epoch => AtPos(savedPos)
    PROVE  SteadyInv'
<1>1. UNCHANGED <<log0, epoch, nodeTip, log1, rebuilt, savedEpoch, savedPos, base>> /\ pc' = "down"
  BY DEF log0Vars, fileVars, log1Vars, Down
<1>2. WalkPhase'
  BY <1>1 DEF SteadyInv, WalkPhase
<1>3. savedEpoch <= epoch /\ (savedEpoch # epoch => OnChain(log0[1].item, nodeTip))
  BY DEF SteadyInv, SavedPhase
<1>4. SavedPhase'
  BY <1>1, <1>3 DEF SavedPhase, AtPos, Copied
<1>5. InitPhase' /\ BatchPhase'
  BY <1>1 DEF InitPhase, BatchPhase
<1> QED BY <1>2, <1>4, <1>5 DEF SteadyInv

\* A step of init() before the walk is recorded: the saved position is not used.
LEMMA SteadyWalk ==
    ASSUME SteadyInv, TypeInv', InitPhase', WalkPhase', savedEpoch # epoch,
           pc' \in {"clear", "first", "back", "forward", "begin"},
           UNCHANGED <<log0Vars, savedEpoch>>
    PROVE  SteadyInv'
<1>1. UNCHANGED <<log0, epoch, nodeTip, savedEpoch>>
  BY DEF log0Vars
<1>2. savedEpoch <= epoch /\ OnChain(log0[1].item, nodeTip)
  BY DEF SteadyInv, SavedPhase
<1>3. SavedPhase'
  BY <1>1, <1>2 DEF SavedPhase
<1>4. BatchPhase'
  BY DEF BatchPhase
<1> QED BY <1>3, <1>4 DEF SteadyInv

\* A step that leaves log1 and chain_ alone keeps the walk.
LEMMA WalkStay ==
    ASSUME SteadyInv, UNCHANGED log1Vars, chain' = chain, pc # "down"
    PROVE  WalkPhase'
<1>1. log1' = log1 /\ rebuilt' = rebuilt
  BY DEF log1Vars
<1> QED BY <1>1 DEF SteadyInv, WalkPhase, Tip

\* init() up to the end of the walk.
LEMMA SteadySync ==
    ASSUME SteadyInv, TypeInv', Start \/ Sync, UNCHANGED log0Vars
    PROVE  SteadyInv'
<1> USE DEF fileVars, procVars, boundVars
<1>0. UNCHANGED <<log0, epoch, nodeTip>>
  BY DEF log0Vars
<1>01. TypeInv /\ InitPhase /\ SavedPhase /\ WalkPhase
  BY DEF SteadyInv
<1>02. log0[1].item \in Block /\ nodeTip \in Block
  BY <1>01, FirstFacts DEF TypeInv, NodeGood
<1>1. CASE Start
  <2>1. /\ log1 = <<>> \/ (rebuilt.ok /\ rebuilt.chain # <<>>)
        /\ chain' = IF log1 = <<>> THEN <<Begin>> ELSE rebuilt.chain
        /\ pc = "down" /\ running' = TRUE /\ epochRead' = epoch
        /\ UNCHANGED <<log1, rebuilt, savedEpoch, savedPos, base>>
    BY <1>1 DEF Start, log1Vars
  <2>2. Last(chain') = LastBlock(log1, Len(log1))
    <3>1. CASE log1 = <<>>
      <4>1. Last(<<Begin>>) = Begin
        BY OneLinked, BelowOne
      <4>2. Len(log1) = 0
        BY <3>1
      <4>3. LastBlock(log1, 0) = Begin
        BY DEF LastBlock, BlockLines
      <4> QED BY <2>1, <3>1, <4>1, <4>2, <4>3
    <3>2. CASE log1 # <<>>
      BY <1>01, <2>1, <3>2 DEF WalkPhase, EndsAt
    <3> QED BY <3>1, <3>2
  <2>3. WalkPhase'
    BY <1>01, <2>1, <2>2 DEF WalkPhase, Tip
  <2>4. CASE epoch # savedEpoch
    <3>1. pc' = "clear"
      BY <1>1, <2>4 DEF Start
    <3>2. InitPhase'
      BY <1>0, <2>1, <2>4, <3>1 DEF InitPhase
    <3> QED BY <1>0, <2>1, <2>3, <2>4, <3>1, <3>2, SteadyWalk
  <2>5. CASE epoch = savedEpoch
    <3>1. pc' = "watch" /\ pos0' = savedPos
      BY <1>1, <2>5 DEF Start
    <3>2. InitPhase' /\ BatchPhase'
      BY <3>1 DEF InitPhase, BatchPhase
    <3>3. savedEpoch <= epoch /\ AtPos(savedPos)
      BY <1>01, <2>1, <2>5 DEF SavedPhase
    <3>4. SavedPhase'
      BY <1>0, <2>1, <2>5, <3>1, <3>3 DEF SavedPhase, AtPos, Copied
    <3> QED BY <2>3, <3>2, <3>4 DEF SteadyInv
  <2> QED BY <2>4, <2>5
<1>2. CASE WriteClear
  <2>1. /\ pc = "clear" /\ pc' = "first" /\ WriteLog1(ClearLine)
        /\ UNCHANGED <<savedEpoch, running, chain, epochRead>>
    BY <1>2 DEF WriteClear
  <2>2. savedEpoch # epoch /\ epochRead = epoch /\ running
    BY <1>01, <2>1 DEF InitPhase
  <2>3. PICK last : last = LastBlock(log1, Len(log1))
    OBVIOUS
  <2>4. ClearLine \in AnyLine /\ Fits(last, ClearLine) /\ BlockAfter(last, ClearLine) = last
    BY LineParts DEF AnyLine, Fits, BlockAfter
  <2>5. /\ Walk(log1') /\ LastBlock(log1', Len(log1')) = last /\ EndsAt(rebuilt', last)
    BY <1>01, <2>1, <2>3, <2>4, WalkWrite
  <2>6. WalkPhase'
    BY <1>01, <2>1, <2>3, <2>5 DEF WalkPhase, Tip
  <2>7. InitPhase'
    BY <1>0, <2>1, <2>2 DEF InitPhase
  <2> QED BY <1>0, <2>1, <2>2, <2>6, <2>7, SteadyWalk
<1>3. CASE ReadFirstLine
  <2>1. /\ pc = "first" /\ UNCHANGED <<log1Vars, savedEpoch, running, chain, epochRead>>
    BY <1>3 DEF ReadFirstLine
  <2>2. savedEpoch # epoch /\ epochRead = epoch /\ running
    BY <1>01, <2>1 DEF InitPhase
  <2>3. target' = Height[log0[1].item] /\ pos0' = [epoch |-> epoch, line |-> 1] /\ pc' = "back"
    BY <1>3, <2>2 DEF ReadFirstLine
  <2>4. WalkPhase'
    BY <2>1, WalkStay
  <2>5. InitPhase'
    BY <1>0, <2>1, <2>2, <2>3 DEF InitPhase
  <2> QED BY <1>0, <2>1, <2>2, <2>3, <2>4, <2>5, SteadyWalk
<1>4. CASE StepBack
  <2>1. /\ pc = "back" /\ pc' = "back" /\ Len(chain) > 1 /\ chain' = Front(chain)
        /\ UNCHANGED <<savedEpoch, running, epochRead, pos0, target>>
    BY <1>4 DEF StepBack
  <2>2. /\ savedEpoch # epoch /\ epochRead = epoch /\ running
        /\ pos0 = [epoch |-> epoch, line |-> 1] /\ target = Height[log0[1].item]
    BY <1>01, <2>1 DEF InitPhase
  <2>3. PICK b, y : b = Last(Front(chain)) /\ y = BlockLine(b)
    OBVIOUS
  <2>4. Linked(chain)
    BY <1>01, <2>1, TipFacts
  <2>5. Last(chain) \in Block /\ Prev[Last(chain)] = b /\ b \in Blocks
    BY <2>1, <2>3, <2>4, FrontLinked
  <2>6. y \in AnyLine /\ y.type = "block" /\ y.item = b /\ WriteLog1(y)
    BY <1>4, <2>3, <2>5, LineParts DEF AnyLine, StepBack
  <2>7. PICK last : last = LastBlock(log1, Len(log1))
    OBVIOUS
  <2>8. last = Last(chain)
    BY <1>01, <2>1, <2>7 DEF WalkPhase, Tip
  <2>9. Fits(last, y) /\ BlockAfter(last, y) = b
    BY <2>5, <2>6, <2>8 DEF Fits, BlockAfter, Adjacent
  <2>10. Walk(log1') /\ LastBlock(log1', Len(log1')) = b /\ EndsAt(rebuilt', b)
    BY <1>01, <2>6, <2>7, <2>9, WalkWrite
  <2>11. WalkPhase'
    BY <2>1, <2>3, <2>10 DEF WalkPhase, Tip
  <2>12. InitPhase'
    BY <1>0, <2>1, <2>2 DEF InitPhase
  <2> QED BY <1>0, <2>1, <2>2, <2>11, <2>12, SteadyWalk
<1>5. CASE FoundCommon
  <2>1. /\ pc = "back" /\ pc' = "forward" /\ (running => OnNode) /\ Height[Tip] <= target
        /\ UNCHANGED <<log1Vars, savedEpoch, running, epochRead, pos0, target, chain>>
    BY <1>5 DEF FoundCommon
  <2>2. /\ savedEpoch # epoch /\ epochRead = epoch /\ running
        /\ pos0 = [epoch |-> epoch, line |-> 1] /\ target = Height[log0[1].item]
    BY <1>01, <2>1 DEF InitPhase
  <2>3. OnNode
    BY <2>1, <2>2
  <2>4. Height[Tip] \in Height[Begin]..Height[nodeTip] /\ BlockAt(Height[Tip]) = Tip
    BY <2>3 DEF OnNode, HasHeight
  <2>5. Height[nodeTip] \in Nat /\ Height[Begin] \in Nat
    BY <1>02, BelowOne
  <2>6. Height[Tip] <= Height[nodeTip]
    BY <2>4, <2>5
  <2>7. OnChain(Tip, nodeTip)
    BY <2>4, <2>6 DEF OnChain, BlockAt
  <2>8. WalkPhase'
    BY <2>1, WalkStay
  <2>9. Tip' = Tip
    BY <2>1 DEF Tip
  <2>10. InitPhase'
    BY <1>0, <2>1, <2>2, <2>7, <2>9 DEF InitPhase
  <2> QED BY <1>0, <2>1, <2>2, <2>8, <2>10, SteadyWalk
<1>6. CASE BackFails \/ ForwardFails
  <2>1. pc \in {"back", "forward"} /\ Down /\ UNCHANGED fileVars
    BY <1>6 DEF BackFails, ForwardFails
  <2>2. savedEpoch # epoch
    BY <1>01, <2>1 DEF InitPhase
  <2> QED BY <2>1, <2>2, SteadyDown
<1>7. CASE StepForward
  <2>1. PICK b, y : b = BlockAt(Height[Tip] + 1) /\ y = BlockLine(b)
    OBVIOUS
  <2>2. /\ pc = "forward" /\ pc' = "forward" /\ chain' = Push(chain, b) /\ WriteLog1(y)
        /\ Height[Tip] < target /\ HasHeight(Height[Tip] + 1) /\ Prev[b] = Tip
        /\ UNCHANGED <<savedEpoch, running, epochRead, pos0, target>>
    BY <1>7, <2>1 DEF StepForward
  <2>3. /\ savedEpoch # epoch /\ epochRead = epoch /\ running
        /\ pos0 = [epoch |-> epoch, line |-> 1] /\ target = Height[log0[1].item]
    BY <1>01, <2>2 DEF InitPhase
  <2>4. /\ b \in Block /\ b \in Blocks /\ Height[b] = Height[Tip] + 1
        /\ Last(Push(chain, b)) = b
    BY <1>01, <2>1, <2>2, ForwardFacts
  <2>5. y \in AnyLine /\ y.type = "block" /\ y.item = b
    BY <2>1, <2>4, LineParts DEF AnyLine
  <2>6. PICK last : last = LastBlock(log1, Len(log1))
    OBVIOUS
  <2>7. last = Tip
    BY <1>01, <2>2, <2>6 DEF WalkPhase
  <2>8. Fits(last, y) /\ BlockAfter(last, y) = b
    BY <2>2, <2>4, <2>5, <2>7 DEF Fits, BlockAfter, Adjacent
  <2>9. Walk(log1') /\ LastBlock(log1', Len(log1')) = b /\ EndsAt(rebuilt', b)
    BY <1>01, <2>2, <2>5, <2>6, <2>8, WalkWrite
  <2>10. Tip' = b
    BY <2>2, <2>4 DEF Tip
  <2>11. WalkPhase'
    BY <2>9, <2>10 DEF WalkPhase
  <2>12. Height[b] <= target
    <3>1. Height[Tip] \in Nat
      BY <1>01, <2>2, TipFacts
    <3>2. Height[log0[1].item] \in Nat
      BY <1>02, BelowOne
    <3> QED BY <2>2, <2>3, <2>4, <3>1, <3>2
  <2>13. OnChain(b, nodeTip)
    <3>1. Height[b] \in Height[Begin]..Height[nodeTip] /\ BlockAt(Height[b]) = b
      BY <2>1, <2>2, <2>4 DEF HasHeight
    <3>2. Height[nodeTip] \in Nat /\ Height[Begin] \in Nat
      BY <1>02, BelowOne
    <3>3. Height[b] <= Height[nodeTip]
      BY <3>1, <3>2
    <3> QED BY <3>1, <3>3 DEF OnChain, BlockAt
  <2>14. InitPhase'
    BY <1>0, <2>2, <2>3, <2>10, <2>12, <2>13 DEF InitPhase
  <2> QED BY <1>0, <2>2, <2>3, <2>11, <2>14, SteadyWalk
<1>8. CASE AtTarget
  <2>1. /\ pc = "forward" /\ pc' = "begin" /\ (running => Height[Tip] >= target)
        /\ UNCHANGED <<log1Vars, savedEpoch, running, epochRead, pos0, target, chain>>
    BY <1>8 DEF AtTarget
  <2>2. /\ savedEpoch # epoch /\ epochRead = epoch /\ running
        /\ pos0 = [epoch |-> epoch, line |-> 1] /\ target = Height[log0[1].item]
        /\ Height[Tip] <= target /\ OnChain(Tip, nodeTip)
    BY <1>01, <2>1 DEF InitPhase
  <2>3. Height[Tip] = Height[log0[1].item]
    <3>1. Height[Tip] \in Nat
      BY <1>01, <2>1, TipFacts
    <3>2. Height[log0[1].item] \in Nat
      BY <1>02, BelowOne
    <3>3. Height[Tip] >= target
      BY <2>1, <2>2
    <3> QED BY <2>2, <3>1, <3>2, <3>3
  <2>4. OnChain(log0[1].item, nodeTip)
    BY <1>01, <2>2 DEF SavedPhase
  <2>5. Tip = log0[1].item
    BY <2>2, <2>3, <2>4 DEF OnChain
  <2>6. Tip' = Tip
    BY <2>1 DEF Tip
  <2>7. WalkPhase'
    BY <2>1, WalkStay
  <2>8. InitPhase'
    BY <1>0, <2>1, <2>2, <2>5, <2>6 DEF InitPhase
  <2> QED BY <1>0, <2>1, <2>2, <2>7, <2>8, SteadyWalk
<1> QED BY <1>1, <1>2, <1>3, <1>4, <1>5, <1>6, <1>7, <1>8 DEF Sync

\* The end of init(): the two status files and the time of BEGIN.
LEMMA SteadySave ==
    ASSUME SteadyInv, TypeInv', Save, UNCHANGED log0Vars
    PROVE  SteadyInv'
<1> USE DEF fileVars, procVars, boundVars
<1>0. UNCHANGED <<log0, epoch, nodeTip>>
  BY DEF log0Vars
<1>01. TypeInv /\ InitPhase /\ SavedPhase /\ WalkPhase
  BY DEF SteadyInv
<1>02. log1' = log1 /\ chain' = chain /\ pc # "down" /\ epoch <= epoch
  <2>1. epoch \in Nat
    BY <1>01 DEF TypeInv, TypeOK
  <2>2. epoch <= epoch
    BY <2>1
  <2> QED BY <2>2 DEF Save, SaveBegin, SaveStatus, Watch, log1Vars
<1>03. WalkPhase'
  <2>1. UNCHANGED log1Vars /\ chain' = chain /\ pc # "down"
    BY DEF Save, SaveBegin, SaveStatus, Watch
  <2> QED BY <2>1, WalkStay
<1>1. CASE SaveBegin
  <2>1. pc = "begin" /\ savedEpoch' = epochRead /\ base' = Len(log1) /\ pc' = "status" /\ pos0' = pos0
    BY <1>1 DEF SaveBegin
  <2>2. epochRead = epoch /\ pos0 = [epoch |-> epoch, line |-> 1] /\ Tip = log0[1].item
    BY <1>01, <2>1 DEF InitPhase
  <2>3. LastBlock(log1, Len(log1)) = log0[1].item
    BY <1>01, <2>1, <2>2 DEF WalkPhase
  <2>4. LastBlock(log0, 1) = log0[1].item /\ log0 \in Seq(Line) /\ Len(log0) >= 1
    BY <1>01, FirstFacts DEF TypeInv
  <2>5. log1 \in Seq(AnyLine)
    BY <1>01 DEF TypeInv, TypeOK, AnyLine
  <2>6. SameLines(log1, Len(log1), log0, 1)
    BY <2>4, <2>5, SameLinesNone
  <2>7. Copied(1)'
    BY <1>0, <1>02, <2>1, <2>3, <2>4, <2>6 DEF Copied
  <2>8. SavedPhase'
    BY <1>0, <1>02, <2>1, <2>2, <2>7 DEF SavedPhase
  <2>9. InitPhase' /\ BatchPhase'
    BY <2>1 DEF InitPhase, BatchPhase
  <2> QED BY <1>03, <2>8, <2>9 DEF SteadyInv
<1>2. CASE SaveStatus
  <2>1. pc = "status" /\ savedPos' = pos0 /\ pc' = "watch" /\ UNCHANGED <<savedEpoch, base, pos0>>
    BY <1>2 DEF SaveStatus
  <2>2. savedEpoch = epoch /\ pos0 = [epoch |-> epoch, line |-> 1] /\ Copied(1)
    BY <1>01, <2>1 DEF SavedPhase
  <2>3. pos0.epoch = epoch /\ pos0.line = 1
    BY <2>2
  <2>4. SavedPhase'
    BY <1>0, <1>02, <2>1, <2>2, <2>3 DEF SavedPhase, AtPos, Copied
  <2>5. InitPhase' /\ BatchPhase'
    BY <2>1 DEF InitPhase, BatchPhase
  <2> QED BY <1>03, <2>4, <2>5 DEF SteadyInv
<1>3. CASE Watch
  <2>1. pc = "watch" /\ watched' = epoch /\ pc' = "run" /\ UNCHANGED <<savedEpoch, savedPos, base, pos0>>
    BY <1>3 DEF Watch
  <2>2. savedEpoch = epoch /\ savedPos = pos0 /\ AtPos(pos0)
    BY <1>01, <2>1 DEF SavedPhase
  <2>3. SavedPhase'
    BY <1>0, <1>02, <2>1, <2>2 DEF SavedPhase, AtPos, Copied
  <2>4. InitPhase' /\ BatchPhase'
    BY <2>1 DEF InitPhase, BatchPhase
  <2> QED BY <1>03, <2>3, <2>4 DEF SteadyInv
<1> QED BY <1>1, <1>2, <1>3 DEF Save

\* A batch is read: it follows the lines that are copied.
LEMMA SteadyRead ==
    ASSUME SteadyInv, TypeInv', ReadBatch, UNCHANGED log0Vars
    PROVE  SteadyInv'
<1>0. UNCHANGED <<log0, epoch, nodeTip>>
  BY DEF log0Vars
<1>1. TypeInv /\ SavedPhase /\ WalkPhase
  BY DEF SteadyInv
<1>2. PICK n \in LinesAt(pos0) :
          n < Len(log0) /\ todo' = Batch(n) /\ pos0' = [epoch |-> epoch, line |-> n + Len(Batch(n))]
  BY DEF ReadBatch
<1>3. /\ pc = "run" /\ watched = epoch /\ pc' = "batch"
      /\ UNCHANGED <<log1, rebuilt, savedEpoch, savedPos, base, chain, watched>>
  BY DEF ReadBatch, fileVars, log1Vars
<1>4. watched = savedEpoch
  BY <1>1, <1>3 DEF SavedPhase
<1>5. savedEpoch = epoch
  BY <1>3, <1>4
<1>6. AtPos(pos0)
  BY <1>1, <1>3, <1>5 DEF SavedPhase
<1>7. pos0.epoch = epoch /\ Copied(pos0.line)
  BY <1>6 DEF AtPos
<1>8. n = pos0.line
  BY <1>7 DEF LinesAt
<1>9. Copied(n)
  BY <1>7, <1>8
<1>10. n \in 1..Len(log0)
  BY <1>9 DEF Copied, SameLines
<1>11. NodeGood(log0, nodeTip)
  BY <1>1 DEF TypeInv
<1>12. FollowsLog(log0, n, Batch(n), LastBlock(log0, n))
  BY <1>2, <1>10, <1>11, BatchFollows
<1>13. Tip = LastBlock(log0, n)
  BY <1>1, <1>3, <1>9 DEF WalkPhase, Copied
<1>14. Tip' = Tip
  BY <1>3 DEF Tip
<1>15. FollowsLog(log0', n, todo', Tip')
  BY <1>0, <1>2, <1>12, <1>13, <1>14
<1>16. log0' \in Seq(Line) /\ n \in Nat
  BY <1>0, <1>10, <1>11 DEF NodeGood
<1>17. Copied(n)'
  BY <1>0, <1>3, <1>9 DEF Copied
<1>18. pos0'.epoch = epoch' /\ pos0'.line = n + Len(todo')
  BY <1>0, <1>2
<1>19. BatchPhase'
  BY <1>15, <1>16, <1>17, <1>18 DEF BatchPhase
<1>20. InitPhase'
  BY <1>3 DEF InitPhase
<1>21. savedEpoch <= epoch
  BY <1>1 DEF SavedPhase
<1>22. SavedPhase'
  BY <1>0, <1>3, <1>4, <1>5, <1>21 DEF SavedPhase
<1>23. WalkPhase'
  BY <1>1, <1>3, <1>14 DEF WalkPhase
<1> QED BY <1>19, <1>20, <1>22, <1>23 DEF SteadyInv

\* A line of the batch is copied.
LEMMA SteadyCopy ==
    ASSUME SteadyInv, TypeInv', CopyLine, UNCHANGED log0Vars
    PROVE  SteadyInv'
<1>0. UNCHANGED <<log0, epoch, nodeTip>>
  BY DEF log0Vars
<1>1. TypeInv /\ SavedPhase /\ WalkPhase /\ BatchPhase
  BY DEF SteadyInv
<1>2. PICK y : y = Head(todo)
  OBVIOUS
<1>3. /\ pc = "batch" /\ pc' = "batch" /\ WriteLog1(y) /\ todo # <<>> /\ todo' = Tail(todo)
      /\ y.type = "block" => CanPush(chain, y.item)
      /\ chain' = IF y.type = "block" THEN Push(chain, y.item) ELSE chain
      /\ UNCHANGED <<savedEpoch, savedPos, base, pos0, watched>>
  BY <1>2 DEF CopyLine
<1>4. todo \in Seq(Line) /\ log1 \in Seq(AnyLine) /\ log0 \in Seq(Line)
  BY <1>1 DEF TypeInv, TypeOK, AnyLine
<1>5. PICK l \in Seq(Line), k \in Nat : FollowsLog(l, k, todo, Tip)
  BY <1>1, <1>3 DEF BatchPhase
<1>6. /\ y \in Line /\ Fits(Tip, y)
      /\ FollowsLog(l, k + 1, Tail(todo), BlockAfter(Tip, y))
  BY <1>2, <1>3, <1>4, <1>5, FollowsHead
<1>7. y \in AnyLine
  BY <1>6 DEF AnyLine
<1>8. Tip' = BlockAfter(Tip, y)
  <2>1. CASE y.type = "block"
    <3>1. y.item \in Blocks
      BY <1>7, <2>1, LineParts
    <3>2. Adjacent(Last(chain), y.item)
      BY <1>6, <2>1 DEF Fits, Tip
    <3>3. Linked(chain) /\ Len(chain) <= ChainLimit
      BY <1>1, <1>3, TipFacts
    <3>4. Last(Push(chain, y.item)) = y.item
      BY <1>3, <2>1, <3>1, <3>2, <3>3, PushFacts
    <3> QED BY <1>3, <2>1, <3>4 DEF Tip, BlockAfter
  <2>2. CASE y.type # "block"
    BY <1>3, <2>2 DEF Tip, BlockAfter
  <2> QED BY <2>1, <2>2
<1>9. PICK last : last = LastBlock(log1, Len(log1))
  OBVIOUS
<1>10. Tip = last
  BY <1>1, <1>3, <1>9 DEF WalkPhase
<1>11. Fits(last, y)
  BY <1>6, <1>10
<1>12. /\ Walk(log1') /\ LastBlock(log1', Len(log1')) = BlockAfter(last, y)
       /\ EndsAt(rebuilt', BlockAfter(last, y))
  BY <1>1, <1>3, <1>7, <1>9, <1>11, WalkWrite
<1>13. WalkPhase'
  BY <1>8, <1>10, <1>12 DEF WalkPhase
<1>14. ASSUME savedEpoch = epoch
       PROVE  \E j \in Nat : /\ pos0'.line = j + Len(todo')
                             /\ FollowsLog(log0', j, todo', Tip') /\ Copied(j)'
  <2>1. PICK j \in Nat : pos0.line = j + Len(todo) /\ FollowsLog(log0, j, todo, Tip) /\ Copied(j)
    BY <1>1, <1>3, <1>14 DEF BatchPhase
  <2>2. /\ y = log0[j + 1] /\ j + 1 <= Len(log0) /\ Len(Tail(todo)) = Len(todo) - 1 /\ Len(todo) \in Nat
        /\ FollowsLog(log0, j + 1, Tail(todo), BlockAfter(Tip, y))
        /\ LastBlock(log0, j + 1) = BlockAfter(Tip, y)
    BY <1>2, <1>3, <1>4, <2>1, FollowsHead
  <2>3. log1' = Append(log1, log0[j + 1])
    BY <1>3, <2>2 DEF WriteLog1
  <2>4. SameLines(log1, base, log0, j)
    BY <2>1 DEF Copied
  <2>5. SameLines(log1', base, log0, j + 1)
    BY <1>4, <2>2, <2>3, <2>4, SameLinesNext
  <2>6. LastBlock(log1', Len(log1')) = LastBlock(log0, j + 1)
    BY <1>10, <1>12, <2>2
  <2>7. Copied(j + 1)'
    BY <1>0, <1>3, <2>5, <2>6 DEF Copied
  <2>8. pos0'.line = (j + 1) + Len(todo')
    BY <1>3, <2>1, <2>2
  <2>9. FollowsLog(log0', j + 1, todo', Tip')
    BY <1>0, <1>3, <1>8, <2>2
  <2>10. j + 1 \in Nat
    OBVIOUS
  <2> QED BY <2>7, <2>8, <2>9, <2>10
<1>15. savedEpoch = epoch => pos0.epoch = epoch
  BY <1>1, <1>3 DEF BatchPhase
<1>16. FollowsLog(l, k + 1, todo', Tip') /\ k + 1 \in Nat
  BY <1>3, <1>6, <1>8
<1>17. BatchPhase'
  BY <1>0, <1>3, <1>14, <1>15, <1>16 DEF BatchPhase
<1>18. InitPhase'
  BY <1>3 DEF InitPhase
<1>19. SavedPhase'
  BY <1>0, <1>1, <1>3 DEF SavedPhase
<1> QED BY <1>13, <1>17, <1>18, <1>19 DEF SteadyInv

\* run(): nothing else disturbs the position.
LEMMA SteadyRun ==
    ASSUME SteadyInv, TypeInv', DeepCopy, Run, UNCHANGED log0Vars
    PROVE  SteadyInv'
<1>0. UNCHANGED <<log0, epoch, nodeTip>>
  BY DEF log0Vars
<1>1. TypeInv /\ SavedPhase /\ WalkPhase /\ BatchPhase
  BY DEF SteadyInv
<1>2. CASE ReadBatch
  BY <1>2, SteadyRead
<1>3. CASE CopyLine
  BY <1>3, SteadyCopy
<1>4. CASE ReadFails
  <2>1. pc = "run" /\ (watched # epoch \/ pos0.epoch # epoch) /\ Down /\ UNCHANGED fileVars
    BY <1>4 DEF ReadFails
  <2>2. watched = savedEpoch /\ (savedEpoch = epoch => AtPos(pos0))
    BY <1>1, <2>1 DEF SavedPhase
  <2>3. savedEpoch # epoch
    BY <2>1, <2>2 DEF AtPos
  <2> QED BY <2>1, <2>3, SteadyDown
<1>5. CASE Exit
  <2>1. pc = "run" /\ Down /\ UNCHANGED fileVars
    BY <1>5 DEF Exit
  <2>2. savedPos = pos0 /\ (savedEpoch = epoch => AtPos(pos0))
    BY <1>1, <2>1 DEF SavedPhase
  <2> QED BY <2>1, <2>2, SteadyDown
<1>6. CASE CopyFails
  <2>1. /\ pc = "batch" /\ todo # <<>> /\ Head(todo).type = "block"
        /\ ~CanPush(chain, Head(todo).item)
    BY <1>6 DEF CopyFails
  <2>2. PICK y : y = Head(todo)
    OBVIOUS
  <2>3. todo \in Seq(Line)
    BY <1>1 DEF TypeInv, TypeOK
  <2>4. PICK l \in Seq(Line), k \in Nat : FollowsLog(l, k, todo, Tip)
    BY <1>1, <2>1 DEF BatchPhase
  <2>5. y \in Line /\ Fits(Tip, y)
    BY <2>1, <2>2, <2>3, <2>4, FollowsHead
  <2>6. y.item \in Blocks
    BY <2>1, <2>2, <2>5, LineParts DEF AnyLine
  <2>7. Adjacent(Last(chain), y.item)
    BY <2>1, <2>2, <2>5 DEF Fits, Tip
  <2>8. Linked(chain)
    BY <1>1, <2>1, TipFacts
  <2>9. Height[y.item] < Height[Last(chain)] => Len(chain) > 3
    BY <2>1, <2>2 DEF DeepCopy, Tip
  <2>10. CanPush(chain, y.item)
    BY <2>6, <2>7, <2>8, <2>9, AdjacentFits
  <2> QED BY <2>1, <2>2, <2>10
<1>7. CASE BatchDone
  <2>1. /\ pc = "batch" /\ todo = <<>> /\ savedPos' = pos0 /\ pc' = "run"
        /\ UNCHANGED <<log1Vars, savedEpoch, base, pos0, chain, watched>>
    BY <1>7 DEF BatchDone, procVars
  <2>2. WalkPhase'
    BY <2>1, WalkStay
  <2>3. ASSUME savedEpoch = epoch PROVE AtPos(pos0)
    <3>1. PICK k \in Nat : pos0.epoch = epoch /\ pos0.line = k + Len(todo) /\ Copied(k)
      BY <1>1, <2>1, <2>3 DEF BatchPhase
    <3>2. pos0.line = k
      BY <2>1, <3>1
    <3> QED BY <3>1, <3>2 DEF AtPos
  <2>4. log1' = log1
    BY <2>1 DEF log1Vars
  <2>5. SavedPhase'
    BY <1>0, <1>1, <2>1, <2>3, <2>4 DEF SavedPhase, AtPos, Copied
  <2>6. InitPhase' /\ BatchPhase'
    BY <2>1 DEF InitPhase, BatchPhase
  <2> QED BY <2>2, <2>5, <2>6 DEF SteadyInv
<1> QED BY <1>2, <1>3, <1>4, <1>5, <1>6, <1>7 DEF Run

\* While the walk is not recorded, the node keeps its chain up to the first line.
LEMMA NodeKeepsFirst ==
    ASSUME Steady, TypeInv, NodeStep, epoch' = epoch, savedEpoch # epoch,
           NEW f \in Blocks, Height[f] <= Height[log0[1].item], OnChain(f, nodeTip)
    PROVE  OnChain(f, nodeTip')
<1>1. NodeGood(log0, nodeTip) /\ epoch \in Nat
  BY DEF TypeInv, TypeOK
<1>2. CASE \E t \in Tx : NodeTx(t)
  BY <1>2 DEF NodeTx
<1>3. CASE \E b \in Block : /\ NodeActivate(b)
                            /\ savedEpoch # epoch =>
                                  ForkHeight(nodeTip, b) + MaxUndo >= Height[log0[1].item]
  <2>1. PICK b \in Block : /\ NodeActivate(b)
                           /\ ForkHeight(nodeTip, b) + MaxUndo >= Height[log0[1].item]
    BY <1>3
  <2>2. nodeTip' = b /\ Height[b] = Height[nodeTip] + 1
    BY <2>1 DEF NodeActivate
  <2>3. nodeTip \in Block /\ log0[1].item \in Block
    BY <1>1 DEF NodeGood
  <2>4. /\ Height[b] > Height[nodeTip] /\ Height[f] \in Nat /\ Height[log0[1].item] \in Nat
        /\ Height[Begin] \in Nat
    BY <2>2, <2>3, BelowOne
  <2>5. ForkHeight(nodeTip, b) \in Int
    <3>1. PICK c, d, k : c = Chain[nodeTip] /\ d = Chain[b] /\ k = CommonLen(c, d)
      OBVIOUS
    <3>2. nodeTip \in Block \cup {Begin} /\ b \in Block \cup {Begin}
      BY <2>3
    <3>3. k \in 1..Len(c)
      BY <3>1, <3>2, CommonPart
    <3>4. k \in Int
      BY <3>3
    <3> QED BY <2>4, <3>1, <3>4 DEF ForkHeight
  <2>6. MaxUndo = 0
    BY DEF Steady
  <2>7. Height[f] <= ForkHeight(nodeTip, b)
    BY <2>1, <2>4, <2>5, <2>6
  <2> QED BY <2>2, <2>3, <2>4, <2>7, ForkKeeps
<1>4. CASE \E b \in Block : NodeRestart(b)
  <2>1. epoch' = epoch + 1
    BY <1>4 DEF NodeRestart
  <2> QED BY <1>1, <2>1
<1> QED BY <1>2, <1>3, <1>4 DEF NodeStep

\* The node writes lines.
LEMMA SteadyGrow ==
    ASSUME Steady, SteadyInv, TypeInv', NodeStep, epoch' = epoch, Longer(log0, log0')
    PROVE  SteadyInv'
<1>1. TypeInv /\ InitPhase /\ SavedPhase /\ WalkPhase /\ BatchPhase
  BY DEF SteadyInv
<1>2. UNCHANGED <<log1, rebuilt, savedEpoch, savedPos, base, pc, running, chain, pos0, todo,
                  epochRead, target, watched>>
  BY DEF NodeStep, fileVars, log1Vars, procVars
<1>3. NodeGood(log0, nodeTip) /\ NodeGood(log0', nodeTip')
  BY <1>1 DEF TypeInv
<1>4. log0 \in Seq(Line) /\ log0' \in Seq(Line) /\ log0[1].item \in Block /\ Len(log0) >= 1
  BY <1>3 DEF NodeGood
<1>5. log0'[1] = log0[1]
  <2>1. 1 \in 1..Len(log0)
    BY <1>4
  <2> QED BY <2>1 DEF Longer
<1>6. ASSUME NEW n, Copied(n) PROVE Copied(n)'
  <2>1. SameLines(log1, base, log0, n) /\ LastBlock(log1, Len(log1)) = LastBlock(log0, n)
    BY <1>6 DEF Copied
  <2>2. SameLines(log1, base, log0', n) /\ LastBlock(log0', n) = LastBlock(log0, n)
    BY <1>4, <2>1, SameLinesLonger
  <2> QED BY <1>2, <2>1, <2>2 DEF Copied
<1>7. Tip' = Tip
  BY <1>2 DEF Tip
<1>8. WalkPhase'
  BY <1>1, <1>2, <1>7 DEF WalkPhase
<1>9. ASSUME savedEpoch # epoch PROVE OnChain(log0'[1].item, nodeTip')
  <2>1. OnChain(log0[1].item, nodeTip)
    BY <1>1, <1>9 DEF SavedPhase
  <2>2. log0[1].item \in Blocks /\ Height[log0[1].item] <= Height[log0[1].item]
    BY <1>4, BelowOne DEF Blocks
  <2>3. OnChain(log0[1].item, nodeTip')
    BY <1>1, <1>9, <2>1, <2>2, NodeKeepsFirst
  <2> QED BY <1>5, <2>3
<1>10. ASSUME pc = "forward" PROVE OnChain(Tip, nodeTip')
  <2>1. savedEpoch # epoch /\ target = Height[log0[1].item] /\ Height[Tip] <= target /\ OnChain(Tip, nodeTip)
    BY <1>1, <1>10 DEF InitPhase
  <2>2. Tip \in Blocks
    BY <1>1, <1>10, TipFacts
  <2> QED BY <1>1, <2>1, <2>2, NodeKeepsFirst
<1>11. InitPhase'
  BY <1>1, <1>2, <1>5, <1>7, <1>10 DEF InitPhase
<1>12. SavedPhase'
  <2>1. savedEpoch' <= epoch' /\ (savedEpoch' # epoch' => OnChain(log0'[1].item, nodeTip'))
    BY <1>1, <1>2, <1>9 DEF SavedPhase
  <2>2. ASSUME NEW p, AtPos(p) PROVE p.epoch = epoch' /\ Copied(p.line)'
    BY <1>6, <2>2 DEF AtPos
  <2>3. pc = "status" => Copied(1)'
    BY <1>1, <1>6 DEF SavedPhase
  <2>4. AtPos(pos0) => AtPos(pos0)'
    BY <1>2, <2>2 DEF AtPos
  <2>5. AtPos(savedPos) => AtPos(savedPos)'
    BY <1>2, <2>2 DEF AtPos
  <2> QED BY <1>1, <1>2, <2>1, <2>3, <2>4, <2>5 DEF SavedPhase
<1>13. BatchPhase'
  <2> SUFFICES ASSUME pc = "batch"
               PROVE  /\ \E l \in Seq(Line), k \in Nat : FollowsLog(l, k, todo', Tip')
                      /\ savedEpoch = epoch =>
                            /\ pos0.epoch = epoch
                            /\ \E k \in Nat : /\ pos0.line = k + Len(todo)
                                              /\ FollowsLog(log0', k, todo', Tip') /\ Copied(k)'
    BY <1>2 DEF BatchPhase
  <2>1. \E l \in Seq(Line), k \in Nat : FollowsLog(l, k, todo', Tip')
    BY <1>1, <1>2, <1>7 DEF BatchPhase
  <2>2. ASSUME savedEpoch = epoch
        PROVE  \E k \in Nat : /\ pos0.line = k + Len(todo)
                              /\ FollowsLog(log0', k, todo', Tip') /\ Copied(k)'
    <3>1. PICK k \in Nat : pos0.line = k + Len(todo) /\ FollowsLog(log0, k, todo, Tip) /\ Copied(k)
      BY <1>1, <2>2 DEF BatchPhase
    <3>2. todo \in Seq(Line)
      BY <1>1 DEF TypeInv, TypeOK
    <3>3. FollowsLog(log0', k, todo, Tip)
      BY <1>3, <3>1, <3>2, FollowsLonger
    <3>4. Copied(k)'
      BY <1>6, <3>1
    <3> QED BY <1>2, <1>7, <3>1, <3>3, <3>4
  <2>3. savedEpoch = epoch => pos0.epoch = epoch
    BY <1>1 DEF BatchPhase
  <2> QED BY <2>1, <2>2, <2>3
<1> QED BY <1>8, <1>11, <1>12, <1>13 DEF SteadyInv

\* The node restarts, outside init(): what is saved is not used any more.
LEMMA SteadyRestart ==
    ASSUME SteadyInv, TypeInv', NEW b \in Block, NodeRestart(b), pc \in {"down", "run", "batch"},
           UNCHANGED <<fileVars, pc, procVars, boundVars>>
    PROVE  SteadyInv'
<1>1. TypeInv /\ SavedPhase /\ WalkPhase /\ BatchPhase
  BY DEF SteadyInv
<1>2. UNCHANGED <<log1, rebuilt, savedEpoch, savedPos, base, pc, running, chain, pos0, todo,
                  epochRead, target, watched>>
  BY DEF fileVars, log1Vars, procVars
<1>3. log0' = <<BlockLine(b)>> /\ epoch' = epoch + 1 /\ nodeTip' = b
  BY DEF NodeRestart
<1>4. log0'[1].item = b
  BY <1>3 DEF BlockLine
<1>5. OnChain(log0'[1].item, nodeTip')
  BY <1>3, <1>4, OwnChain
<1>6. savedEpoch \in Nat /\ epoch \in Nat /\ savedEpoch <= epoch
  BY <1>1 DEF TypeInv, TypeOK, SavedPhase
<1>7. savedEpoch' <= epoch' /\ savedEpoch' # epoch'
  BY <1>2, <1>3, <1>6
<1>8. Tip' = Tip
  BY <1>2 DEF Tip
<1>9. WalkPhase'
  BY <1>1, <1>2, <1>8 DEF WalkPhase
<1>10. InitPhase'
  BY <1>2 DEF InitPhase
<1>11. SavedPhase'
  BY <1>1, <1>2, <1>5, <1>7 DEF SavedPhase
<1>12. BatchPhase'
  BY <1>1, <1>2, <1>7, <1>8 DEF BatchPhase
<1> QED BY <1>9, <1>10, <1>11, <1>12 DEF SteadyInv

\* Every step keeps the invariant.
LEMMA SteadyStep ==
    ASSUME Steady, SteadyInv, DeepCopy, [Next]_vars
    PROVE  SteadyInv'
<1>1. TypeInv /\ TypeInv'
  BY TypeStep DEF SteadyInv
<1>2. CASE Producer
  <2>1. UNCHANGED log0Vars /\ (Start \/ Sync \/ Save \/ Run)
    BY <1>2 DEF Producer
  <2> QED BY <1>1, <2>1, SteadySync, SteadySave, SteadyRun
<1>3. CASE NodeStep
  <2>1. CASE epoch' = epoch /\ Longer(log0, log0')
    BY <1>1, <1>3, <2>1, SteadyGrow
  <2>2. CASE \E b \in Block : NodeRestart(b) /\ (QuietInit => pc \in {"down", "run", "batch"})
    <3>1. PICK b \in Block : NodeRestart(b) /\ pc \in {"down", "run", "batch"}
      BY <2>2 DEF Steady
    <3> QED BY <1>1, <1>3, <3>1, SteadyRestart DEF NodeStep
  <2>3. epoch \in Nat
    BY <1>1 DEF TypeInv, TypeOK
  <2>4. (epoch' = epoch /\ Longer(log0, log0')) \/ epoch' = epoch + 1
    BY <1>1, <1>3, NodeKeeps
  <2>5. (\E b \in Block : NodeRestart(b) /\ (QuietInit => pc \in {"down", "run", "batch"})) \/ epoch' = epoch
    BY <1>3 DEF NodeStep, NodeTx, NodeActivate
  <2> QED BY <2>1, <2>2, <2>3, <2>4, <2>5
<1>4. CASE Stop /\ UNCHANGED log0Vars
  <2>1. /\ pc \in StopPCs
        /\ UNCHANGED <<log0, epoch, nodeTip, log1, rebuilt, savedEpoch, savedPos, base, pc, chain, pos0, todo,
                       epochRead, target, watched>>
    BY <1>4 DEF Stop, log0Vars, fileVars, log1Vars
  <2>2. pc \notin {"clear", "first", "back", "forward"}
    BY <2>1 DEF Steady
  <2>3. Tip' = Tip
    BY <2>1 DEF Tip
  <2>4. InitPhase'
    BY <2>1, <2>2, <2>3 DEF SteadyInv, InitPhase
  <2>5. SavedPhase'
    BY <2>1 DEF SteadyInv, SavedPhase, AtPos, Copied
  <2>6. BatchPhase'
    BY <2>1, <2>3 DEF SteadyInv, BatchPhase, Copied
  <2>7. WalkPhase'
    BY <2>1, <2>3 DEF SteadyInv, WalkPhase
  <2> QED BY <1>1, <2>4, <2>5, <2>6, <2>7 DEF SteadyInv
<1>5. CASE Crash /\ UNCHANGED log0Vars
  <2>1. pc \in CrashPCs /\ Down /\ UNCHANGED <<log0Vars, fileVars>>
    BY <1>5 DEF Crash
  <2>2. pc \notin {"status", "batch"} /\ pc \in PCs
    BY <1>1, <2>1 DEF Steady, TypeInv, TypeOK
  <2>3. savedEpoch = epoch => AtPos(savedPos)
    BY <2>2 DEF SteadyInv, InitPhase, SavedPhase, PCs
  <2> QED BY <1>1, <2>1, <2>3, SteadyDown
<1>6. CASE UNCHANGED vars
  <2>1. UNCHANGED <<log0, epoch, nodeTip, log1, rebuilt, savedEpoch, savedPos, base, pc, running, chain,
                    pos0, todo, epochRead, target, watched>>
    BY <1>6 DEF vars, log0Vars, fileVars, log1Vars, procVars
  <2>2. Tip' = Tip
    BY <2>1 DEF Tip
  <2>3. InitPhase' /\ WalkPhase'
    BY <2>1, <2>2 DEF SteadyInv, InitPhase, WalkPhase
  <2>4. SavedPhase'
    BY <2>1 DEF SteadyInv, SavedPhase, AtPos, Copied
  <2>5. BatchPhase'
    BY <2>1, <2>2 DEF SteadyInv, BatchPhase, Copied
  <2> QED BY <1>1, <2>3, <2>4, <2>5 DEF SteadyInv
<1> QED BY <1>2, <1>3, <1>4, <1>5, <1>6 DEF Next

\* In a steady environment the blocks of log1, across restarts of the node and kills,
\* stops and starts of log1producer, are a walk in the block tree from the begin block
\* on (syncBitcoind(), run()): log2producer can follow it.
THEOREM Log1IsWalk == Steady => (Spec /\ []DeepCopy => []Log1Walk)
<1> SUFFICES ASSUME Steady PROVE Spec /\ []DeepCopy => []Log1Walk
  OBVIOUS
<1>1. Init => SteadyInv
  BY SteadyInit
<1>2. SteadyInv /\ DeepCopy /\ [Next]_vars => SteadyInv'
  BY SteadyStep
<1>3. SteadyInv => Log1Walk
  BY WalkIsLog1Walk DEF SteadyInv, WalkPhase
<1> QED BY <1>1, <1>2, <1>3, PTL DEF Spec

\* Under the same conditions, between two batches the position belongs to the log0
\* that is read, and log1 holds since the last walk exactly the lines up to it: none
\* is lost, repeated or out of order (tryReadLog0(), writeLog0IdxOffset()).
THEOREM CopiedOnce == Steady => (Spec /\ []DeepCopy => []CopiesLog0)
<1> SUFFICES ASSUME Steady PROVE Spec /\ []DeepCopy => []CopiesLog0
  OBVIOUS
<1>1. Init => SteadyInv
  BY SteadyInit
<1>2. SteadyInv /\ DeepCopy /\ [Next]_vars => SteadyInv'
  BY SteadyStep
<1>3. SteadyInv => CopiesLog0
  <2> SUFFICES ASSUME SteadyInv, pc = "run", watched = epoch
               PROVE  /\ pos0.epoch = epoch /\ savedEpoch = epoch
                      /\ SubSeq(log1, base + 1, Len(log1)) = SubSeq(log0, 2, pos0.line)
    BY DEF CopiesLog0
  <2>1. savedEpoch = epoch /\ AtPos(pos0)
    BY DEF SteadyInv, SavedPhase
  <2>2. pos0.epoch = epoch /\ SameLines(log1, base, log0, pos0.line)
    BY <2>1 DEF AtPos, Copied
  <2>3. log1 \in Seq(AnyLine) /\ log0 \in Seq(Line)
    BY DEF SteadyInv, TypeInv, TypeOK, AnyLine
  <2>4. SubSeq(log1, base + 1, Len(log1)) = SubSeq(log0, 2, pos0.line)
    BY <2>2, <2>3, SameSubSeq
  <2> QED BY <2>1, <2>2, <2>4
<1> QED BY <1>1, <1>2, <1>3, PTL DEF Spec

\* Under the same conditions, once every line of log0 is copied, chain_ and log1 have
\* the tip of the node.
THEOREM TipsAgree == Steady => (Spec /\ []DeepCopy => []TipMatches)
<1> SUFFICES ASSUME Steady PROVE Spec /\ []DeepCopy => []TipMatches
  OBVIOUS
<1>1. Init => SteadyInv
  BY SteadyInit
<1>2. SteadyInv /\ DeepCopy /\ [Next]_vars => SteadyInv'
  BY SteadyStep
<1>3. SteadyInv => TipMatches
  <2> SUFFICES ASSUME SteadyInv, CaughtUp
               PROVE  Tip = nodeTip /\ LastBlock(log1, Len(log1)) = nodeTip
    BY DEF TipMatches
  <2>1. pc = "run" /\ watched = epoch /\ pos0.line = Len(log0)
    BY DEF CaughtUp
  <2>2. AtPos(pos0)
    BY <2>1 DEF SteadyInv, SavedPhase
  <2>3. LastBlock(log1, Len(log1)) = LastBlock(log0, Len(log0))
    BY <2>1, <2>2 DEF AtPos, Copied
  <2>4. LastBlock(log0, Len(log0)) = nodeTip
    BY DEF SteadyInv, TypeInv, NodeGood
  <2>5. Tip = LastBlock(log1, Len(log1))
    BY <2>1 DEF SteadyInv, WalkPhase
  <2> QED BY <2>3, <2>4, <2>5
<1> QED BY <1>1, <1>2, <1>3, PTL DEF Spec
=============================================================================
