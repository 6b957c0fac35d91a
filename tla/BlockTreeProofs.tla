-------------------------- MODULE BlockTreeProofs --------------------------
(***************************************************************************)
(* Facts about the block tree for every tree: induction along the chain,   *)
(* and that the recursive definition of Chain computes what it says.  And  *)
(* the same for SumOver, for every finite set.                             *)
(***************************************************************************)
EXTENDS BlockTree, SetSums, FiniteSetTheorems, SequenceTheorems, WellFoundedInduction, TLAPS

-----------------------------------------------------------------------------
(* Induction, over sets instead of predicates. *)

\* A set of natural numbers has a least element.
LEMMA NatMin ==
    ASSUME NEW T \in SUBSET Nat, T # {}
    PROVE  \E x \in T : \A y \in T : x <= y
<1>1. PICK m \in T : TRUE
  OBVIOUS
<1> DEFINE S == 0..m
           F == {0..(n - 1) : n \in {k \in T : k <= m}}
<1>2. IsFiniteSet(S)
  BY FS_Interval
<1>3. F \subseteq FiniteSubsetsOf(S)
  <2> SUFFICES ASSUME NEW X \in F PROVE X \in FiniteSubsetsOf(S)
    OBVIOUS
  <2>1. PICK n \in T : n <= m /\ X = 0..(n - 1)
    OBVIOUS
  <2>2. X \in SUBSET S
    BY <2>1
  <2>3. IsFiniteSet(X)
    BY <2>1, FS_Interval
  <2> QED BY <2>2, <2>3 DEF FiniteSubsetsOf
<1>4. F # {}
  OBVIOUS
<1>5. IsWellFoundedOn(StrictSubsetOrdering(S), FiniteSubsetsOf(S))
  BY <1>2, FS_StrictSubsetOrderingWellFounded
<1>6. PICK X \in F : \A Y \in F : ~(<<Y, X>> \in StrictSubsetOrdering(S))
  BY <1>3, <1>4, <1>5, WFMin
<1>7. PICK x \in T : x <= m /\ X = 0..(x - 1)
  OBVIOUS
<1>8. ASSUME NEW y \in T, y < x PROVE FALSE
  <2>1. 0..(y - 1) \in F
    BY <1>7, <1>8
  <2>2. 0..(y - 1) \subseteq X /\ 0..(y - 1) # X
    <3>1. y \in X /\ y \notin 0..(y - 1)
      BY <1>7, <1>8
    <3> QED BY <1>7, <1>8, <3>1
  <2>3. X \in SUBSET S /\ 0..(y - 1) \in SUBSET S
    BY <1>7, <1>8
  <2> QED BY <1>6, <2>1, <2>2, <2>3 DEF StrictSubsetOrdering
<1> QED BY <1>7, <1>8

\* A set of blocks that has the begin block and, with a block, the blocks on top
\* of it, has all blocks.
LEMMA TreeInduction ==
    ASSUME NEW X, Begin \in X, \A b \in Block : Prev[b] \in X => b \in X
    PROVE  Block \cup {Begin} \subseteq X
<1> SUFFICES ASSUME NEW z \in Block \cup {Begin}, z \notin X PROVE FALSE
  OBVIOUS
<1> DEFINE T == {Height[b] : b \in (Block \cup {Begin}) \ X}
<1>1. T \in SUBSET Nat /\ T # {}
  BY BlockTreeAssumption
<1>2. PICK h \in T : \A g \in T : h <= g
  BY <1>1, NatMin
<1>3. PICK b \in (Block \cup {Begin}) \ X : h = Height[b]
  BY <1>2
<1>4. b \in Block /\ Prev[b] \in Block \cup {Begin} /\ Height[b] = Height[Prev[b]] + 1
  BY <1>3, BlockTreeAssumption
<1>5. Prev[b] \notin X
  BY <1>3, <1>4
<1>6. Height[Prev[b]] \in T
  BY <1>4, <1>5
<1>7. Height[Prev[b]] \in Nat
  BY <1>1, <1>6
<1>8. h <= Height[Prev[b]]
  BY <1>2, <1>6
<1>9. h = Height[Prev[b]] + 1
  BY <1>3, <1>4
<1> HIDE DEF T
<1> QED BY <1>7, <1>8, <1>9

-----------------------------------------------------------------------------
(* The chain of a block. *)

Closed(X) == \A d \in X : d \in Block => Prev[d] \in X

\* The blocks of every closed set that has b.
Below(b) == {c \in Block \cup {Begin} :
                \A X \in SUBSET (Block \cup {Begin}) : b \in X /\ Closed(X) => c \in X}

\* What is below a block: its parent and what is below that.
LEMMA BelowFacts ==
    /\ Below(Begin) = {Begin}
    /\ \A b \in Block : Below(b) = {b} \cup Below(Prev[b])
    /\ \A b \in Block \cup {Begin} : \A c \in Below(b) : Height[c] <= Height[b]
<1> DEFINE S == Block \cup {Begin}
<1>1. ASSUME NEW b \in S PROVE b \in Below(b) /\ Closed(Below(b)) /\ Below(b) \subseteq S
  <2>1. b \in Below(b) /\ Below(b) \subseteq S
    BY DEF Below
  <2>2. Closed(Below(b))
    <3> SUFFICES ASSUME NEW d \in Below(b), d \in Block PROVE Prev[d] \in Below(b)
      BY DEF Closed
    <3>1. Prev[d] \in S
      BY BlockTreeAssumption
    <3>2. ASSUME NEW X \in SUBSET S, b \in X, Closed(X) PROVE Prev[d] \in X
      BY <3>2 DEF Below, Closed
    <3> QED BY <3>1, <3>2 DEF Below
  <2> QED BY <2>1, <2>2
<1>2. ASSUME NEW b \in S, NEW X \in SUBSET S, b \in X, Closed(X) PROVE Below(b) \subseteq X
  BY <1>2 DEF Below
<1>3. Below(Begin) = {Begin}
  <2>1. Closed({Begin})
    BY BlockTreeAssumption DEF Closed
  <2> QED BY <1>1, <1>2, <2>1
<1>4. ASSUME NEW b \in Block PROVE Below(b) = {b} \cup Below(Prev[b])
  <2>1. Prev[b] \in S
    BY BlockTreeAssumption
  <2>2. Closed({b} \cup Below(Prev[b]))
    BY <1>1, <2>1 DEF Closed
  <2>3. {b} \cup Below(Prev[b]) \in SUBSET S
    BY <1>1, <2>1
  <2>4. Below(b) \subseteq {b} \cup Below(Prev[b])
    BY <1>2, <2>2, <2>3
  <2>5. b \in Below(b) /\ Prev[b] \in Below(b) /\ Closed(Below(b)) /\ Below(b) \in SUBSET S
    BY <1>1 DEF Closed
  <2>6. Below(Prev[b]) \subseteq Below(b)
    BY <1>2, <2>1, <2>5
  <2> QED BY <2>4, <2>5, <2>6
<1>5. ASSUME NEW b \in S, NEW c \in Below(b) PROVE Height[c] <= Height[b]
  <2> DEFINE X == {d \in S : Height[d] <= Height[b]}
  <2>1. ASSUME NEW d \in X, d \in Block PROVE Prev[d] \in X
    <3>1. /\ Prev[d] \in S /\ Height[d] = Height[Prev[d]] + 1
          /\ Height[d] \in Nat /\ Height[Prev[d]] \in Nat /\ Height[b] \in Nat
      BY <2>1, BlockTreeAssumption
    <3> QED BY <3>1
  <2>2. Closed(X)
    BY <2>1 DEF Closed
  <2>3. b \in X
    BY BlockTreeAssumption
  <2> QED BY <1>2, <1>5, <2>2, <2>3
<1> QED BY <1>3, <1>4, <1>5

\* One block per height.
LEMMA BelowHeights ==
    ASSUME NEW b \in Block \cup {Begin}
    PROVE  \A h \in Height[Begin]..Height[b] :
              \E c \in Below(b) : /\ Height[c] = h
                                  /\ \A d \in Below(b) : Height[d] = h => d = c
<1> DEFINE X == {x \in Block \cup {Begin} : \A h \in Height[Begin]..Height[x] :
                    \E c \in Below(x) : /\ Height[c] = h
                                        /\ \A d \in Below(x) : Height[d] = h => d = c}
<1>1. Begin \in X
  BY BelowFacts, BlockTreeAssumption
<1>2. ASSUME NEW x \in Block, Prev[x] \in X PROVE x \in X
  <2>1. /\ Height[x] = Height[Prev[x]] + 1 /\ Prev[x] \in Block \cup {Begin}
        /\ Height[x] \in Nat /\ Height[Prev[x]] \in Nat /\ Height[Begin] \in Nat
    BY BlockTreeAssumption
  <2>2. Below(x) = {x} \cup Below(Prev[x]) /\ \A c \in Below(Prev[x]) : Height[c] <= Height[Prev[x]]
    BY <2>1, BelowFacts
  <2> SUFFICES ASSUME NEW h \in Height[Begin]..Height[x]
               PROVE  \E c \in Below(x) : /\ Height[c] = h
                                          /\ \A d \in Below(x) : Height[d] = h => d = c
    OBVIOUS
  <2>3. CASE h = Height[x]
    <3>1. \A c \in Below(Prev[x]) : Height[c] # h
      BY <2>1, <2>2, <2>3
    <3> QED BY <2>2, <2>3, <3>1
  <2>4. CASE h # Height[x]
    <3>1. h \in Height[Begin]..Height[Prev[x]]
      BY <2>1, <2>4
    <3>2. PICK c \in Below(Prev[x]) : /\ Height[c] = h
                                      /\ \A d \in Below(Prev[x]) : Height[d] = h => d = c
      BY <1>2, <3>1
    <3> QED BY <2>2, <2>4, <3>2
  <2> QED BY <2>3, <2>4
<1>3. b \in X
  BY <1>1, <1>2, TreeInduction
<1> QED BY <1>3

\* Chain satisfies its recursive definition.
LEMMA ChainDef ==
    \A b \in Block \cup {Begin} :
        Chain[b] = IF b = Begin THEN <<Begin>> ELSE Append(Chain[Prev[b]], b)
<1> DEFINE S == Block \cup {Begin}
           n(b) == Height[b] - Height[Begin] + 1
           at(b, i) == CHOOSE c \in Below(b) : Height[c] = Height[Begin] + i - 1
           g == [b \in S |-> [i \in 1..n(b) |-> at(b, i)]]
           Def(f) == [b \in S |-> IF b = Begin THEN <<Begin>> ELSE Append(f[Prev[b]], b)]
<1>1. ASSUME NEW b \in S, NEW i \in 1..n(b)
      PROVE  /\ at(b, i) \in Below(b) /\ Height[at(b, i)] = Height[Begin] + i - 1
             /\ \A d \in Below(b) : Height[d] = Height[Begin] + i - 1 => d = at(b, i)
  <2>1. Height[b] \in Nat /\ Height[Begin] \in Nat
    BY BlockTreeAssumption
  <2>2. Height[Begin] + i - 1 \in Height[Begin]..Height[b]
    BY <2>1
  <2> QED BY <2>2, BelowHeights
<1>2. g[Begin] = <<Begin>>
  <2>1. n(Begin) = 1
    BY BlockTreeAssumption
  <2>2. at(Begin, 1) = Begin
    BY <1>1, <2>1, BelowFacts
  <2> QED BY <2>1, <2>2
<1>3. ASSUME NEW b \in Block PROVE g[b] = Append(g[Prev[b]], b)
  <2>1. /\ Height[b] = Height[Prev[b]] + 1 /\ Prev[b] \in S /\ Height[Prev[b]] >= Height[Begin]
        /\ Height[b] \in Nat /\ Height[Prev[b]] \in Nat /\ Height[Begin] \in Nat
    BY BlockTreeAssumption
  <2>2. n(b) = n(Prev[b]) + 1 /\ n(Prev[b]) \in Nat
    BY <2>1
  <2>3. Below(b) = {b} \cup Below(Prev[b])
    BY BelowFacts
  <2>4. ASSUME NEW i \in 1..n(Prev[b]) PROVE at(b, i) = at(Prev[b], i)
    <3>1. at(Prev[b], i) \in Below(b) /\ Height[at(Prev[b], i)] = Height[Begin] + i - 1
      BY <1>1, <2>1, <2>3, <2>4
    <3>2. i \in 1..n(b)
      BY <2>2
    <3>3. \A d \in Below(b) : Height[d] = Height[Begin] + i - 1 => d = at(b, i)
      BY <1>1, <3>2
    <3> QED BY <3>1, <3>3
  <2>5. at(b, n(b)) = b
    <3>1. n(b) \in 1..n(b) /\ Height[b] = Height[Begin] + n(b) - 1
      BY <2>1, <2>2
    <3>2. \A d \in Below(b) : Height[d] = Height[Begin] + n(b) - 1 => d = at(b, n(b))
      BY <1>1, <3>1
    <3> QED BY <2>3, <3>1, <3>2
  <2> HIDE DEF n, at
  <2>6. g[b] = [i \in 1..n(b) |-> at(b, i)]
    OBVIOUS
  <2>7. g[Prev[b]] = [i \in 1..n(Prev[b]) |-> at(Prev[b], i)]
    BY <2>1
  <2> HIDE DEF g
  <2>8. PICK m \in Nat : m = n(Prev[b]) /\ n(b) = m + 1
    BY <2>2
  <2>9. PICK s : s = g[Prev[b]]
    OBVIOUS
  <2> DEFINE U == {at(Prev[b], i) : i \in 1..m} \cup {b}
  <2>10. s \in Seq(U) /\ Len(s) = m
    BY <2>7, <2>8, <2>9
  <2>11. \A i \in 1..m : s[i] = at(b, i)
    BY <2>4, <2>7, <2>8, <2>9
  <2>12. Append(s, b) = [i \in 1..(m + 1) |-> IF i = m + 1 THEN b ELSE s[i]]
    <3>1. b \in U
      OBVIOUS
    <3> HIDE DEF U
    <3>2. PICK q : q = Append(s, b)
      OBVIOUS
    <3>3. /\ q \in Seq(U) /\ Len(q) = m + 1
          /\ \A i \in 1..m : q[i] = s[i]
          /\ q[m + 1] = b
      BY <2>10, <3>1, <3>2, AppendProperties
    <3>4. q = [i \in 1..(m + 1) |-> q[i]]
      BY <3>3
    <3>5. \A i \in 1..(m + 1) : q[i] = IF i = m + 1 THEN b ELSE s[i]
      BY <3>3
    <3> QED BY <3>2, <3>4, <3>5
  <2>13. g[b] = [i \in 1..(m + 1) |-> IF i = m + 1 THEN b ELSE s[i]]
    <3>1. \A i \in 1..(m + 1) : at(b, i) = IF i = m + 1 THEN b ELSE s[i]
      BY <2>5, <2>8, <2>11
    <3> QED BY <2>6, <2>8, <3>1
  <2> QED BY <2>9, <2>12, <2>13
<1> HIDE DEF g
<1>4. g = Def(g)
  <2>1. g = [b \in S |-> g[b]]
    BY DEF g
  <2>2. \A b \in S : g[b] = IF b = Begin THEN <<Begin>> ELSE Append(g[Prev[b]], b)
    BY <1>2, <1>3
  <2> QED BY <2>1, <2>2
<1>5. Chain = CHOOSE f : f = Def(f)
  BY DEF Chain
<1> HIDE DEF Def
<1>6. Chain = Def(Chain)
  BY <1>4, <1>5
<1> QED BY <1>6 DEF Def

\* A chain is a sequence of the blocks below its tip.
LEMMA ChainRange ==
    ASSUME NEW b \in Block \cup {Begin}
    PROVE  /\ Chain[b] \in Seq(Block \cup {Begin})
           /\ {Chain[b][i] : i \in 1..Len(Chain[b])} = Below(b)
<1> DEFINE S == Block \cup {Begin}
           X == {x \in S : /\ Chain[x] \in Seq(S)
                           /\ {Chain[x][i] : i \in 1..Len(Chain[x])} = Below(x)}
<1>1. Begin \in X
  <2>1. PICK q : q = Chain[Begin]
    OBVIOUS
  <2>2. q = <<Begin>>
    BY <2>1, ChainDef
  <2>3. Len(q) = 1 /\ q[1] = Begin /\ q \in Seq(S)
    BY <2>2
  <2>4. {q[i] : i \in 1..Len(q)} = Below(Begin)
    BY <2>3, BelowFacts
  <2> QED BY <2>1, <2>3, <2>4
<1>2. ASSUME NEW x \in Block, Prev[x] \in X PROVE x \in X
  <2>1. Prev[x] \in S
    BY BlockTreeAssumption
  <2>2. PICK s : s = Chain[Prev[x]]
    OBVIOUS
  <2>3. s \in Seq(S) /\ {s[i] : i \in 1..Len(s)} = Below(Prev[x])
    BY <1>2, <2>2
  <2>4. Chain[x] = Append(s, x)
    BY <2>2, ChainDef, BlockTreeAssumption
  <2>5. PICK q : q = Chain[x]
    OBVIOUS
  <2>6. /\ q \in Seq(S) /\ Len(q) = Len(s) + 1 /\ Len(s) \in Nat
        /\ \A i \in 1..Len(s) : q[i] = s[i]
        /\ q[Len(s) + 1] = x
    BY <2>3, <2>4, <2>5, AppendProperties
  <2>7. {q[i] : i \in 1..Len(q)} = {s[i] : i \in 1..Len(s)} \cup {x}
    BY <2>6
  <2>8. {q[i] : i \in 1..Len(q)} = Below(x)
    BY <2>3, <2>7, BelowFacts
  <2> QED BY <2>5, <2>6, <2>8
<1>3. b \in X
  BY <1>1, <1>2, TreeInduction
<1> QED BY <1>3

-----------------------------------------------------------------------------
(* Chains and the way between two of them. *)

\* Counting up: a set that has 0 and with n also n + 1 has every number up to m.
LEMMA UpTo ==
    ASSUME NEW m \in Nat, NEW X, 0 \in X, \A n \in 0..(m - 1) : n \in X => n + 1 \in X
    PROVE  0..m \subseteq X
<1> SUFFICES ASSUME NEW z \in 0..m, z \notin X PROVE FALSE
  OBVIOUS
<1> DEFINE T == (0..m) \ X
<1>1. T \in SUBSET Nat /\ T # {}
  OBVIOUS
<1>2. PICK x \in T : \A y \in T : x <= y
  BY <1>1, NatMin
<1>3. x \in 1..m /\ x \notin X
  BY <1>2
<1>4. x - 1 \in 0..(m - 1) /\ (x - 1) + 1 = x
  BY <1>3
<1>5. x - 1 \in X
  <2> SUFFICES ASSUME x - 1 \notin X PROVE FALSE
    OBVIOUS
  <2>1. x - 1 \in T
    BY <1>4
  <2> QED BY <1>2, <1>3, <2>1
<1> QED BY <1>3, <1>4, <1>5

\* A chain starts at the begin block, ends at its tip, and its blocks follow each
\* other by Prev, one height after the other.
LEMMA ChainShape ==
    ASSUME NEW b \in Block \cup {Begin}
    PROVE  /\ Chain[b] \in Seq(Block \cup {Begin})
           /\ Len(Chain[b]) = Height[b] - Height[Begin] + 1
           /\ Len(Chain[b]) >= 1
           /\ Chain[b][1] = Begin
           /\ Chain[b][Len(Chain[b])] = b
           /\ \A i \in 1..Len(Chain[b]) : Height[Chain[b][i]] = Height[Begin] + i - 1
           /\ \A i \in 2..Len(Chain[b]) : Chain[b][i] \in Block /\ Prev[Chain[b][i]] = Chain[b][i - 1]
<1> DEFINE S == Block \cup {Begin}
           P(q, x) == /\ q \in Seq(S) /\ Len(q) = Height[x] - Height[Begin] + 1 /\ Len(q) >= 1
                      /\ q[1] = Begin /\ q[Len(q)] = x
                      /\ \A i \in 1..Len(q) : Height[q[i]] = Height[Begin] + i - 1
                      /\ \A i \in 2..Len(q) : q[i] \in Block /\ Prev[q[i]] = q[i - 1]
           X == {x \in S : P(Chain[x], x)}
<1>1. Begin \in X
  <2>1. PICK q : q = Chain[Begin]
    OBVIOUS
  <2>2. q = <<Begin>>
    BY <2>1, ChainDef
  <2>3. Height[Begin] \in Nat
    BY BlockTreeAssumption
  <2>4. P(q, Begin)
    BY <2>2, <2>3
  <2> QED BY <2>1, <2>4
<1>2. ASSUME NEW x \in Block, Prev[x] \in X PROVE x \in X
  <2>1. /\ Prev[x] \in S /\ Height[x] = Height[Prev[x]] + 1
        /\ Height[x] \in Nat /\ Height[Prev[x]] \in Nat /\ Height[Begin] \in Nat
    BY BlockTreeAssumption
  <2>2. PICK s : s = Chain[Prev[x]]
    OBVIOUS
  <2>3. P(s, Prev[x])
    BY <1>2, <2>2
  <2>4. Chain[x] = Append(s, x)
    BY <2>2, ChainDef, BlockTreeAssumption
  <2>5. PICK q : q = Chain[x]
    OBVIOUS
  <2>6. /\ q \in Seq(S) /\ Len(q) = Len(s) + 1 /\ Len(s) \in Nat
        /\ \A i \in 1..Len(s) : q[i] = s[i]
        /\ q[Len(s) + 1] = x
    BY <2>3, <2>4, <2>5, AppendProperties
  <2>7. Len(q) = Height[x] - Height[Begin] + 1 /\ Len(q) >= 1
    BY <2>1, <2>3, <2>6
  <2>8. q[1] = Begin /\ q[Len(q)] = x
    BY <2>3, <2>6
  <2>9. ASSUME NEW i \in 1..Len(q) PROVE Height[q[i]] = Height[Begin] + i - 1
    <3>1. CASE i \in 1..Len(s)
      BY <2>3, <2>6, <3>1
    <3>2. CASE i = Len(s) + 1
      BY <2>1, <2>3, <2>6, <3>2
    <3> QED BY <2>6, <3>1, <3>2
  <2>10. ASSUME NEW i \in 2..Len(q) PROVE q[i] \in Block /\ Prev[q[i]] = q[i - 1]
    <3>1. CASE i \in 2..Len(s)
      <4>1. q[i] = s[i] /\ q[i - 1] = s[i - 1]
        BY <2>6, <3>1
      <4> QED BY <2>3, <3>1, <4>1
    <3>2. CASE i = Len(s) + 1
      <4>1. q[i] = x /\ q[i - 1] = s[Len(s)]
        BY <2>3, <2>6, <3>2
      <4> QED BY <2>3, <4>1
    <3> QED BY <2>6, <3>1, <3>2
  <2>11. P(q, x)
    BY <2>6, <2>7, <2>8, <2>9, <2>10
  <2> QED BY <2>5, <2>11
<1>3. b \in X
  BY <1>1, <1>2, TreeInduction
<1> QED BY <1>3

\* CommonLen is where two chains part: they agree up to there, and not beyond.
LEMMA CommonPart ==
    ASSUME NEW a \in Block \cup {Begin}, NEW b \in Block \cup {Begin},
           NEW c, NEW d, c = Chain[a], d = Chain[b],
           NEW k, k = CommonLen(c, d)
    PROVE  /\ k \in 1..Len(c) /\ k <= Len(d)
           /\ \A i \in 1..k : c[i] = d[i]
           /\ (k < Len(c) /\ k < Len(d)) => c[k + 1] # d[k + 1]
<1> DEFINE S == Block \cup {Begin}
           Parts(j) == /\ j <= Len(d) /\ c[j] = d[j]
                       /\ (j < Len(c) /\ j < Len(d)) => c[j + 1] # d[j + 1]
<1>1. /\ c \in Seq(S) /\ Len(c) \in Nat /\ Len(c) >= 1 /\ c[1] = Begin
      /\ \A i \in 2..Len(c) : c[i] \in Block /\ Prev[c[i]] = c[i - 1]
  BY ChainShape
<1>2. /\ d \in Seq(S) /\ Len(d) \in Nat /\ Len(d) >= 1 /\ d[1] = Begin
      /\ \A i \in 2..Len(d) : d[i] \in Block /\ Prev[d[i]] = d[i - 1]
  BY ChainShape
<1>3. \E j \in 1..Len(c) : Parts(j)
  <2> DEFINE n == IF Len(c) <= Len(d) THEN Len(c) ELSE Len(d)
             T == {j \in 0..(n - 1) : c[n - j] = d[n - j]}
  <2>1. n \in Nat /\ n >= 1 /\ n <= Len(c) /\ n <= Len(d) /\ (n = Len(c) \/ n = Len(d))
    BY <1>1, <1>2
  <2> HIDE DEF n
  <2>2. n - 1 \in 0..(n - 1) /\ n - (n - 1) = 1
    BY <2>1
  <2>3. n - 1 \in T
    BY <1>1, <1>2, <2>2
  <2>4. T \in SUBSET Nat /\ T # {}
    <3>1. 0..(n - 1) \subseteq Nat
      BY <2>1
    <3>2. T \subseteq 0..(n - 1)
      OBVIOUS
    <3> HIDE DEF T
    <3> QED BY <2>3, <3>1, <3>2
  <2>5. PICK j \in T : \A i \in T : j <= i
    BY <2>4, NatMin
  <2>6. PICK m : m = n - j
    OBVIOUS
  <2>7. j \in 0..(n - 1) /\ c[m] = d[m]
    BY <2>5, <2>6
  <2>8. m \in 1..Len(c) /\ m <= Len(d) /\ m <= n
    BY <2>1, <2>6, <2>7
  <2>9. ASSUME m < Len(c), m < Len(d), c[m + 1] = d[m + 1] PROVE FALSE
    <3>1. m + 1 <= n
      BY <2>1, <2>8, <2>9
    <3>2. j - 1 \in 0..(n - 1) /\ n - (j - 1) = m + 1
      BY <2>1, <2>6, <2>7, <2>8, <3>1
    <3>3. j - 1 \in T
      BY <2>9, <3>2
    <3>4. j <= j - 1
      BY <2>5, <3>3
    <3> QED BY <2>7, <3>4
  <2> QED BY <2>7, <2>8, <2>9
<1>4. k \in 1..Len(c) /\ Parts(k)
  BY <1>3 DEF CommonLen
<1>5. ASSUME NEW i \in 1..k PROVE c[i] = d[i]
  <2> DEFINE X == {x \in 0..(k - 1) : c[k - x] = d[k - x]}
  <2>1. k - 1 \in Nat /\ k \in Nat /\ k - 0 = k
    BY <1>4, <1>1
  <2>2. 0 \in X
    BY <1>4, <2>1
  <2>3. ASSUME NEW x \in 0..((k - 1) - 1), x \in X PROVE x + 1 \in X
    <3>0. Len(c) \in Nat /\ Len(d) \in Nat /\ k <= Len(c) /\ k <= Len(d)
      BY <1>1, <1>2, <1>4
    <3>1. PICK y : y = k - x
      OBVIOUS
    <3>2. y \in 2..Len(c) /\ y \in 2..Len(d) /\ y - 1 = k - (x + 1) /\ x + 1 \in 0..(k - 1)
      BY <2>1, <3>0, <3>1
    <3>3. c[y] = d[y]
      BY <2>3, <3>1
    <3>4. Prev[c[y]] = c[y - 1] /\ Prev[d[y]] = d[y - 1]
      BY <1>1, <1>2, <3>2
    <3>5. c[y - 1] = d[y - 1]
      BY <3>3, <3>4
    <3> QED BY <3>2, <3>5
  <2>4. 0..(k - 1) \subseteq X
    <3> HIDE DEF X
    <3> QED BY <2>1, <2>2, <2>3, UpTo
  <2>5. k - i \in 0..(k - 1) /\ k - (k - i) = i
    BY <2>1
  <2>6. k - i \in X
    BY <2>4, <2>5
  <2> QED BY <2>5, <2>6
<1> QED BY <1>4, <1>5

\* A walk that starts at a: its 0th block is a.
WayAt(a, w, i) == IF i = 0 THEN a ELSE w[i]
Walks(a, w) == \A i \in 1..Len(w) : Adjacent(WayAt(a, w, i - 1), w[i])
Climbs(a, w) == \A i \in 1..Len(w) : w[i] \in Block /\ Prev[w[i]] = WayAt(a, w, i - 1)

\* The way between two blocks is a walk: each of its blocks is adjacent to the
\* one before, and it ends at b; where no block is undone it only goes up.
LEMMA WayWalk ==
    ASSUME NEW a \in Block \cup {Begin}, NEW b \in Block \cup {Begin}, NEW w, w = Way(a, b)
    PROVE  /\ w \in Seq(Block \cup {Begin}) /\ Len(w) \in Nat
           /\ Walks(a, w) /\ WayAt(a, w, Len(w)) = b
           /\ CommonLen(Chain[a], Chain[b]) = Len(Chain[a]) => Climbs(a, w)
<1> DEFINE S == Block \cup {Begin}
<1>1. PICK c, d, k : c = Chain[a] /\ d = Chain[b] /\ k = CommonLen(c, d)
  OBVIOUS
<1>2. PICK u, v : u = [i \in 1..(Len(c) - k) |-> c[Len(c) - i]] /\ v = SubSeq(d, k + 1, Len(d))
  OBVIOUS
<1>3. w = u \o v
  BY <1>1, <1>2 DEF Way
<1>4. /\ c \in Seq(S) /\ Len(c) \in Nat /\ Len(c) = Height[a] - Height[Begin] + 1 /\ c[Len(c)] = a
      /\ \A i \in 2..Len(c) : c[i] \in Block /\ Prev[c[i]] = c[i - 1]
      /\ \A i \in 1..Len(c) : c[i] \in S
  BY <1>1, ChainShape
<1>5. /\ d \in Seq(S) /\ Len(d) \in Nat /\ Len(d) = Height[b] - Height[Begin] + 1 /\ d[Len(d)] = b
      /\ \A i \in 2..Len(d) : d[i] \in Block /\ Prev[d[i]] = d[i - 1]
      /\ \A i \in 1..Len(d) : d[i] \in S
  BY <1>1, ChainShape
<1>6. k \in 1..Len(c) /\ k <= Len(d) /\ c[k] = d[k]
  BY <1>1, <1>4, CommonPart
<1>8. PICK m, n : m = Len(c) - k /\ n = Len(d) - k
  OBVIOUS
<1>9. m \in Nat /\ n \in Nat /\ m < Len(c) /\ k \in Nat /\ k >= 1
  BY <1>4, <1>5, <1>6, <1>8
<1>10. u \in Seq(S) /\ Len(u) = m /\ \A i \in 1..m : u[i] = c[Len(c) - i]
  <2>1. ASSUME NEW i \in 1..m PROVE c[Len(c) - i] \in S
    <3>1. Len(c) - i \in 1..Len(c)
      BY <1>4, <1>6, <1>8
    <3> QED BY <1>4, <3>1
  <2>2. u = [i \in 1..m |-> c[Len(c) - i]]
    BY <1>2, <1>8
  <2>3. u \in [1..m -> S]
    BY <2>1, <2>2
  <2> QED BY <1>9, <2>2, <2>3
<1>11. v \in Seq(S) /\ Len(v) = n /\ \A i \in 1..n : v[i] = d[k + i]
  <2>1. k + 1 \in 1..(Len(d) + 1) /\ Len(d) \in 0..Len(d)
    BY <1>5, <1>6, <1>9
  <2>2. /\ v \in Seq(S) /\ Len(v) = IF k + 1 <= Len(d) THEN Len(d) - (k + 1) + 1 ELSE 0
        /\ \A i \in 1..(Len(d) - (k + 1) + 1) : v[i] = d[(k + 1) + i - 1]
    BY <1>2, <1>5, <2>1, SubSeqProperties
  <2>3. PICK f \in Nat : f = Len(d)
    BY <1>5
  <2>4. f - (k + 1) + 1 = n /\ (IF k + 1 <= f THEN f - (k + 1) + 1 ELSE 0) = n
    BY <1>6, <1>8, <1>9, <2>3
  <2>5. \A i \in 1..n : (k + 1) + i - 1 = k + i
    BY <1>9
  <2> QED BY <2>2, <2>3, <2>4, <2>5
<1>12. /\ w \in Seq(S) /\ Len(w) = m + n
       /\ \A i \in 1..(m + n) : w[i] = IF i <= m THEN u[i] ELSE v[i - m]
  <2>1. /\ u \o v \in Seq(S) /\ Len(u \o v) = Len(u) + Len(v)
        /\ \A i \in 1..(Len(u) + Len(v)) :
              (u \o v)[i] = IF i <= Len(u) THEN u[i] ELSE v[i - Len(u)]
    BY <1>10, <1>11, ConcatProperties
  <2>2. Len(u) = m /\ Len(v) = n
    BY <1>10, <1>11
  <2> QED BY <1>3, <2>1, <2>2
<1>13. ASSUME NEW i \in 1..m PROVE w[i] = c[Len(c) - i]
  <2>1. i \in 1..(m + n) /\ i <= m
    BY <1>9
  <2> QED BY <1>10, <1>12, <2>1
<1>14. ASSUME NEW i \in (m + 1)..(m + n) PROVE w[i] = d[k + (i - m)]
  <2>1. i \in 1..(m + n) /\ ~(i <= m) /\ i - m \in 1..n
    BY <1>9
  <2> QED BY <1>11, <1>12, <2>1
<1>20. Len(c) \in Nat /\ Len(d) \in Nat /\ k <= Len(c) /\ k <= Len(d)
  BY <1>4, <1>5, <1>6
<1> DEFINE x(i) == WayAt(a, w, i)
<1>15. ASSUME NEW i \in 0..m PROVE x(i) = c[Len(c) - i]
  <2>1. CASE i = 0
    BY <1>4, <2>1 DEF WayAt
  <2>2. CASE i \in 1..m
    BY <1>13, <2>2 DEF WayAt
  <2> QED BY <1>9, <2>1, <2>2
<1>16. ASSUME NEW i \in 1..(m + n) PROVE Adjacent(x(i - 1), w[i])
  <2>1. CASE i \in 1..m
    <3>1. i - 1 \in 0..m /\ Len(c) - (i - 1) \in 2..Len(c) /\ (Len(c) - (i - 1)) - 1 = Len(c) - i
      BY <1>4, <1>6, <1>8, <1>9, <2>1
    <3>2. x(i - 1) = c[Len(c) - (i - 1)] /\ w[i] = c[Len(c) - i]
      BY <1>13, <1>15, <2>1, <3>1
    <3>3. x(i - 1) \in Block /\ Prev[x(i - 1)] = w[i]
      BY <1>4, <3>1, <3>2
    <3> HIDE DEF x
    <3> QED BY <3>3 DEF Adjacent
  <2>2. CASE i = m + 1
    <3>1. i - 1 \in 0..m /\ Len(c) - (i - 1) = k /\ k + (i - m) = k + 1 /\ k + 1 \in 2..Len(d)
          /\ i \in (m + 1)..(m + n) /\ (k + 1) - 1 = k
      BY <1>8, <1>9, <1>20, <2>2
    <3>2. x(i - 1) = c[k]
      BY <1>15, <3>1
    <3>3. w[i] = d[k + 1]
      BY <1>14, <3>1
    <3>4. w[i] \in Block /\ Prev[w[i]] = x(i - 1)
      BY <1>5, <1>6, <3>1, <3>2, <3>3
    <3> HIDE DEF x
    <3> QED BY <3>4 DEF Adjacent
  <2>3. CASE i \in (m + 2)..(m + n)
    <3>1. /\ i - 1 \in (m + 1)..(m + n) /\ i \in (m + 1)..(m + n) /\ i - 1 # 0
          /\ k + (i - m) \in 2..Len(d) /\ (k + (i - m)) - 1 = k + ((i - 1) - m)
      BY <1>8, <1>9, <1>20, <2>3
    <3>2. w[i] = d[k + (i - m)]
      BY <1>14, <3>1
    <3>3. x(i - 1) = d[k + ((i - 1) - m)]
      BY <1>14, <3>1 DEF WayAt
    <3>4. w[i] \in Block /\ Prev[w[i]] = x(i - 1)
      BY <1>5, <3>1, <3>2, <3>3
    <3> HIDE DEF x
    <3> QED BY <3>4 DEF Adjacent
  <2> QED BY <1>9, <2>1, <2>2, <2>3
<1>17. WayAt(a, w, Len(w)) = b
  <2>1. CASE n = 0
    <3>0. PICK e, f, l \in Nat : e = Len(c) /\ f = Len(d) /\ l = Len(w) /\ l = m + n
      BY <1>9, <1>12, <1>20
    <3>1. Len(w) \in 0..m /\ Len(c) - Len(w) = k /\ k = Len(d)
      BY <1>8, <1>9, <2>1, <3>0
    <3>2. x(Len(w)) = c[Len(c) - Len(w)]
      BY <1>15, <3>1
    <3> HIDE DEF x
    <3>3. x(Len(w)) = d[Len(d)]
      BY <1>6, <3>1, <3>2
    <3> USE DEF x
    <3> QED BY <1>5, <3>3
  <2>2. CASE n >= 1
    <3>1. m + n \in (m + 1)..(m + n) /\ k + ((m + n) - m) = Len(d) /\ m + n # 0
      BY <1>5, <1>8, <1>9, <2>2
    <3>2. w[m + n] = d[Len(d)]
      BY <1>14, <3>1
    <3> QED BY <1>5, <1>12, <3>1, <3>2 DEF WayAt
  <2> QED BY <1>9, <2>1, <2>2
<1>18. ASSUME CommonLen(Chain[a], Chain[b]) = Len(Chain[a]), NEW i \in 1..Len(w)
       PROVE  w[i] \in Block /\ Prev[w[i]] = WayAt(a, w, i - 1)
  <2>1. m = 0 /\ Len(w) = n /\ k = Len(c)
    BY <1>1, <1>8, <1>9, <1>12, <1>18, <1>20
  <2>2. /\ i \in (m + 1)..(m + n) /\ k + (i - m) \in 2..Len(d)
        /\ (k + (i - m)) - 1 = k + ((i - 1) - m)
    BY <1>8, <1>9, <1>20, <2>1
  <2>3. w[i] = d[k + (i - m)]
    BY <1>14, <2>2
  <2>4. x(i - 1) = d[k + ((i - 1) - m)]
    <3>1. CASE i = 1
      <4>1. x(i - 1) = a /\ k + ((i - 1) - m) = k
        BY <1>9, <2>1, <3>1 DEF WayAt
      <4> HIDE DEF x
      <4> QED BY <1>4, <1>6, <2>1, <4>1
    <3>2. CASE i # 1
      <4>1. i - 1 \in (m + 1)..(m + n) /\ i - 1 # 0
        BY <1>9, <2>1, <3>2
      <4>2. w[i - 1] = d[k + ((i - 1) - m)]
        BY <1>14, <4>1
      <4> QED BY <4>1, <4>2 DEF WayAt
    <3> QED BY <3>1, <3>2
  <2>5. w[i] \in Block /\ Prev[w[i]] = x(i - 1)
    <3> HIDE DEF x
    <3> QED BY <1>5, <2>2, <2>3, <2>4
  <2> QED BY <2>5
<1>19. Walks(a, w)
  <2> HIDE DEF x
  <2> QED BY <1>12, <1>16 DEF Walks, x
<1>21. CommonLen(Chain[a], Chain[b]) = Len(Chain[a]) => Climbs(a, w)
  BY <1>18 DEF Climbs
<1>22. w \in Seq(S) /\ Len(w) \in Nat
  BY <1>12
<1> QED BY <1>17, <1>19, <1>21, <1>22

\* The way to a higher block is not empty.
LEMMA WayShape ==
    ASSUME NEW a \in Block \cup {Begin}, NEW b \in Block \cup {Begin},
           Height[b] > Height[a], NEW w, w = Way(a, b)
    PROVE  /\ w \in Seq(Block \cup {Begin}) /\ Len(w) \in Nat /\ Len(w) >= 1
           /\ Adjacent(a, w[1])
           /\ \A i \in 2..Len(w) : Adjacent(w[i - 1], w[i])
           /\ w[Len(w)] = b
<1>1. /\ w \in Seq(Block \cup {Begin}) /\ Len(w) \in Nat
      /\ Walks(a, w) /\ WayAt(a, w, Len(w)) = b
  BY WayWalk
<1>2. a # b
  BY BlockTreeAssumption
<1>3. Len(w) >= 1 /\ w[Len(w)] = b
  BY <1>1, <1>2 DEF WayAt
<1>4. 1 \in 1..Len(w) /\ 1 - 1 = 0
  BY <1>1, <1>3
<1>5. Adjacent(a, w[1])
  BY <1>1, <1>4 DEF WayAt, Walks
<1>6. ASSUME NEW i \in 2..Len(w)
      PROVE  Adjacent(w[i - 1], w[i])
  <2>1. i \in 1..Len(w) /\ i - 1 # 0
    BY <1>1
  <2> QED BY <1>1, <2>1 DEF WayAt, Walks
<1> QED BY <1>1, <1>3, <1>5, <1>6

\* The blocks from above the begin block up to b.
On(b) == Below(b) \ {Begin}

\* The chain of a block is the chain below it and the block, which is the highest.
LEMMA OnFacts ==
    /\ On(Begin) = {}
    /\ \A b \in Block : On(b) = {b} \cup On(Prev[b]) /\ b \notin On(Prev[b]) /\ Prev[b] \in Block \cup {Begin}
    /\ \A b \in Block \cup {Begin} : On(b) \subseteq Block
    /\ \A b \in Block \cup {Begin} : \A c \in On(b) : Height[c] <= Height[b]
    /\ \A b \in Block : \A c \in On(Prev[b]) : Height[c] < Height[b]
<1>1. On(Begin) = {}
  BY BelowFacts DEF On
<1>2. \A b \in Block \cup {Begin} : On(b) \subseteq Block
  BY DEF On, Below
<1>3. \A b \in Block \cup {Begin} : \A c \in On(b) : Height[c] <= Height[b]
  BY BelowFacts DEF On
<1>4. ASSUME NEW b \in Block
      PROVE  /\ On(b) = {b} \cup On(Prev[b]) /\ b \notin On(Prev[b]) /\ Prev[b] \in Block \cup {Begin}
             /\ \A c \in On(Prev[b]) : Height[c] < Height[b]
  <2>1. Prev[b] \in Block \cup {Begin} /\ b # Begin
    BY BlockTreeAssumption
  <2>2. On(b) = {b} \cup On(Prev[b])
    BY <2>1, BelowFacts DEF On
  <2>3. ASSUME NEW c \in On(Prev[b]) PROVE Height[c] < Height[b]
    <3>1. Height[c] <= Height[Prev[b]] /\ c \in Block
      BY <1>2, <1>3, <2>1
    <3>2. Height[c] \in Nat /\ Height[Prev[b]] \in Nat /\ Height[b] = Height[Prev[b]] + 1
      BY <2>1, <3>1, BlockTreeAssumption
    <3> QED BY <3>1, <3>2
  <2>4. b \notin On(Prev[b])
    <3>1. Height[b] \in Nat
      BY BlockTreeAssumption
    <3>2. ~(Height[b] < Height[b])
      BY <3>1
    <3> QED BY <2>3, <3>2
  <2> QED BY <2>1, <2>2, <2>3, <2>4
<1> QED BY <1>1, <1>2, <1>3, <1>4

\* These are the blocks of the chain.
LEMMA ChainBlocks ==
    ASSUME NEW b \in Block \cup {Begin}
    PROVE  {Chain[b][i] : i \in 2..Len(Chain[b])} = On(b)
<1> PICK q : q = Chain[b]
  OBVIOUS
<1> PICK n : n = Len(q)
  OBVIOUS
<1>1. /\ {q[i] : i \in 1..n} = Below(b) /\ n \in Nat /\ n >= 1 /\ q[1] = Begin
      /\ \A i \in 2..n : q[i] \in Block
  <2>1. {q[i] : i \in 1..n} = Below(b)
    BY ChainRange
  <2>2. q \in Seq(Block \cup {Begin}) /\ n >= 1 /\ q[1] = Begin /\ \A i \in 2..n : q[i] \in Block
    BY ChainShape
  <2> QED BY <2>1, <2>2
<1>2. Begin \notin Block
  BY BlockTreeAssumption
<1>3. ASSUME NEW c \in On(b) PROVE c \in {q[i] : i \in 2..n}
  <2>1. PICK i \in 1..n : c = q[i]
    BY <1>1, <1>3 DEF On
  <2>2. i # 1
    BY <1>1, <1>3, <2>1 DEF On
  <2>3. i \in 2..n
    BY <1>1, <2>2
  <2> QED BY <2>1, <2>3
<1>4. ASSUME NEW i \in 2..n PROVE q[i] \in On(b)
  <2>1. i \in 1..n
    BY <1>1
  <2> QED BY <1>1, <1>2, <2>1 DEF On
<1> QED BY <1>3, <1>4

-----------------------------------------------------------------------------
(* Sums over finite sets. *)

\* A set of subsets of a finite set has a member that has no smaller one by one
\* element.
LEMMA LeastSet ==
    ASSUME NEW S, IsFiniteSet(S), NEW B \in SUBSET (SUBSET S), B # {}
    PROVE  \E m \in B : \A x \in m : m \ {x} \notin B
<1> DEFINE T == {n \in Nat : \E m \in B : Cardinality(m) = n}
<1>1. \A m \in B : IsFiniteSet(m) /\ Cardinality(m) \in Nat
  BY FS_Subset, FS_CardinalityType
<1>2. T \in SUBSET Nat /\ T # {}
  BY <1>1
<1> HIDE DEF T
<1>3. PICK n \in T : \A k \in T : n <= k
  BY <1>2, NatMin
<1>4. PICK m \in B : Cardinality(m) = n
  BY <1>3 DEF T
<1>5. ASSUME NEW x \in m, m \ {x} \in B PROVE FALSE
  <2>1. Cardinality(m \ {x}) = n - 1 /\ n \in Nat
    BY <1>1, <1>4, FS_RemoveElement
  <2>2. n - 1 \in T
    BY <1>1, <1>5, <2>1 DEF T
  <2> QED BY <1>3, <2>1, <2>2
<1> QED BY <1>5

\* The member that the fold takes next.
Pick(s) == CHOOSE x \in s : TRUE

\* g is the sum of f over the subsets of S that are in D.
SumsOn(f, D, g) ==
    g = [s \in D |-> IF s = {} THEN 0 ELSE f[Pick(s)] + g[s \ {Pick(s)}]]
AtMost(S, n) == {s \in SUBSET S : Cardinality(s) <= n}

\* There is such a function for the subsets up to any size.
LEMMA SumsExistAtMost ==
    ASSUME NEW f, NEW S, IsFiniteSet(S), NEW n \in Nat
    PROVE  \E g : SumsOn(f, AtMost(S, n), g)
<1> DEFINE T == {k \in Nat : ~\E g : SumsOn(f, AtMost(S, k), g)}
<1>1. SUFFICES ASSUME T # {} PROVE FALSE
  OBVIOUS
<1>2. T \in SUBSET Nat
  OBVIOUS
<1> HIDE DEF T
<1>3. PICK k \in T : \A j \in T : k <= j
  BY <1>1, <1>2, NatMin
<1>4. \A s \in SUBSET S : IsFiniteSet(s) /\ Cardinality(s) \in Nat /\ (Cardinality(s) = 0 <=> s = {})
  BY FS_Subset, FS_CardinalityType, FS_EmptySet
<1>5. k \in Nat
  BY <1>2
<1>6. CASE k = 0
  <2>1. \A s \in AtMost(S, k) : s = {}
    BY <1>4, <1>6 DEF AtMost
  <2>2. SumsOn(f, AtMost(S, k), [s \in AtMost(S, k) |-> 0])
    BY <2>1 DEF SumsOn
  <2> QED BY <2>2, <1>3 DEF T
<1>7. CASE k # 0
  <2>1. k - 1 \in Nat /\ ~(k <= k - 1)
    BY <1>5, <1>7
  <2>2. k - 1 \notin T
    BY <1>3, <2>1
  <2>3. PICK g : SumsOn(f, AtMost(S, k - 1), g)
    BY <2>1, <2>2 DEF T
  <2>4. \A s \in AtMost(S, k - 1) : g[s] = IF s = {} THEN 0 ELSE f[Pick(s)] + g[s \ {Pick(s)}]
    BY <2>3 DEF SumsOn
  <2> DEFINE h == [s \in AtMost(S, k) |-> IF s = {} THEN 0 ELSE f[Pick(s)] + g[s \ {Pick(s)}]]
  <2>5. \A s \in AtMost(S, k - 1) : h[s] = g[s]
    <3>1. AtMost(S, k - 1) \subseteq AtMost(S, k)
      BY <1>4, <1>5, <2>1 DEF AtMost
    <3> QED BY <2>4, <3>1
  <2>6. ASSUME NEW s \in AtMost(S, k), s # {} PROVE s \ {Pick(s)} \in AtMost(S, k - 1)
    <3>1. Pick(s) \in s
      BY <2>6 DEF Pick
    <3>2. s \in SUBSET S /\ Cardinality(s) <= k
      BY DEF AtMost
    <3>3. Cardinality(s \ {Pick(s)}) = Cardinality(s) - 1
      BY <1>4, <3>1, <3>2, FS_RemoveElement
    <3>4. Cardinality(s \ {Pick(s)}) <= k - 1
      BY <1>4, <1>5, <3>2, <3>3
    <3> QED BY <3>2, <3>4 DEF AtMost
  <2>7. h = [s \in AtMost(S, k) |-> IF s = {} THEN 0 ELSE f[Pick(s)] + h[s \ {Pick(s)}]]
    BY <2>5, <2>6
  <2> HIDE DEF h
  <2>8. SumsOn(f, AtMost(S, k), h)
    BY <2>7 DEF SumsOn
  <2> QED BY <1>3, <2>8 DEF T
<1> QED BY <1>6, <1>7

\* The function of the definition is one.
LEMMA SumsExist ==
    ASSUME NEW f, NEW S, IsFiniteSet(S)
    PROVE  \E g : SumsOn(f, SUBSET S, g) /\ SumOver(f, S) = g[S]
<1>1. Cardinality(S) \in Nat /\ \A s \in SUBSET S : Cardinality(s) <= Cardinality(S)
  BY FS_Subset, FS_CardinalityType
<1>2. AtMost(S, Cardinality(S)) = SUBSET S
  BY <1>1 DEF AtMost
<1>3. \E g : SumsOn(f, SUBSET S, g)
  <2>1. PICK n : n = Cardinality(S)
    OBVIOUS
  <2>2. n \in Nat /\ AtMost(S, n) = SUBSET S
    BY <1>1, <1>2, <2>1
  <2>3. \E g : SumsOn(f, AtMost(S, n), g)
    BY <2>2, SumsExistAtMost
  <2> QED BY <2>2, <2>3
<1> DEFINE G == CHOOSE g : g = [s \in SUBSET S |->
                    IF s = {} THEN 0 ELSE f[Pick(s)] + g[s \ {Pick(s)}]]
<1>4. SumOver(f, S) = G[S]
  BY DEF SumOver, MapThenSumSet, MapThenFoldSet, Pick
<1>5. G = [s \in SUBSET S |-> IF s = {} THEN 0 ELSE f[Pick(s)] + G[s \ {Pick(s)}]]
  BY <1>3 DEF SumsOn
<1> HIDE DEF G
<1>6. SumsOn(f, SUBSET S, G)
  BY <1>5 DEF SumsOn
<1> QED BY <1>4, <1>6

\* v is the sum of f over S.
IsSum(f, S, v) == \E g : SumsOn(f, SUBSET S, g) /\ v = g[S]

\* There is only one sum, and a sum function has it.
LEMMA SumsUnique ==
    ASSUME NEW f, NEW S, IsFiniteSet(S), NEW R, R \subseteq S, NEW g, SumsOn(f, SUBSET S, g),
           NEW v, IsSum(f, R, v)
    PROVE  g[R] = v
<1>0. PICK h : SumsOn(f, SUBSET R, h) /\ v = h[R]
  BY DEF IsSum
<1> DEFINE B == {s \in SUBSET R : g[s] # h[s]}
<1>1. SUFFICES ASSUME B # {} PROVE FALSE
  BY <1>0
<1>2. B \in SUBSET (SUBSET S)
  OBVIOUS
<1> HIDE DEF B
<1>3. PICK m \in B : \A x \in m : m \ {x} \notin B
  BY <1>1, <1>2, LeastSet
<1>4. m \in SUBSET R /\ m \in SUBSET S /\ g[m] # h[m]
  BY <1>3 DEF B
<1>5. /\ g[m] = IF m = {} THEN 0 ELSE f[Pick(m)] + g[m \ {Pick(m)}]
      /\ h[m] = IF m = {} THEN 0 ELSE f[Pick(m)] + h[m \ {Pick(m)}]
  BY <1>0, <1>4 DEF SumsOn
<1>6. m # {}
  BY <1>4, <1>5
<1>7. Pick(m) \in m
  BY <1>6 DEF Pick
<1>8. m \ {Pick(m)} \in SUBSET R /\ m \ {Pick(m)} \notin B
  BY <1>3, <1>4, <1>7
<1>9. g[m \ {Pick(m)}] = h[m \ {Pick(m)}]
  BY <1>8 DEF B
<1> QED BY <1>4, <1>5, <1>6, <1>9

\* The sum, one element after the other.
LEMMA SumPick ==
    ASSUME NEW f, NEW S, IsFiniteSet(S)
    PROVE  SumOver(f, S) = IF S = {} THEN 0 ELSE f[Pick(S)] + SumOver(f, S \ {Pick(S)})
<1>1. PICK g : SumsOn(f, SUBSET S, g) /\ SumOver(f, S) = g[S]
  BY SumsExist
<1>2. g[S] = IF S = {} THEN 0 ELSE f[Pick(S)] + g[S \ {Pick(S)}]
  BY <1>1 DEF SumsOn
<1> PICK R : R = S \ {Pick(S)}
  OBVIOUS
<1>3. IsFiniteSet(R) /\ R \in SUBSET S
  BY FS_Subset
<1>4. IsSum(f, R, SumOver(f, R))
  BY <1>3, SumsExist DEF IsSum
<1>5. g[R] = SumOver(f, R)
  BY <1>1, <1>3, <1>4, SumsUnique
<1> QED BY <1>1, <1>2, <1>5

\* A sum of integers is an integer, one of naturals a natural.
LEMMA SumType ==
    ASSUME NEW f, NEW S, IsFiniteSet(S), \A x \in S : f[x] \in Int
    PROVE  SumOver(f, S) \in Int
<1> DEFINE B == {s \in SUBSET S : SumOver(f, s) \notin Int}
<1>1. SUFFICES ASSUME B # {} PROVE FALSE
  OBVIOUS
<1>2. B \in SUBSET (SUBSET S)
  OBVIOUS
<1> HIDE DEF B
<1>3. PICK m \in B : \A x \in m : m \ {x} \notin B
  BY <1>1, <1>2, LeastSet
<1>4. m \in SUBSET S /\ SumOver(f, m) \notin Int /\ IsFiniteSet(m)
  BY <1>3, FS_Subset DEF B
<1>5. SumOver(f, m) = IF m = {} THEN 0 ELSE f[Pick(m)] + SumOver(f, m \ {Pick(m)})
  BY <1>4, SumPick
<1>6. m # {}
  BY <1>4, <1>5
<1>7. Pick(m) \in m
  BY <1>6 DEF Pick
<1>8. m \ {Pick(m)} \in SUBSET S /\ m \ {Pick(m)} \notin B /\ f[Pick(m)] \in Int
  BY <1>3, <1>4, <1>7
<1>9. SumOver(f, m \ {Pick(m)}) \in Int
  BY <1>8 DEF B
<1> QED BY <1>4, <1>5, <1>6, <1>8, <1>9

\* Any element may be taken out first.
LEMMA SumOne ==
    ASSUME NEW f, NEW S, IsFiniteSet(S), \A x \in S : f[x] \in Int, NEW x \in S
    PROVE  SumOver(f, S) = f[x] + SumOver(f, S \ {x})
<1> DEFINE Right(s) == \A y \in s : SumOver(f, s) = f[y] + SumOver(f, s \ {y})
           B == {s \in SUBSET S : ~Right(s)}
<1>1. SUFFICES ASSUME B # {} PROVE FALSE
  <2>1. S \notin B
    BY <1>1
  <2>2. Right(S)
    BY <2>1
  <2> QED BY <2>2
<1>2. B \in SUBSET (SUBSET S)
  OBVIOUS
<1> HIDE DEF B
<1>3. PICK m \in B : \A y \in m : m \ {y} \notin B
  BY <1>1, <1>2, LeastSet
<1>4. m \in SUBSET S /\ ~Right(m)
  BY <1>3 DEF B
<1>5. PICK y \in m : SumOver(f, m) # f[y] + SumOver(f, m \ {y})
  BY <1>4
<1>6. \A s \in SUBSET S : IsFiniteSet(s) /\ SumOver(f, s) \in Int
  BY FS_Subset, SumType
<1> PICK c : c = Pick(m)
  OBVIOUS
<1>7. SumOver(f, m) = f[c] + SumOver(f, m \ {c}) /\ c \in m
  <2>1. m # {}
    BY <1>5
  <2>2. Pick(m) \in m
    BY <2>1 DEF Pick
  <2> QED BY <1>4, <1>6, <2>1, <2>2, SumPick
<1>8. c # y
  BY <1>5, <1>7
<1>9. Right(m \ {c}) /\ Right(m \ {y})
  BY <1>3, <1>4, <1>5, <1>7 DEF B
<1> PICK r : r = (m \ {c}) \ {y}
  OBVIOUS
<1>10. (m \ {y}) \ {c} = r
  OBVIOUS
<1>11. SumOver(f, m \ {c}) = f[y] + SumOver(f, r)
  BY <1>5, <1>8, <1>9
<1>12. SumOver(f, m \ {y}) = f[c] + SumOver(f, r)
  BY <1>7, <1>8, <1>9, <1>10
<1>13. f[c] \in Int /\ f[y] \in Int /\ SumOver(f, r) \in Int
  BY <1>4, <1>5, <1>6, <1>7
<1> QED BY <1>5, <1>7, <1>11, <1>12, <1>13

\* A sum over a set with one element more.
LEMMA SumAdd ==
    ASSUME NEW f, NEW S, IsFiniteSet(S), NEW x, x \notin S, \A y \in S \cup {x} : f[y] \in Int
    PROVE  SumOver(f, S \cup {x}) = SumOver(f, S) + f[x] /\ SumOver(f, S) \in Int
<1> PICK R : R = S \cup {x}
  OBVIOUS
<1>1. IsFiniteSet(R) /\ R \ {x} = S /\ x \in R
  BY FS_AddElement
<1>2. SumOver(f, R) = f[x] + SumOver(f, R \ {x})
  BY <1>1, SumOne
<1>3. SumOver(f, S) \in Int /\ f[x] \in Int
  BY SumType
<1>4. SumOver(f, R) = f[x] + SumOver(f, S)
  BY <1>1, <1>2
<1>5. f[x] + SumOver(f, S) = SumOver(f, S) + f[x]
  BY <1>3
<1> QED BY <1>3, <1>4, <1>5

\* The sum over no element.
LEMMA SumEmpty == \A f : SumOver(f, {}) = 0
BY SumPick, FS_EmptySet

=============================================================================
