-------------------------- MODULE Log2SystemProofs --------------------------
(***************************************************************************)
(* Theorems about Log2System for every graph of transactions, every block  *)
(* tree, every behaviour of the node and every bound, as long as no        *)
(* connection is lost inside a transaction (MaxDrop = 0): log2producer     *)
(* never aborts on what a node writes, the store of tparser and the memory *)
(* repository follow the node, and the rows are a run of TxLedger.         *)
(*                                                                         *)
(* The argument: the state of the ledger is a chain's transactions and the *)
(* repository (St); Leads says that rows are a run of the ledger from one  *)
(* such state to another.  Each handler builds rows that lead from what is *)
(* committed to what is in memory, a commit joins them to those that       *)
(* tparser has yet to consume, and a crash throws away what is not         *)
(* committed.  The lines of the node say where they lead as well (TipOf,   *)
(* PoolStep), which is why the handlers find what they expect.             *)
(***************************************************************************)
EXTENDS Log2System, Log2ProducerProofs, BlockTreeProofs

-----------------------------------------------------------------------------
(* Chains and the transactions they confirm. *)

\* The transactions of a chain: none below the begin block, and a block adds its
\* own to those of the chain it extends.
LEMMA ChainTxsFacts ==
    /\ ChainTxs(Begin) = {}
    /\ \A b \in Block : ChainTxs(b) = ChainTxs(Prev[b]) \cup BlockTxs(b)
<1>1. ChainTxs(Begin) = {}
  <2>1. Chain[Begin] = <<Begin>>
    BY ChainDef
  <2>2. Len(Chain[Begin]) = 1
    BY <2>1
  <2> QED BY <2>2 DEF ChainTxs
<1>2. ASSUME NEW b \in Block
      PROVE  ChainTxs(b) = ChainTxs(Prev[b]) \cup BlockTxs(b)
  <2>0. Prev[b] \in Block \cup {Begin} /\ b # Begin
    BY BlockTreeAssumption
  <2>1. PICK c \in Seq(Block \cup {Begin}) : c = Chain[Prev[b]] /\ Len(c) >= 1
    BY <2>0, ChainShape
  <2>2. Chain[b] = Append(c, b)
    BY <2>0, <2>1, ChainDef
  <2>3. /\ Len(Append(c, b)) = Len(c) + 1
        /\ \A i \in 1..Len(c) : Append(c, b)[i] = c[i]
        /\ Append(c, b)[Len(c) + 1] = b
    BY <2>0
  <2>4. ASSUME NEW t
        PROVE  t \in ChainTxs(b) <=> t \in ChainTxs(Prev[b]) \cup BlockTxs(b)
    <3>1. t \in ChainTxs(b) <=> \E i \in 2..(Len(c) + 1) : t \in BlockTxs(Append(c, b)[i])
      BY <2>2, <2>3 DEF ChainTxs
    <3>2. t \in ChainTxs(Prev[b]) <=> \E i \in 2..Len(c) : t \in BlockTxs(c[i])
      BY <2>1 DEF ChainTxs
    <3>3. \A i \in 2..(Len(c) + 1) : i \in 2..Len(c) \/ i = Len(c) + 1
      BY <2>1
    <3>4. Len(c) + 1 \in 2..(Len(c) + 1) /\ \A i \in 2..Len(c) : i \in 2..(Len(c) + 1) /\ i \in 1..Len(c)
      BY <2>1
    <3>5. (\E i \in 2..(Len(c) + 1) : t \in BlockTxs(Append(c, b)[i]))
             => (\E i \in 2..Len(c) : t \in BlockTxs(c[i])) \/ t \in BlockTxs(b)
      BY <2>3, <3>3, <3>4, Zenon
    <3>6. (\E i \in 2..Len(c) : t \in BlockTxs(c[i])) \/ t \in BlockTxs(b)
             => \E i \in 2..(Len(c) + 1) : t \in BlockTxs(Append(c, b)[i])
      BY <2>3, <3>4, Zenon
    <3> QED BY <3>1, <3>2, <3>5, <3>6
  <2> QED BY <2>4
<1> QED BY <1>1, <1>2

\* Its transactions are transactions.
LEMMA ChainTxsType ==
    ASSUME NEW c \in Block \cup {Begin}
    PROVE  ChainTxs(c) \subseteq Tx
<1> DEFINE X == {b \in Block \cup {Begin} : ChainTxs(b) \subseteq Tx}
<1>1. Begin \in X
  BY ChainTxsFacts
<1>2. ASSUME NEW b \in Block, Prev[b] \in X
      PROVE  b \in X
  BY <1>2, ChainTxsFacts, BlockTxsType
<1>3. Block \cup {Begin} \subseteq X
  <2> HIDE DEF X
  <2> QED BY <1>1, <1>2, TreeInduction
<1> QED BY <1>3

\* What the consensus rules say of a transaction of a block.
LEMMA BlockTxValid ==
    ASSUME NEW b \in Block, NEW t \in BlockTxs(b)
    PROVE  /\ t \in Tx /\ t \notin ChainTxs(Prev[b])
           /\ Parents(t) \subseteq ChainTxs(b)
           /\ Conflicts(t) \cap ChainTxs(b) = {}
<1>1. PICK i \in 1..Len(Vtx[b]) : t = Vtx[b][i]
  BY DEF BlockTxs
<1> DEFINE before == ChainTxs(Prev[b]) \cup {Vtx[b][j] : j \in 1..(i - 1)}
<1>2. t \notin before /\ Parents(t) \subseteq before /\ Conflicts(t) \cap before = {}
  BY <1>1, ConsensusAssumption
<1>3. ChainTxs(b) = ChainTxs(Prev[b]) \cup BlockTxs(b)
  BY ChainTxsFacts
<1>4. \A j \in 1..(i - 1) : j \in 1..Len(Vtx[b])
  BY <1>1, TxGraphAssumption
<1>5. before \subseteq ChainTxs(b)
  BY <1>3, <1>4 DEF BlockTxs
<1>6. \A u \in BlockTxs(b) : u \notin Conflicts(t)
  BY BlockDisjoint DEF Conflicts
<1> QED BY <1>2, <1>3, <1>5, <1>6, BlockTxsType

\* A chain contains the parents of its transactions and no conflict.
LEMMA ChainValid ==
    ASSUME NEW c \in Block \cup {Begin}, NEW t \in ChainTxs(c)
    PROVE  Parents(t) \subseteq ChainTxs(c) /\ Conflicts(t) \cap ChainTxs(c) = {}
<1> DEFINE X == {b \in Block \cup {Begin} : \A u \in ChainTxs(b) :
                    Parents(u) \subseteq ChainTxs(b) /\ Conflicts(u) \cap ChainTxs(b) = {}}
<1>1. Begin \in X
  BY ChainTxsFacts
<1>2. ASSUME NEW b \in Block, Prev[b] \in X
      PROVE  b \in X
  <2>1. ChainTxs(b) = ChainTxs(Prev[b]) \cup BlockTxs(b)
    BY ChainTxsFacts
  <2>2. ASSUME NEW u \in ChainTxs(b)
        PROVE  Parents(u) \subseteq ChainTxs(b) /\ Conflicts(u) \cap ChainTxs(b) = {}
    <3>1. CASE u \in BlockTxs(b)
      BY <3>1, BlockTxValid
    <3>2. CASE u \in ChainTxs(Prev[b])
      <4>1. Parents(u) \subseteq ChainTxs(Prev[b]) /\ Conflicts(u) \cap ChainTxs(Prev[b]) = {}
        BY <1>2, <3>2
      <4>2. \A v \in BlockTxs(b) : v \notin Conflicts(u)
        <5>1. u \in Tx
          BY ChainTxsType, <3>2, BlockTreeAssumption
        <5>2. \A v \in BlockTxs(b) : u \notin Conflicts(v)
          BY <2>2, BlockTxValid
        <5>3. \A v \in Tx : v \in Conflicts(u) => u \in Conflicts(v)
          BY <5>1 DEF Conflicts
        <5> QED BY <5>2, <5>3, BlockTxsType
      <4> QED BY <2>1, <4>1, <4>2
    <3> QED BY <2>1, <2>2, <3>1, <3>2
  <2> QED BY <2>2
<1>3. Block \cup {Begin} \subseteq X
  <2> HIDE DEF X
  <2> QED BY <1>1, <1>2, TreeInduction
<1> QED BY <1>3

\* What is confirmed when c is the tip: the transactions of its chain and, for
\* their coinbases, the blocks of it.
Solid(c) == ChainTxs(c) \cup (Below(c) \cap Block)

\* What a chain makes solid: nothing below the begin block, and a block adds
\* its transactions and its coinbase.
LEMMA SolidFacts ==
    /\ Solid(Begin) = {}
    /\ \A b \in Block : /\ Solid(b) = Solid(Prev[b]) \cup BlockTxs(b) \cup {b}
                        /\ b \notin Solid(Prev[b]) /\ b \in Solid(b)
    /\ \A c \in Block \cup {Begin} : /\ Solid(c) \subseteq Tx \cup Block
                                     /\ Solid(c) \cap Tx = ChainTxs(c)
                                     /\ c \in Block => BlockTxs(c) \subseteq Solid(c) /\ c \in Solid(c)
<1>1. Solid(Begin) = {}
  BY ChainTxsFacts, BelowFacts, BlockTreeAssumption DEF Solid
<1>2. ASSUME NEW b \in Block
      PROVE  /\ Solid(b) = Solid(Prev[b]) \cup BlockTxs(b) \cup {b}
             /\ b \notin Solid(Prev[b]) /\ b \in Solid(b)
  <2>0. Prev[b] \in Block \cup {Begin}
    BY BlockTreeAssumption
  <2>1. Below(b) = {b} \cup Below(Prev[b])
    BY BelowFacts
  <2>2. b \notin Below(Prev[b])
    <3>1. Height[b] = Height[Prev[b]] + 1 /\ Height[Prev[b]] \in Nat
      BY <2>0, BlockTreeAssumption
    <3>2. b \in Below(Prev[b]) => Height[b] <= Height[Prev[b]]
      BY <2>0, BelowFacts
    <3> QED BY <3>1, <3>2
  <2>3. b \notin ChainTxs(Prev[b])
    BY <2>0, ChainTxsType, TxGraphAssumption
  <2> QED BY <2>1, <2>2, <2>3, ChainTxsFacts DEF Solid
<1>3. ASSUME NEW c \in Block \cup {Begin}
      PROVE  /\ Solid(c) \subseteq Tx \cup Block /\ Solid(c) \cap Tx = ChainTxs(c)
             /\ c \in Block => BlockTxs(c) \subseteq Solid(c) /\ c \in Solid(c)
  <2>1. ChainTxs(c) \subseteq Tx /\ Tx \cap Block = {}
    BY ChainTxsType, TxGraphAssumption
  <2> QED BY <2>1, <1>2 DEF Solid
<1> QED BY <1>1, <1>2, <1>3

-----------------------------------------------------------------------------
(* Runs of the ledger. *)

\* A state of the ledger as two sets: what is confirmed and what is present but
\* unconfirmed.
LState == [tip : Block \cup {Begin}, conf : SUBSET (Tx \cup Block), unc : SUBSET (Tx \cup Block)]
LS(c, K, U) == [tip |-> c, conf |-> K, unc |-> U]
All(s) == s.conf \cup s.unc

\* The guards of TxLedger for the row of a transaction and of a coinbase; unless
\* g, the parents of a transaction are present when it is accepted.
TxOK(g, s, r) ==
    \/ /\ r.type = "accept"
       /\ r.tx \notin All(s) /\ Conflicts(r.tx) \cap All(s) = {}
       /\ g \/ Parents(r.tx) \subseteq All(s)
    \/ /\ r.type = "confirm"
       /\ r.tx \in s.unc /\ Parents(r.tx) \subseteq s.conf
       /\ s.tip \in Block /\ s.tip \in s.conf
       /\ \E i \in 1..Len(Vtx[s.tip]) :
             Vtx[s.tip][i] = r.tx /\ \A j \in 1..(i - 1) : Vtx[s.tip][j] \in s.conf
    \/ /\ r.type = "unconfirm"
       /\ r.tx \in s.conf /\ \A c \in Tx : r.tx \in Parents(c) => c \notin s.conf
       /\ s.tip \in Block /\ s.tip \in s.conf
       /\ \E i \in 1..Len(Vtx[s.tip]) :
             Vtx[s.tip][i] = r.tx /\ \A j \in (i + 1)..Len(Vtx[s.tip]) : Vtx[s.tip][j] \notin s.conf
    \/ /\ r.type = "reject"
       /\ r.tx \in s.unc /\ \A c \in Tx : r.tx \in Parents(c) => c \notin All(s)

CoinbaseOK(s, r) ==
    \/ /\ r.type = "accept"
       /\ r.tx \notin All(s) /\ s.tip = Prev[r.tx] /\ Block \cap s.unc = {}
       /\ s.tip \in Block => BlockTxs(s.tip) \subseteq s.conf
    \/ /\ r.type = "confirm"
       /\ r.tx \in s.unc /\ s.tip = Prev[r.tx]
    \/ /\ r.type = "unconfirm"
       /\ r.tx \in s.conf /\ s.tip = r.tx /\ BlockTxs(r.tx) \cap s.conf = {}
    \/ /\ r.type = "reject"
       /\ r.tx \in s.unc /\ s.tip = r.tx

RowOK(g, s, r) == (r.tx \in Tx /\ TxOK(g, s, r)) \/ (r.tx \in Block /\ CoinbaseOK(s, r))

\* What HandleTxlog does with the row.
TipTo(s, r) ==
    IF r.tx \in Block /\ r.type = "confirm" THEN r.tx
    ELSE IF r.tx \in Block /\ r.type = "reject" THEN Prev[r.tx]
    ELSE s.tip
RowTo(s, r) ==
    LS(TipTo(s, r),
       IF r.type = "confirm" THEN s.conf \cup {r.tx} ELSE s.conf \ {r.tx},
       IF r.type \in {"accept", "unconfirm"} THEN s.unc \cup {r.tx} ELSE s.unc \ {r.tx})

\* From s the rows after the first k are a run of the ledger that ends in t.
Steps(g, L, rows, k) ==
    \A i \in k..(Len(rows) - 1) : RowOK(g, L[i], rows[i + 1]) /\ L[i + 1] = RowTo(L[i], rows[i + 1])
Leads(g, s, rows, k, t) ==
    \E L \in [k..Len(rows) -> LState] : L[k] = s /\ L[Len(rows)] = t /\ Steps(g, L, rows, k)

\* Ledger states and their parts.
LEMMA LSType ==
    ASSUME NEW c \in Block \cup {Begin}, NEW K \in SUBSET (Tx \cup Block),
           NEW U \in SUBSET (Tx \cup Block)
    PROVE  /\ LS(c, K, U) \in LState
           /\ LS(c, K, U).tip = c /\ LS(c, K, U).conf = K /\ LS(c, K, U).unc = U
BY DEF LS, LState

\* A row leads from a ledger state to a ledger state.
LEMMA RowToType ==
    ASSUME NEW s \in LState, NEW r \in Row
    PROVE  RowTo(s, r) \in LState
<1>1. TipTo(s, r) \in Block \cup {Begin}
  BY BlockTreeAssumption DEF TipTo, LState, Row
<1>2. s.conf \in SUBSET (Tx \cup Block) /\ s.unc \in SUBSET (Tx \cup Block) /\ r.tx \in Tx \cup Block
  BY DEF LState, Row
<1> QED BY <1>1, <1>2, LSType DEF RowTo

\* No rows lead nowhere.
LEMMA LeadsNone ==
    ASSUME NEW g, NEW s \in LState, NEW rows \in Seq(Row)
    PROVE  Leads(g, s, rows, Len(rows), s)
<1>1. Len(rows) \in Nat
  OBVIOUS
<1>2. PICK n \in Nat : n = Len(rows)
  BY <1>1
<1>3. n..n = {n} /\ n..(n - 1) = {}
  OBVIOUS
<1> DEFINE L == [i \in n..n |-> s]
<1>4. L \in [n..n -> LState] /\ L[n] = s
  BY <1>3
<1>5. Steps(g, L, rows, n)
  BY <1>2, <1>3 DEF Steps
<1> QED BY <1>2, <1>4, <1>5 DEF Leads

\* Where the rows are used up the run is at its end.
LEMMA LeadsEnd ==
    ASSUME NEW g, NEW s, NEW t, NEW rows \in Seq(Row), Leads(g, s, rows, Len(rows), t)
    PROVE  s = t
BY DEF Leads

\* A run begins and ends in ledger states.
LEMMA LeadsTypes ==
    ASSUME NEW g, NEW s, NEW t, NEW rows \in Seq(Row), NEW k \in 0..Len(rows), Leads(g, s, rows, k, t)
    PROVE  s \in LState /\ t \in LState
<1>1. k \in k..Len(rows) /\ Len(rows) \in k..Len(rows)
  OBVIOUS
<1> QED BY <1>1 DEF Leads

\* The first row of a run is a step of the ledger, and the rest is a run.
LEMMA LeadsFirst ==
    ASSUME NEW g, NEW s, NEW t, NEW rows \in Seq(Row), NEW k \in Nat, k < Len(rows),
           Leads(g, s, rows, k, t)
    PROVE  RowOK(g, s, rows[k + 1]) /\ Leads(g, RowTo(s, rows[k + 1]), rows, k + 1, t)
<1>1. PICK n \in Nat : n = Len(rows)
  OBVIOUS
<1>2. PICK L \in [k..n -> LState] : L[k] = s /\ L[n] = t /\ Steps(g, L, rows, k)
  BY <1>1 DEF Leads
<1>3. k \in k..(n - 1) /\ (\A i \in (k + 1)..n : i \in k..n)
      /\ (\A i \in (k + 1)..(n - 1) : i \in k..(n - 1) /\ i \in (k + 1)..n /\ i + 1 \in (k + 1)..n)
      /\ k + 1 \in (k + 1)..n /\ n \in (k + 1)..n
  BY <1>1
<1>4. RowOK(g, s, rows[k + 1]) /\ L[k + 1] = RowTo(s, rows[k + 1])
  BY <1>1, <1>2, <1>3 DEF Steps
<1> DEFINE M == [i \in (k + 1)..n |-> L[i]]
<1>5. M \in [(k + 1)..n -> LState]
  BY <1>2, <1>3
<1>6. M[k + 1] = RowTo(s, rows[k + 1]) /\ M[n] = t
  BY <1>2, <1>3, <1>4
<1>7. ASSUME NEW i \in (k + 1)..(n - 1)
      PROVE  RowOK(g, M[i], rows[i + 1]) /\ M[i + 1] = RowTo(M[i], rows[i + 1])
  <2>1. M[i] = L[i] /\ M[i + 1] = L[i + 1]
    BY <1>3
  <2> QED BY <1>1, <1>2, <1>3, <2>1 DEF Steps
<1>8. Steps(g, M, rows, k + 1)
  <2> HIDE DEF M
  <2> QED BY <1>1, <1>7 DEF Steps
<1> HIDE DEF M
<1> QED BY <1>1, <1>4, <1>5, <1>6, <1>8 DEF Leads

\* One legal row is a run.
LEMMA LeadsOne ==
    ASSUME NEW g, NEW s \in LState, NEW r \in Row, RowOK(g, s, r)
    PROVE  <<r>> \in Seq(Row) /\ Leads(g, s, <<r>>, 0, RowTo(s, r))
<1>1. <<r>> \in Seq(Row) /\ Len(<<r>>) = 1 /\ <<r>>[1] = r
  OBVIOUS
<1>2. RowTo(s, r) \in LState
  BY RowToType
<1> DEFINE L == [i \in 0..1 |-> IF i = 0 THEN s ELSE RowTo(s, r)]
<1>3. L \in [0..1 -> LState] /\ L[0] = s /\ L[1] = RowTo(s, r)
  BY <1>2
<1>4. ASSUME NEW i \in 0..(Len(<<r>>) - 1)
      PROVE  RowOK(g, L[i], <<r>>[i + 1]) /\ L[i + 1] = RowTo(L[i], <<r>>[i + 1])
  <2>1. i = 0
    BY <1>1
  <2> HIDE DEF L
  <2> QED BY <1>1, <1>3, <2>1
<1>5. Steps(g, L, <<r>>, 0)
  <2> HIDE DEF L
  <2> QED BY <1>4 DEF Steps
<1> HIDE DEF L
<1> QED BY <1>1, <1>3, <1>5 DEF Leads

\* A run that may assume the parents present is one that need not.
LEMMA LeadsWeaker ==
    ASSUME NEW g, NEW h, g => h, NEW s, NEW t, NEW rows, NEW k, Leads(g, s, rows, k, t)
    PROVE  Leads(h, s, rows, k, t)
<1>1. \A u, r : RowOK(g, u, r) => RowOK(h, u, r)
  BY DEF RowOK, TxOK
<1>2. PICK L \in [k..Len(rows) -> LState] : L[k] = s /\ L[Len(rows)] = t /\ Steps(g, L, rows, k)
  BY DEF Leads
<1>3. Steps(h, L, rows, k)
  BY <1>1, <1>2 DEF Steps
<1> QED BY <1>2, <1>3 DEF Leads

\* Two runs, one after the other.
LEMMA LeadsThen ==
    ASSUME NEW g, NEW s, NEW m, NEW t, NEW q \in Seq(Row), NEW r \in Seq(Row),
           NEW k \in 0..Len(q), Leads(g, s, q, k, m), Leads(g, m, r, 0, t)
    PROVE  q \o r \in Seq(Row) /\ Leads(g, s, q \o r, k, t)
<1>0. q \o r \in Seq(Row)
  BY RowsConcat
<1>1. PICK n \in Nat, l \in Nat : n = Len(q) /\ l = Len(r) /\ k \in 0..n
  OBVIOUS
<1>2. PICK p \in Seq(Row) : /\ p = q \o r /\ Len(p) = n + l
                            /\ \A i \in 1..n : p[i] = q[i]
                            /\ \A i \in 1..l : p[n + i] = r[i]
  <2>1. /\ Len(q \o r) = n + l
        /\ \A i \in 1..n : (q \o r)[i] = q[i]
        /\ \A i \in 1..l : (q \o r)[n + i] = r[i]
    BY <1>1, ConcatParts
  <2> QED BY <1>0, <2>1
<1>3. PICK L \in [k..n -> LState] : L[k] = s /\ L[n] = m /\ Steps(g, L, q, k)
  BY <1>1 DEF Leads
<1>4. PICK N \in [0..l -> LState] : N[0] = m /\ N[l] = t /\ Steps(g, N, r, 0)
  BY <1>1 DEF Leads
<1> DEFINE M == [i \in k..(n + l) |-> IF i <= n THEN L[i] ELSE N[i - n]]
<1>5. \A i \in k..(n + l) : (i <= n => i \in k..n) /\ (~(i <= n) => i - n \in 0..l)
  BY <1>1
<1>6. M \in [k..(n + l) -> LState]
  BY <1>3, <1>4, <1>5
<1>7. \A i \in k..n : M[i] = L[i]
  BY <1>1
<1>8. \A i \in 0..l : M[n + i] = N[i]
  <2>1. ASSUME NEW i \in 0..l
        PROVE  M[n + i] = N[i]
    <3>1. n + i \in k..(n + l) /\ (n + i <= n => i = 0) /\ n + i - n = i
      BY <1>1
    <3>2. CASE i = 0
      <4>1. M[n] = L[n]
        BY <1>1, <1>7
      <4> QED BY <1>3, <1>4, <3>2, <4>1
    <3>3. CASE i # 0
      BY <3>1, <3>3
    <3> QED BY <3>2, <3>3
  <2> QED BY <2>1
<1>9. ASSUME NEW i \in k..(n + l - 1)
      PROVE  RowOK(g, M[i], p[i + 1]) /\ M[i + 1] = RowTo(M[i], p[i + 1])
  <2>1. CASE i < n
    <3>1. i \in k..(n - 1) /\ i + 1 \in 1..n /\ i \in k..n /\ i + 1 \in k..n
      BY <1>1, <2>1
    <3>2. RowOK(g, L[i], q[i + 1]) /\ L[i + 1] = RowTo(L[i], q[i + 1])
      BY <1>1, <1>3, <3>1 DEF Steps
    <3>3. M[i] = L[i] /\ M[i + 1] = L[i + 1] /\ p[i + 1] = q[i + 1]
      BY <1>2, <1>7, <3>1
    <3> QED BY <3>2, <3>3
  <2>2. CASE i >= n
    <3>1. PICK j \in 0..(l - 1) : i = n + j
      <4>1. i - n \in 0..(l - 1) /\ i = n + (i - n)
        BY <1>1, <2>2
      <4> QED BY <4>1
    <3>2. j \in 0..l /\ j + 1 \in 0..l /\ j + 1 \in 1..l /\ i + 1 = n + (j + 1)
      BY <3>1
    <3>3. RowOK(g, N[j], r[j + 1]) /\ N[j + 1] = RowTo(N[j], r[j + 1])
      BY <1>1, <1>4, <3>1 DEF Steps
    <3>4. M[i] = N[j] /\ M[i + 1] = N[j + 1] /\ p[i + 1] = r[j + 1]
      <4> HIDE DEF M
      <4> QED BY <1>2, <1>8, <3>1, <3>2
    <3> QED BY <3>3, <3>4
  <2> QED BY <1>1, <2>1, <2>2
<1> HIDE DEF M
<1>10. Steps(g, M, p, k)
  BY <1>2, <1>9 DEF Steps
<1>11. M[k] = s /\ M[n + l] = t
  <2>1. k \in k..n /\ l \in 0..l
    BY <1>1
  <2> QED BY <1>3, <1>4, <1>7, <1>8, <2>1
<1>12. Leads(g, s, p, k, t)
  BY <1>2, <1>6, <1>10, <1>11 DEF Leads
<1> QED BY <1>0, <1>2, <1>12

-----------------------------------------------------------------------------
(* The batches of log2producer are runs of the ledger. *)

\* The ledger between two batches: the chain up to c is confirmed, M is not.
St(c, M) == LS(c, Solid(c), M)

\* The parts of the state that a chain and a repository make up.
LEMMA StFacts ==
    ASSUME NEW c \in Block \cup {Begin}, NEW M \in SUBSET Tx
    PROVE  /\ St(c, M) \in LState
           /\ St(c, M).tip = c /\ St(c, M).conf = Solid(c) /\ St(c, M).unc = M
           /\ Solid(c) \subseteq Tx \cup Block
           /\ \A t \in Tx : t \in All(St(c, M)) <=> t \in ChainTxs(c) \cup M
<1>1. Solid(c) \subseteq Tx \cup Block /\ Solid(c) \cap Tx = ChainTxs(c)
  BY SolidFacts
<1>2. M \in SUBSET (Tx \cup Block) /\ Solid(c) \in SUBSET (Tx \cup Block)
  BY <1>1
<1>3. /\ St(c, M) \in LState
      /\ St(c, M).tip = c /\ St(c, M).conf = Solid(c) /\ St(c, M).unc = M
  BY <1>2, LSType DEF St
<1> HIDE DEF St
<1> QED BY <1>1, <1>3 DEF All

\* The parts of a row.
LEMMA RowFacts ==
    ASSUME NEW x \in Tx \cup Block,
           NEW type \in {"accept", "confirm", "unconfirm", "reject"}
    PROVE  TxRow(type, x) \in Row /\ TxRow(type, x).type = type /\ TxRow(type, x).tx = x
BY DEF TxRow, Row

\* handleTxAccept(): the row of a new transaction.
LEMMA AcceptRun ==
    ASSUME NEW g, NEW c \in Block \cup {Begin}, NEW M \in SUBSET Tx, NEW t \in Tx,
           t \notin ChainTxs(c) \cup M, Conflicts(t) \cap (ChainTxs(c) \cup M) = {},
           g \/ Parents(t) \subseteq ChainTxs(c) \cup M
    PROVE  Leads(g, St(c, M), <<TxRow("accept", t)>>, 0, St(c, M \cup {t}))
<1>1. PICK s \in LState : s = St(c, M) /\ s.tip = c /\ s.conf = Solid(c) /\ s.unc = M
  BY StFacts
<1>2. PICK r \in Row : r = TxRow("accept", t) /\ r.type = "accept" /\ r.tx = t
  BY RowFacts
<1>3. t \notin All(s) /\ Conflicts(t) \cap All(s) = {} /\ (g \/ Parents(t) \subseteq All(s))
  BY <1>1, StFacts DEF Conflicts, Parents
<1>4. RowOK(g, s, r)
  BY <1>2, <1>3 DEF RowOK, TxOK
<1>5. RowTo(s, r) = St(c, M \cup {t})
  <2>1. t \notin Block /\ t \notin Solid(c)
    BY TxGraphAssumption, SolidFacts
  <2>2. TipTo(s, r) = c
    BY <1>1, <1>2, <2>1 DEF TipTo
  <2>3. s.conf \ {r.tx} = Solid(c) /\ s.unc \cup {r.tx} = M \cup {t}
    BY <1>1, <1>2, <2>1
  <2> QED BY <1>2, <2>2, <2>3 DEF RowTo, St
<1> QED BY <1>1, <1>2, <1>4, <1>5, LeadsOne

\* An order that names every member of a finite set once.
LEMMA LeafOrder ==
    ASSUME NEW D \in SUBSET Tx, NEW q \in LeafFirst(D)
    PROVE  /\ q \in Seq(Tx)
           /\ \A i \in 1..Len(q) : q[i] \in D
           /\ \A t \in D : \E i \in 1..Len(q) : q[i] = t
           /\ \A i, j \in 1..Len(q) : q[i] = q[j] => i = j
           /\ \A i, j \in 1..Len(q) : i < j => q[i] \notin Parents(q[j])
<1>1. IsFiniteSet(D) /\ Cardinality(D) \in Nat
  BY FS_Subset, FS_CardinalityType, TxGraphAssumption
<1>2. PICK n \in Nat : n = Cardinality(D)
  BY <1>1
<1>3. /\ q \in [1..n -> D]
      /\ \A t \in D : \E i \in 1..n : q[i] = t
      /\ \A i, j \in 1..n : i < j => Vout[q[i]] \cap Vin[q[j]] = {}
  BY <1>2 DEF LeafFirst
<1>4. q \in Seq(Tx) /\ Len(q) = n
  <2>1. q \in Seq(Tx)
    BY LeafFirstType
  <2>2. DOMAIN q = 1..n /\ DOMAIN q = 1..Len(q) /\ Len(q) \in Nat
    BY <1>3, <2>1
  <2> QED BY <2>1, <2>2
<1>5. q \in Injection(1..n, D)
  <2>1. q \in Surjection(1..n, D)
    BY <1>3 DEF Surjection
  <2>2. IsFiniteSet(1..n) /\ Cardinality(1..n) = n
    <3>1. 1 \in Int /\ n \in Int /\ (IF 1 > n THEN 0 ELSE n - 1 + 1) = n
      OBVIOUS
    <3> QED BY <3>1, FS_Interval
  <2> QED BY <1>2, <2>1, <2>2, FS_SurjSameCardinalityImpliesInj
<1>6. \A i, j \in 1..n : q[i] = q[j] => i = j
  BY <1>5 DEF Injection, IsInjective
<1>7. \A i, j \in 1..n : i < j => q[i] \notin Parents(q[j])
  BY <1>3 DEF Parents
<1> QED BY <1>3, <1>4, <1>6, <1>7

\* Rows that reject D, leaves first, where D is closed under spending in M.
LEMMA RejectRun ==
    ASSUME NEW g, NEW c \in Block \cup {Begin}, NEW M \in SUBSET Tx, M \cap ChainTxs(c) = {},
           NEW D \in SUBSET M, \A u \in D, v \in M : u \in Parents(v) => v \in D,
           NEW q \in LeafFirst(D)
    PROVE  RejectRows(q) \in Seq(Row) /\ Leads(g, St(c, M), RejectRows(q), 0, St(c, M \ D))
<1>0. D \in SUBSET Tx
  OBVIOUS
<1>1. PICK n \in Nat : /\ n = Len(q)
                       /\ \A i \in 1..n : q[i] \in D
                       /\ \A t \in D : \E i \in 1..n : q[i] = t
                       /\ \A i, j \in 1..n : q[i] = q[j] => i = j
                       /\ \A i, j \in 1..n : i < j => q[i] \notin Parents(q[j])
  <2>1. q \in Seq(Tx)
    BY <1>0, LeafOrder
  <2>2. Len(q) \in Nat
    BY <2>1
  <2> QED BY <1>0, <2>2, LeafOrder
<1>2. PICK p \in Seq(Row) : /\ p = RejectRows(q) /\ Len(p) = n
                            /\ \A i \in 1..n : p[i] = TxRow("reject", q[i])
  <2>1. q \in Seq(Tx)
    BY <1>0, LeafOrder
  <2>2. RejectRows(q) \in Seq(Row)
    BY <2>1, RejectRowsType
  <2>3. Len(RejectRows(q)) = n /\ \A i \in 1..n : RejectRows(q)[i] = TxRow("reject", q[i])
    BY <1>1 DEF RejectRows
  <2> QED BY <2>2, <2>3
<1> DEFINE Gone(i) == {q[j] : j \in 1..i}
           L == [i \in 0..n |-> St(c, M \ Gone(i))]
<1>3. \A i \in 0..n : L[i] = St(c, M \ Gone(i))
  OBVIOUS
<1>4. L \in [0..n -> LState]
  <2>1. \A i \in 0..n : St(c, M \ Gone(i)) \in LState
    BY StFacts
  <2> QED BY <2>1
<1>5. L[0] = St(c, M) /\ L[n] = St(c, M \ D)
  <2>1. Gone(0) = {} /\ Gone(n) = D
    BY <1>1
  <2>2. M \ Gone(0) = M /\ M \ Gone(n) = M \ D
    BY <2>1
  <2>3. 0 \in 0..n /\ n \in 0..n
    OBVIOUS
  <2>4. L[0] = St(c, M \ Gone(0)) /\ L[n] = St(c, M \ Gone(n))
    BY <1>3, <2>3
  <2> HIDE DEF L, Gone
  <2> QED BY <2>2, <2>4
<1>6. ASSUME NEW i \in 0..(n - 1)
      PROVE  RowOK(g, L[i], p[i + 1]) /\ L[i + 1] = RowTo(L[i], p[i + 1])
  <2>1. i \in 0..n /\ i + 1 \in 0..n /\ i + 1 \in 1..n /\ \A j \in 1..i : j \in 1..n /\ j # i + 1
    OBVIOUS
  <2>2. PICK x \in D : x = q[i + 1]
    BY <1>1, <2>1
  <2>3. PICK r \in Row : r = p[i + 1] /\ r.type = "reject" /\ r.tx = x
    BY <1>2, <2>1, <2>2, RowFacts
  <2>4. PICK s \in LState : /\ s = L[i] /\ s.tip = c /\ s.conf = Solid(c) /\ s.unc = M \ Gone(i)
                            /\ \A t \in Tx : t \in All(s) <=> t \in ChainTxs(c) \cup (M \ Gone(i))
    <3>1. M \ Gone(i) \in SUBSET Tx
      OBVIOUS
    <3>2. PICK U \in SUBSET Tx : U = M \ Gone(i)
      BY <3>1
    <3>3. L[i] = St(c, U)
      BY <1>3, <2>1, <3>2
    <3> HIDE DEF L, Gone
    <3>4. /\ St(c, U) \in LState
          /\ St(c, U).tip = c /\ St(c, U).conf = Solid(c) /\ St(c, U).unc = U
          /\ \A t \in Tx : t \in All(St(c, U)) <=> t \in ChainTxs(c) \cup U
      BY StFacts
    <3> QED BY <3>2, <3>3, <3>4
  <2>5. x \notin Gone(i)
    BY <1>1, <2>1, <2>2
  <2>6. Gone(i + 1) = Gone(i) \cup {x}
    <3>1. 1..(i + 1) = 1..i \cup {i + 1}
      OBVIOUS
    <3> QED BY <2>2, <3>1
  <2>7. ASSUME NEW v \in Tx, x \in Parents(v)
        PROVE  v \notin All(s)
    <3>1. v \notin ChainTxs(c)
      <4>1. x \notin ChainTxs(c)
        OBVIOUS
      <4> QED BY <2>7, <4>1, ChainValid
    <3>2. v \notin M \ Gone(i)
      <4>1. SUFFICES ASSUME v \in M, v \notin Gone(i)
                     PROVE  FALSE
        OBVIOUS
      <4>2. v \in D
        BY <2>7, <4>1
      <4>3. PICK j \in 1..n : q[j] = v
        BY <1>1, <4>2
      <4>4. CASE j < i + 1
        <5>1. j \in 1..i
          BY <4>4
        <5> QED BY <4>1, <4>3, <5>1
      <4>5. CASE j = i + 1
        <5>1. x \in Parents(x) /\ x \in Tx
          BY <2>2, <2>7, <4>3, <4>5
        <5> QED BY <5>1, ConsensusAssumption
      <4>6. CASE i + 1 < j
        <5>1. q[i + 1] \notin Parents(q[j])
          BY <1>1, <2>1, <4>6
        <5> QED BY <2>2, <2>7, <4>3, <5>1
      <4> QED BY <4>4, <4>5, <4>6
    <3> QED BY <2>4, <3>1, <3>2
  <2>8. RowOK(g, s, r)
    <3>1. x \in s.unc /\ x \in Tx
      BY <2>4, <2>5
    <3> QED BY <2>3, <2>7, <3>1 DEF RowOK, TxOK
  <2>9. RowTo(s, r) = St(c, M \ Gone(i + 1))
    <3>1. x \notin Block /\ x \notin Solid(c)
      BY TxGraphAssumption, SolidFacts
    <3>2. TipTo(s, r) = c
      BY <2>3, <2>4, <3>1 DEF TipTo
    <3>3. s.conf \ {r.tx} = Solid(c) /\ s.unc \ {r.tx} = M \ Gone(i + 1)
      <4> HIDE DEF Gone
      <4> QED BY <2>3, <2>4, <2>6, <3>1
    <3> HIDE DEF Gone
    <3> QED BY <2>3, <3>2, <3>3 DEF RowTo, St
  <2>10. L[i + 1] = St(c, M \ Gone(i + 1))
    BY <1>3, <2>1
  <2> HIDE DEF L, Gone
  <2> QED BY <2>3, <2>4, <2>8, <2>9, <2>10
<1> HIDE DEF L, Gone
<1>7. Steps(g, L, p, 0)
  BY <1>2, <1>6 DEF Steps
<1>8. Leads(g, St(c, M), p, 0, St(c, M \ D))
  BY <1>2, <1>4, <1>5, <1>7 DEF Leads
<1> QED BY <1>2, <1>8

\* The transactions of b before the k-th, and the ledger when they are confirmed.
First(b, k) == {Vtx[b][i] : i \in 1..(k - 1)}
Base(b) == Solid(Prev[b]) \cup {b}
MidAt(b, K, U) == LS(b, Base(b) \cup K, U)
Mid(b, k, M) == MidAt(b, First(b, k), M \ First(b, k))

\* What is solid while block b is being confirmed.
LEMMA BaseFacts ==
    ASSUME NEW b \in Block
    PROVE  /\ Base(b) \subseteq Tx \cup Block /\ b \in Base(b) /\ b \notin Tx
           /\ Base(b) \cap Tx = ChainTxs(Prev[b])
           /\ Solid(b) = Base(b) \cup BlockTxs(b)
<1>1. Prev[b] \in Block \cup {Begin} /\ b \notin Tx
  BY BlockTreeAssumption, TxGraphAssumption
<1> QED BY <1>1, SolidFacts DEF Base

\* The transaction that comes next in a block: new, its parents on the chain or
\* before it, and nothing there in conflict with it.
LEMMA FirstFacts ==
    ASSUME NEW b \in Block, NEW k \in 1..Len(Vtx[b]), NEW t, t = Vtx[b][k]
    PROVE  /\ First(b, k) \subseteq Tx
           /\ t \in Tx /\ t \notin First(b, k) /\ t \notin ChainTxs(Prev[b])
           /\ Parents(t) \subseteq ChainTxs(Prev[b]) \cup First(b, k)
           /\ Conflicts(t) \cap (ChainTxs(Prev[b]) \cup First(b, k)) = {}
           /\ First(b, k + 1) = First(b, k) \cup {t}
<1>1. Vtx[b] \in Seq(Tx)
  BY TxGraphAssumption
<1>2. k \in Nat /\ Len(Vtx[b]) \in Nat /\ k + 1 - 1 = k /\ 1..k = 1..(k - 1) \cup {k}
  BY <1>1
<1>3. \A i \in 1..(k - 1) : i \in 1..Len(Vtx[b])
  BY <1>2
<1>4. First(b, k) \subseteq Tx /\ t \in Tx
  BY <1>1, <1>3 DEF First
<1>5. /\ t \notin ChainTxs(Prev[b]) \cup First(b, k)
      /\ Parents(t) \subseteq ChainTxs(Prev[b]) \cup First(b, k)
      /\ Conflicts(t) \cap (ChainTxs(Prev[b]) \cup First(b, k)) = {}
  BY ConsensusAssumption DEF First
<1>6. First(b, k + 1) = First(b, k) \cup {t}
  BY <1>2 DEF First
<1> QED BY <1>4, <1>5, <1>6

\* Before the loop no transaction of the block is done, behind it all are.
LEMMA FirstEnds ==
    ASSUME NEW b \in Block
    PROVE  First(b, 1) = {} /\ First(b, Len(Vtx[b]) + 1) = BlockTxs(b)
<1>1. Vtx[b] \in Seq(Tx)
  BY TxGraphAssumption
<1>2. Len(Vtx[b]) + 1 - 1 = Len(Vtx[b]) /\ 1..(1 - 1) = {}
  BY <1>1
<1> QED BY <1>2 DEF First, BlockTxs

\* The parts of the state in the middle of a block.
LEMMA MidFacts ==
    ASSUME NEW b \in Block, NEW K \in SUBSET Tx, NEW U \in SUBSET Tx
    PROVE  /\ MidAt(b, K, U) \in LState
           /\ MidAt(b, K, U).tip = b
           /\ MidAt(b, K, U).conf = Base(b) \cup K
           /\ MidAt(b, K, U).unc = U
           /\ \A t \in Tx : t \in All(MidAt(b, K, U)) <=> t \in ChainTxs(Prev[b]) \cup K \cup U
<1>1. Base(b) \subseteq Tx \cup Block /\ Base(b) \cap Tx = ChainTxs(Prev[b])
  BY BaseFacts
<1>2. /\ MidAt(b, K, U) \in LState
      /\ MidAt(b, K, U).tip = b
      /\ MidAt(b, K, U).conf = Base(b) \cup K
      /\ MidAt(b, K, U).unc = U
  <2>1. Base(b) \cup K \in SUBSET (Tx \cup Block) /\ U \in SUBSET (Tx \cup Block) /\ b \in Block \cup {Begin}
    BY <1>1
  <2> QED BY <2>1, LSType DEF MidAt
<1> QED BY <1>1, <1>2 DEF All

\* The same, as a state to work with.
LEMMA MidFirst ==
    ASSUME NEW b \in Block, NEW K, K \subseteq Tx, NEW U \in SUBSET Tx
    PROVE  \E s \in LState : /\ s = MidAt(b, K, U)
                             /\ s.tip = b /\ s.conf = Base(b) \cup K /\ s.unc = U
                             /\ \A x \in Tx : x \in All(s) <=> x \in ChainTxs(Prev[b]) \cup K \cup U
<1>1. PICK L \in SUBSET Tx : L = K
  OBVIOUS
<1>2. MidAt(b, L, U) \in LState
  BY MidFacts
<1>3. MidAt(b, L, U).tip = b
  BY MidFacts
<1>4. MidAt(b, L, U).conf = Base(b) \cup L
  BY MidFacts
<1>5. MidAt(b, L, U).unc = U
  BY MidFacts
<1>6. \A x \in Tx : x \in All(MidAt(b, L, U)) <=> x \in ChainTxs(Prev[b]) \cup L \cup U
  BY MidFacts
<1>7. PICK s : s = MidAt(b, L, U)
  OBVIOUS
<1>8. s \in LState /\ s.tip = b /\ s.conf = Base(b) \cup L /\ s.unc = U
  BY <1>2, <1>3, <1>4, <1>5, <1>7
<1> QED BY <1>1, <1>6, <1>7, <1>8

\* Two rows joined.
LEMMA PairRows ==
    ASSUME NEW r \in Row, NEW p \in Row
    PROVE  <<r>> \o <<p>> = <<r, p>>
<1>1. <<r>> \in Seq(Row) /\ <<p>> \in Seq(Row) /\ <<r, p>> \in Seq(Row)
  OBVIOUS
<1>2. Len(<<r>>) = 1 /\ Len(<<p>>) = 1 /\ Len(<<r, p>>) = 2 /\ <<r>>[1] = r /\ <<p>>[1] = p
      /\ <<r, p>>[1] = r /\ <<r, p>>[2] = p
  OBVIOUS
<1>3. /\ Len(<<r>> \o <<p>>) = Len(<<r>>) + Len(<<p>>)
      /\ \A i \in 1..Len(<<r>>) : (<<r>> \o <<p>>)[i] = <<r>>[i]
      /\ \A i \in 1..Len(<<p>>) : (<<r>> \o <<p>>)[Len(<<r>>) + i] = <<p>>[i]
  BY <1>1, ConcatParts
<1>4. PICK q \in Seq(Row) : q = <<r>> \o <<p>>
  BY <1>1, RowsConcat
<1>5. 1 \in 1..1
  OBVIOUS
<1>6. Len(q) = 2 /\ q[1] = r /\ q[2] = p
  <2>1. q[1] = <<r>>[1] /\ q[1 + 1] = <<p>>[1]
    BY <1>2, <1>3, <1>4, <1>5
  <2> QED BY <1>2, <1>3, <1>4, <2>1
<1>7. q = <<r, p>>
  BY <1>6
<1> QED BY <1>4, <1>7

\* handleBlockAccept(): the coinbase rows ...
LEMMA CoinbaseRun ==
    ASSUME NEW g, NEW b \in Block, NEW M \in SUBSET Tx
    PROVE  Leads(g, St(Prev[b], M), <<TxRow("accept", b), TxRow("confirm", b)>>, 0, Mid(b, 1, M))
<1>0. Prev[b] \in Block \cup {Begin} /\ b \notin Tx
  BY BlockTreeAssumption, TxGraphAssumption
<1>1. PICK s \in LState : s = St(Prev[b], M) /\ s.tip = Prev[b] /\ s.conf = Solid(Prev[b]) /\ s.unc = M
  BY <1>0, StFacts
<1>2. PICK r \in Row : r = TxRow("accept", b) /\ r.type = "accept" /\ r.tx = b
  BY RowFacts
<1>3. PICK p \in Row : p = TxRow("confirm", b) /\ p.type = "confirm" /\ p.tx = b
  BY RowFacts
<1>4. b \notin M /\ b \notin Solid(Prev[b]) /\ Block \cap M = {}
  BY TxGraphAssumption, SolidFacts
<1>5. RowOK(g, s, r)
  <2>1. s.tip \in Block => BlockTxs(s.tip) \subseteq s.conf
    BY <1>0, <1>1, SolidFacts
  <2>2. b \notin All(s)
    BY <1>1, <1>4 DEF All
  <2> QED BY <1>1, <1>2, <1>4, <2>1, <2>2 DEF RowOK, CoinbaseOK
<1>6. RowTo(s, r) = LS(Prev[b], Solid(Prev[b]), M \cup {b})
  <2>1. TipTo(s, r) = Prev[b]
    BY <1>1, <1>2 DEF TipTo
  <2>2. s.conf \ {r.tx} = Solid(Prev[b]) /\ s.unc \cup {r.tx} = M \cup {b}
    BY <1>1, <1>2, <1>4
  <2> QED BY <1>2, <2>1, <2>2 DEF RowTo
<1>7. PICK u \in LState : /\ u = RowTo(s, r) /\ u.tip = Prev[b]
                          /\ u.conf = Solid(Prev[b]) /\ u.unc = M \cup {b}
  <2>1. Solid(Prev[b]) \in SUBSET (Tx \cup Block) /\ M \cup {b} \in SUBSET (Tx \cup Block)
    BY <1>0, SolidFacts
  <2> QED BY <1>0, <1>6, <2>1, LSType
<1>8. RowOK(g, u, p)
  BY <1>3, <1>7 DEF RowOK, CoinbaseOK
<1>9. RowTo(u, p) = Mid(b, 1, M)
  <2>1. TipTo(u, p) = b
    BY <1>3 DEF TipTo
  <2>2. First(b, 1) = {}
    BY FirstEnds
  <2>3. u.conf \cup {p.tx} = Base(b) \cup First(b, 1) /\ u.unc \ {p.tx} = M \ First(b, 1)
    BY <1>3, <1>4, <1>7, <2>2 DEF Base
  <2> QED BY <1>3, <2>1, <2>3 DEF RowTo, Mid, MidAt
<1>10. <<r>> \in Seq(Row) /\ Leads(g, s, <<r>>, 0, u)
  BY <1>5, <1>7, LeadsOne
<1>11. <<p>> \in Seq(Row) /\ Leads(g, u, <<p>>, 0, Mid(b, 1, M))
  BY <1>8, <1>9, LeadsOne
<1>12. Leads(g, s, <<r>> \o <<p>>, 0, Mid(b, 1, M))
  <2>1. 0 \in 0..Len(<<r>>)
    BY <1>10
  <2> QED BY <1>10, <1>11, <2>1, LeadsThen
<1>13. <<r>> \o <<p>> = <<r, p>>
  BY PairRows
<1> QED BY <1>1, <1>2, <1>3, <1>12, <1>13

\* ... the row that confirms the k-th transaction when it is present ...
LEMMA ConfirmStep ==
    ASSUME NEW g, NEW b \in Block, NEW k \in 1..Len(Vtx[b]), NEW t, t = Vtx[b][k],
           NEW U \in SUBSET Tx, t \in U
    PROVE  /\ <<TxRow("confirm", t)>> \in Seq(Row)
           /\ Leads(g, MidAt(b, First(b, k), U), <<TxRow("confirm", t)>>, 0,
                    MidAt(b, First(b, k + 1), U \ {t}))
<1>1. /\ First(b, k) \in SUBSET Tx /\ t \in Tx
      /\ Parents(t) \subseteq ChainTxs(Prev[b]) \cup First(b, k)
      /\ First(b, k + 1) = First(b, k) \cup {t}
  BY FirstFacts
<1>2. PICK s \in LState : /\ s = MidAt(b, First(b, k), U)
                          /\ s.tip = b /\ s.conf = Base(b) \cup First(b, k) /\ s.unc = U
  <2>1. PICK F : F = First(b, k)
    OBVIOUS
  <2>2. F \subseteq Tx
    BY <1>1, <2>1
  <2>3. \E s \in LState : /\ s = MidAt(b, F, U)
                          /\ s.tip = b /\ s.conf = Base(b) \cup F /\ s.unc = U
                          /\ \A x \in Tx : x \in All(s) <=> x \in ChainTxs(Prev[b]) \cup F \cup U
    BY <2>2, MidFirst, Zenon
  <2> QED BY <2>1, <2>3, Zenon
<1>3. PICK r \in Row : r = TxRow("confirm", t) /\ r.type = "confirm" /\ r.tx = t
  BY <1>1, RowFacts
<1>4. RowOK(g, s, r)
  <2>1. Parents(t) \subseteq s.conf /\ b \in s.conf
    BY <1>1, <1>2, BaseFacts
  <2>2. \E i \in 1..Len(Vtx[b]) : Vtx[b][i] = t /\ \A j \in 1..(i - 1) : Vtx[b][j] \in s.conf
    <3>1. \A j \in 1..(k - 1) : Vtx[b][j] \in First(b, k)
      BY DEF First
    <3> QED BY <1>2, <3>1
  <2> QED BY <1>1, <1>2, <1>3, <2>1, <2>2 DEF RowOK, TxOK
<1>5. RowTo(s, r) = MidAt(b, First(b, k + 1), U \ {t})
  <2>1. t \notin Block
    BY <1>1, TxGraphAssumption
  <2>2. TipTo(s, r) = b
    BY <1>2, <1>3, <2>1 DEF TipTo
  <2>3. s.conf \cup {r.tx} = Base(b) \cup First(b, k + 1) /\ s.unc \ {r.tx} = U \ {t}
    BY <1>1, <1>2, <1>3
  <2> QED BY <1>3, <2>2, <2>3 DEF RowTo, MidAt
<1> QED BY <1>2, <1>3, <1>4, <1>5, LeadsOne

\* The row of a transaction of the block that was in memory.
LEMMA ConfirmRun ==
    ASSUME NEW g, NEW b \in Block, NEW k \in 1..Len(Vtx[b]), NEW t, t = Vtx[b][k],
           NEW M \in SUBSET Tx, t \in M
    PROVE  Leads(g, Mid(b, k, M), <<TxRow("confirm", t)>>, 0, Mid(b, k + 1, M))
<1>1. First(b, k + 1) = First(b, k) \cup {t} /\ t \notin First(b, k)
  BY FirstFacts
<1>2. PICK U \in SUBSET Tx : U = M \ First(b, k)
  OBVIOUS
<1>3. t \in U /\ U \ {t} = M \ First(b, k + 1)
  BY <1>1, <1>2
<1> QED BY <1>2, <1>3, ConfirmStep DEF Mid

\* ... and the two rows of one that log2producer had not seen.
LEMMA NewTxRun ==
    ASSUME NEW g, NEW b \in Block, NEW k \in 1..Len(Vtx[b]), NEW t, t = Vtx[b][k],
           NEW M \in SUBSET Tx, t \notin M, Conflicts(t) \cap M = {}
    PROVE  Leads(g, Mid(b, k, M), <<TxRow("accept", t), TxRow("confirm", t)>>, 0, Mid(b, k + 1, M))
<1>1. /\ First(b, k) \in SUBSET Tx /\ t \in Tx /\ t \notin First(b, k) /\ t \notin ChainTxs(Prev[b])
      /\ Parents(t) \subseteq ChainTxs(Prev[b]) \cup First(b, k)
      /\ Conflicts(t) \cap (ChainTxs(Prev[b]) \cup First(b, k)) = {}
      /\ First(b, k + 1) = First(b, k) \cup {t}
  BY FirstFacts
<1>2. PICK U \in SUBSET Tx : U = M \ First(b, k)
  OBVIOUS
<1>3. PICK s \in LState : /\ s = MidAt(b, First(b, k), U)
                          /\ s.tip = b /\ s.conf = Base(b) \cup First(b, k) /\ s.unc = U
                          /\ \A x \in Tx : x \in All(s) <=> x \in ChainTxs(Prev[b]) \cup First(b, k) \cup U
  <2>1. PICK F : F = First(b, k)
    OBVIOUS
  <2>2. F \subseteq Tx
    BY <1>1, <2>1
  <2>3. \E s \in LState : /\ s = MidAt(b, F, U)
                          /\ s.tip = b /\ s.conf = Base(b) \cup F /\ s.unc = U
                          /\ \A x \in Tx : x \in All(s) <=> x \in ChainTxs(Prev[b]) \cup F \cup U
    BY <2>2, MidFirst, Zenon
  <2> QED BY <2>1, <2>3, Zenon
<1>4. PICK r \in Row : r = TxRow("accept", t) /\ r.type = "accept" /\ r.tx = t
  BY <1>1, RowFacts
<1>5. RowOK(g, s, r)
  <2>1. t \notin All(s) /\ Conflicts(t) \cap All(s) = {} /\ Parents(t) \subseteq All(s)
    <3>1. Conflicts(t) \subseteq Tx /\ Parents(t) \subseteq Tx
      BY DEF Conflicts, Parents
    <3> QED BY <1>1, <1>2, <1>3, <3>1
  <2> QED BY <1>1, <1>4, <2>1 DEF RowOK, TxOK
<1>6. RowTo(s, r) = MidAt(b, First(b, k), U \cup {t})
  <2>1. t \notin Block /\ t \notin Base(b)
    BY <1>1, TxGraphAssumption, BaseFacts
  <2>2. TipTo(s, r) = b
    BY <1>3, <1>4, <2>1 DEF TipTo
  <2>3. s.conf \ {r.tx} = Base(b) \cup First(b, k) /\ s.unc \cup {r.tx} = U \cup {t}
    <3>1. t \notin s.conf /\ s.conf = Base(b) \cup First(b, k) /\ s.unc = U /\ r.tx = t
      BY <1>1, <1>3, <1>4, <2>1
    <3> QED BY <3>1
  <2> QED BY <1>4, <2>2, <2>3 DEF RowTo, MidAt
<1>7. <<r>> \in Seq(Row) /\ Leads(g, s, <<r>>, 0, RowTo(s, r))
  BY <1>5, LeadsOne
<1>8. /\ <<TxRow("confirm", t)>> \in Seq(Row)
      /\ Leads(g, RowTo(s, r), <<TxRow("confirm", t)>>, 0, Mid(b, k + 1, M))
  <2>1. U \cup {t} \in SUBSET Tx /\ t \in U \cup {t} /\ (U \cup {t}) \ {t} = M \ First(b, k + 1)
    BY <1>1, <1>2
  <2>2. PICK V \in SUBSET Tx : V = U \cup {t} /\ t \in V /\ V \ {t} = M \ First(b, k + 1)
    BY <2>1
  <2>3. /\ <<TxRow("confirm", t)>> \in Seq(Row)
        /\ Leads(g, MidAt(b, First(b, k), V), <<TxRow("confirm", t)>>, 0,
                 MidAt(b, First(b, k + 1), V \ {t}))
    BY <2>2, ConfirmStep
  <2> QED BY <1>6, <2>2, <2>3 DEF Mid
<1>9. Leads(g, s, <<r>> \o <<TxRow("confirm", t)>>, 0, Mid(b, k + 1, M))
  <2>1. 0 \in 0..Len(<<r>>)
    BY <1>7
  <2> QED BY <1>7, <1>8, <2>1, LeadsThen
<1>10. <<r>> \o <<TxRow("confirm", t)>> = <<r, TxRow("confirm", t)>>
  BY <1>1, RowFacts, PairRows
<1> QED BY <1>2, <1>3, <1>4, <1>9, <1>10 DEF Mid

\* With all its transactions confirmed, the block is on the chain and they are
\* out of the repository.
LEMMA MidEnd ==
    ASSUME NEW b \in Block, NEW M
    PROVE  Mid(b, Len(Vtx[b]) + 1, M) = St(b, M \ BlockTxs(b))
<1>1. Base(b) \cup First(b, Len(Vtx[b]) + 1) = Solid(b) /\ M \ First(b, Len(Vtx[b]) + 1) = M \ BlockTxs(b)
  BY FirstEnds, BaseFacts
<1> QED BY <1>1 DEF Mid, MidAt, St

\* The loop over a block only adds.
LEMMA FirstGrows ==
    ASSUME NEW b \in Block, NEW j \in Nat, NEW k \in Nat, j <= k
    PROVE  First(b, j) \subseteq First(b, k)
<1>1. \A i \in 1..(j - 1) : i \in 1..(k - 1)
  OBVIOUS
<1> QED BY <1>1 DEF First

UndoAt(b, k, M) == MidAt(b, First(b, k), M \cup (BlockTxs(b) \ First(b, k)))

\* handleBlockRollback(): one transaction of the block is unconfirmed, the last
\* one that is still confirmed ...
LEMMA UndoStep ==
    ASSUME NEW g, NEW b \in Block, NEW k \in 1..Len(Vtx[b]), NEW M \in SUBSET Tx
    PROVE  /\ UndoAt(b, k + 1, M) \in LState
           /\ RowOK(g, UndoAt(b, k + 1, M), TxRow("unconfirm", Vtx[b][k]))
           /\ RowTo(UndoAt(b, k + 1, M), TxRow("unconfirm", Vtx[b][k])) = UndoAt(b, k, M)
<1>0. PICK t, F, E, B, s, r : /\ t = Vtx[b][k] /\ F = First(b, k + 1) /\ E = First(b, k)
                              /\ B = BlockTxs(b) /\ s = MidAt(b, F, M \cup (B \ F))
                              /\ r = TxRow("unconfirm", t)
  OBVIOUS
<1>1. /\ E \subseteq Tx /\ t \in Tx /\ t \notin E /\ t \notin ChainTxs(Prev[b]) /\ F = E \cup {t}
  BY <1>0, FirstFacts
<1>2. B \subseteq Tx /\ t \in B /\ F \subseteq Tx /\ k \in Nat
  BY <1>0, <1>1, BlockTxsType, TxGraphAssumption DEF BlockTxs
<1>3. PICK U \in SUBSET Tx : U = M \cup (B \ F)
  BY <1>2
<1>4. s \in LState /\ s.tip = b /\ s.conf = Base(b) \cup F /\ s.unc = U
  <2>1. \E u \in LState : /\ u = MidAt(b, F, U)
                          /\ u.tip = b /\ u.conf = Base(b) \cup F /\ u.unc = U
                          /\ \A x \in Tx : x \in All(u) <=> x \in ChainTxs(Prev[b]) \cup F \cup U
    <3>1. b \in Block /\ F \subseteq Tx /\ U \in SUBSET Tx
      BY <1>2
    <3> QED BY ONLY <3>1, MidFirst, Zenon
  <2> QED BY <1>0, <1>3, <2>1
<1>5. r \in Row /\ r.type = "unconfirm" /\ r.tx = t
  BY <1>0, <1>1, RowFacts
<1>6. ASSUME NEW c \in Tx, t \in Parents(c)
      PROVE  c \notin s.conf
  <2>1. c \notin ChainTxs(Prev[b])
    BY <1>1, <1>6, ChainValid, BlockTreeAssumption
  <2>2. c \notin F
    <3>1. SUFFICES ASSUME c \in F
                   PROVE  FALSE
      OBVIOUS
    <3>2. PICK j \in 1..(k + 1 - 1) : c = Vtx[b][j]
      BY <1>0, <3>1 DEF First
    <3>3. j \in 1..Len(Vtx[b]) /\ j \in Nat /\ j <= k
      BY <1>2, <3>2, TxGraphAssumption
    <3>4. Parents(c) \subseteq ChainTxs(Prev[b]) \cup First(b, j)
      BY <3>2, <3>3, FirstFacts
    <3>5. First(b, j) \subseteq E
      BY <1>0, <1>2, <3>3, FirstGrows
    <3> QED BY <1>1, <1>6, <3>4, <3>5
  <2>3. c \notin Base(b)
    BY <2>1, BaseFacts
  <2> QED BY <1>4, <2>2, <2>3
<1>7. \A j \in (k + 1)..Len(Vtx[b]) : Vtx[b][j] \notin s.conf
  <2>1. ASSUME NEW j \in (k + 1)..Len(Vtx[b])
        PROVE  Vtx[b][j] \notin s.conf
    <3>1. j \in 1..Len(Vtx[b]) /\ j \in Nat /\ k + 1 \in Nat /\ k + 1 <= j
      BY <1>2, TxGraphAssumption
    <3>2. PICK v \in Tx : v = Vtx[b][j] /\ v \notin First(b, j) /\ v \notin ChainTxs(Prev[b])
      BY <3>1, FirstFacts
    <3>3. F \subseteq First(b, j)
      BY <1>0, <3>1, FirstGrows
    <3>4. v \notin Base(b)
      BY <3>2, BaseFacts
    <3> QED BY <1>4, <3>2, <3>3, <3>4
  <2> QED BY <2>1
<1>8. RowOK(g, s, r)
  <2>1. t \in s.conf /\ b \in s.conf
    BY <1>1, <1>4, BaseFacts
  <2>2. \E i \in 1..Len(Vtx[b]) : Vtx[b][i] = t /\ \A j \in (i + 1)..Len(Vtx[b]) : Vtx[b][j] \notin s.conf
    BY <1>0, <1>7
  <2> QED BY <1>1, <1>4, <1>5, <1>6, <2>1, <2>2 DEF RowOK, TxOK
<1>9. RowTo(s, r) = MidAt(b, E, M \cup (B \ E))
  <2>1. t \notin Block /\ t \notin Base(b)
    BY <1>1, TxGraphAssumption, BaseFacts
  <2>2. TipTo(s, r) = b
    BY <1>4, <1>5 DEF TipTo
  <2>3. s.conf \ {r.tx} = Base(b) \cup E
    BY <1>1, <1>4, <1>5, <2>1
  <2>4. s.unc \cup {r.tx} = M \cup (B \ E)
    <3>1. s.unc \cup {r.tx} = (M \cup (B \ F)) \cup {t} /\ t \in B /\ F = E \cup {t} /\ t \notin E
      BY <1>1, <1>2, <1>3, <1>4, <1>5
    <3>2. (M \cup (B \ F)) \cup {t} = M \cup (B \ E)
      BY ONLY <3>1
    <3> QED BY <3>1, <3>2
  <2> QED BY <1>5, <2>2, <2>3, <2>4 DEF RowTo, MidAt
<1> QED BY <1>0, <1>4, <1>5, <1>8, <1>9 DEF UndoAt

\* ... then the coinbase is, and is rejected.
LEMMA UndoCoinbase ==
    ASSUME NEW g, NEW b \in Block, NEW U \in SUBSET Tx
    PROVE  /\ <<TxRow("unconfirm", b), TxRow("reject", b)>> \in Seq(Row)
           /\ Leads(g, MidAt(b, {}, U), <<TxRow("unconfirm", b), TxRow("reject", b)>>, 0, St(Prev[b], U))
<1>0. Prev[b] \in Block \cup {Begin} /\ b \notin Tx /\ b \notin Solid(Prev[b])
  BY BlockTreeAssumption, TxGraphAssumption, SolidFacts
<1>1. PICK s \in LState : /\ s = MidAt(b, {}, U)
                          /\ s.tip = b /\ s.conf = Base(b) \cup {} /\ s.unc = U
  <2>1. PICK K : K = {}
    OBVIOUS
  <2>2. b \in Block /\ K \subseteq Tx /\ U \in SUBSET Tx
    BY <2>1
  <2>3. \E s \in LState : /\ s = MidAt(b, K, U)
                          /\ s.tip = b /\ s.conf = Base(b) \cup K /\ s.unc = U
                          /\ \A x \in Tx : x \in All(s) <=> x \in ChainTxs(Prev[b]) \cup K \cup U
    BY ONLY <2>2, MidFirst, Zenon
  <2> QED BY <2>1, <2>3, Zenon
<1>2. PICK r \in Row : r = TxRow("unconfirm", b) /\ r.type = "unconfirm" /\ r.tx = b
  BY RowFacts
<1>3. PICK p \in Row : p = TxRow("reject", b) /\ p.type = "reject" /\ p.tx = b
  BY RowFacts
<1>4. RowOK(g, s, r)
  <2>1. BlockTxs(b) \cap Base(b) = {}
    BY BlockTxValid, BaseFacts
  <2>2. b \in s.conf /\ BlockTxs(b) \cap s.conf = {}
    BY <1>1, <2>1, BaseFacts
  <2> QED BY <1>1, <1>2, <2>2 DEF RowOK, CoinbaseOK
<1>5. RowTo(s, r) = LS(b, Solid(Prev[b]), U \cup {b})
  <2>1. TipTo(s, r) = b
    BY <1>1, <1>2 DEF TipTo
  <2>2. s.conf \ {r.tx} = Solid(Prev[b]) /\ s.unc \cup {r.tx} = U \cup {b}
    BY <1>0, <1>1, <1>2 DEF Base
  <2> QED BY <1>2, <2>1, <2>2 DEF RowTo
<1>6. PICK u \in LState : /\ u = RowTo(s, r) /\ u.tip = b
                          /\ u.conf = Solid(Prev[b]) /\ u.unc = U \cup {b}
  <2>1. Solid(Prev[b]) \in SUBSET (Tx \cup Block) /\ U \cup {b} \in SUBSET (Tx \cup Block)
    BY <1>0, SolidFacts
  <2>2. b \in Block \cup {Begin}
    OBVIOUS
  <2> QED BY <1>5, <2>1, <2>2, LSType
<1>7. RowOK(g, u, p)
  BY <1>3, <1>6 DEF RowOK, CoinbaseOK
<1>8. RowTo(u, p) = St(Prev[b], U)
  <2>1. TipTo(u, p) = Prev[b]
    BY <1>3 DEF TipTo
  <2>2. u.conf \ {p.tx} = Solid(Prev[b]) /\ u.unc \ {p.tx} = U
    BY <1>0, <1>3, <1>6
  <2> QED BY <1>3, <2>1, <2>2 DEF RowTo, St
<1>9. <<r>> \in Seq(Row) /\ Leads(g, s, <<r>>, 0, u)
  BY <1>4, <1>6, LeadsOne
<1>10. <<p>> \in Seq(Row) /\ Leads(g, u, <<p>>, 0, St(Prev[b], U))
  BY <1>7, <1>8, LeadsOne
<1>11. <<r>> \o <<p>> \in Seq(Row) /\ Leads(g, s, <<r>> \o <<p>>, 0, St(Prev[b], U))
  <2>1. 0 \in 0..Len(<<r>>)
    BY <1>9
  <2> QED BY <1>9, <1>10, <2>1, LeadsThen
<1>12. <<r>> \o <<p>> = <<r, p>>
  BY PairRows
<1> QED BY <1>1, <1>2, <1>3, <1>11, <1>12

\* The rows of handleBlockRollback() take the block off the chain and put its
\* transactions back.
LEMMA UndoRun ==
    ASSUME NEW g, NEW b \in Block, NEW M \in SUBSET Tx
    PROVE  /\ UnconfirmRows(b) \in Seq(Row)
           /\ Leads(g, St(b, M), UnconfirmRows(b), 0, St(Prev[b], M \cup BlockTxs(b)))
<1>0. PICK V \in Seq(Tx) : V = Vtx[b]
  BY TxGraphAssumption
<1>1. PICK n \in Nat : n = Len(V)
  OBVIOUS
<1>2. PICK B \in SUBSET Tx : B = BlockTxs(b)
  BY BlockTxsType
<1> DEFINE p == [i \in 1..n |-> TxRow("unconfirm", V[n + 1 - i])]
           L == [i \in 0..n |-> UndoAt(b, n + 1 - i, M)]
<1>3. \A i \in 1..n : p[i] = TxRow("unconfirm", V[n + 1 - i]) /\ n + 1 - i \in 1..n /\ V[n + 1 - i] \in Tx
  BY <1>0, <1>1
<1>4. p \in Seq(Row) /\ Len(p) = n
  <2>1. \A i \in 1..n : p[i] \in Row
    BY <1>3, RowFacts
  <2> QED BY <2>1
<1>5. \A i \in 0..n : L[i] = UndoAt(b, n + 1 - i, M)
  OBVIOUS
<1>6. ASSUME NEW i \in 0..(n - 1)
      PROVE  /\ L[i] \in LState /\ RowOK(g, L[i], p[i + 1])
             /\ L[i + 1] = RowTo(L[i], p[i + 1])
  <2>1. PICK k \in 1..n : k = n - i
    <3>1. n - i \in 1..n
      OBVIOUS
    <3> QED BY <3>1
  <2>2. k + 1 = n + 1 - i /\ k = n + 1 - (i + 1) /\ i \in 0..n /\ i + 1 \in 0..n /\ i + 1 \in 1..n
    BY <2>1
  <2>3. p[i + 1] = TxRow("unconfirm", Vtx[b][k])
    BY <1>0, <1>3, <2>2
  <2>4. L[i] = UndoAt(b, k + 1, M) /\ L[i + 1] = UndoAt(b, k, M)
    BY <1>5, <2>2, Zenon
  <2>5. k \in 1..Len(Vtx[b])
    BY <1>0, <1>1
  <2> HIDE DEF L, p
  <2> QED BY <2>3, <2>4, <2>5, UndoStep
<1>7. UndoAt(b, n + 1, M) = St(b, M) /\ UndoAt(b, 1, M) = MidAt(b, {}, M \cup B)
  <2>1. First(b, n + 1) = B /\ First(b, 1) = {} /\ Base(b) \cup B = Solid(b)
    BY <1>0, <1>1, <1>2, FirstEnds, BaseFacts
  <2>2. M \cup (B \ B) = M /\ M \cup (B \ {}) = M \cup B
    OBVIOUS
  <2> QED BY <1>2, <2>1, <2>2 DEF UndoAt, MidAt, St
<1>8. L[0] = St(b, M) /\ L[n] = MidAt(b, {}, M \cup B)
  <2>1. 0 \in 0..n /\ n \in 0..n /\ n + 1 - 0 = n + 1 /\ n + 1 - n = 1
    OBVIOUS
  <2>2. L[0] = UndoAt(b, n + 1, M) /\ L[n] = UndoAt(b, 1, M)
    BY <1>5, <2>1, Zenon
  <2> HIDE DEF L
  <2> QED BY <1>7, <2>2
<1>9. L \in [0..n -> LState]
  <2>1. \A i \in 0..n : L[i] \in LState
    <3>1. ASSUME NEW i \in 0..n
          PROVE  L[i] \in LState
      <4>1. CASE i = n
        <5>1. PICK K, U : K = {} /\ U = M \cup B
          OBVIOUS
        <5>2. MidAt(b, K, U) \in LState
          <6>1. b \in Block /\ K \subseteq Tx /\ U \in SUBSET Tx
            BY <1>2, <5>1
          <6> QED BY ONLY <6>1, MidFirst
        <5> HIDE DEF L
        <5> QED BY <1>8, <4>1, <5>1, <5>2
      <4>2. CASE i # n
        <5>1. i \in 0..(n - 1)
          BY <4>2
        <5> HIDE DEF L
        <5> QED BY <1>6, <5>1
      <4> QED BY <4>1, <4>2
    <3> QED BY <3>1
  <2>2. L = [i \in 0..n |-> L[i]]
    OBVIOUS
  <2> HIDE DEF L
  <2> QED BY <2>1, <2>2
<1>10. Leads(g, St(b, M), p, 0, MidAt(b, {}, M \cup B))
  <2> HIDE DEF L, p
  <2>1. Steps(g, L, p, 0)
    BY <1>4, <1>6 DEF Steps
  <2> QED BY <1>4, <1>8, <1>9, <2>1 DEF Leads
<1>11. PICK e \in Seq(Row) : /\ e = <<TxRow("unconfirm", b), TxRow("reject", b)>>
                             /\ Leads(g, MidAt(b, {}, M \cup B), e, 0, St(Prev[b], M \cup B))
  <2>1. PICK U \in SUBSET Tx : U = M \cup B
    BY <1>2
  <2> QED BY <2>1, UndoCoinbase
<1>12. UnconfirmRows(b) = p \o e
  BY <1>0, <1>1, <1>11 DEF UnconfirmRows
<1>13. p \o e \in Seq(Row) /\ Leads(g, St(b, M), p \o e, 0, St(Prev[b], M \cup B))
  <2> HIDE DEF p
  <2>1. 0 \in 0..Len(p)
    BY <1>4
  <2> QED BY <1>4, <1>10, <1>11, <2>1, LeadsThen
<1> HIDE DEF p
<1> QED BY <1>2, <1>12, <1>13

-----------------------------------------------------------------------------
(* The lines of log1. *)

\* The block of the last block line among the first i lines.
BlockLine(lines, i) == {j \in 1..i : lines[j].type = "block"}
TipOf(lines, i) ==
    IF BlockLine(lines, i) = {} THEN Begin
    ELSE lines[CHOOSE m \in BlockLine(lines, i) : \A j \in BlockLine(lines, i) : j <= m].item

\* What a line is about, seen from the tip that the lines before it lead to.
LineOK(c, l) ==
    /\ l.type = "accept" => l.item \notin ChainTxs(c) /\ Conflicts(l.item) \cap ChainTxs(c) = {}
    /\ l.type = "block" => Adjacent(c, l.item)
LinesOK(lines) == \A i \in 1..Len(lines) : LineOK(TipOf(lines, i - 1), lines[i])
TipAfter(c, l) == IF l.type = "block" THEN l.item ELSE c

\* Without lines the tip is the begin block.
LEMMA TipZero ==
    ASSUME NEW lines
    PROVE  TipOf(lines, 0) = Begin
<1>1. BlockLine(lines, 0) = {}
  BY DEF BlockLine
<1> QED BY <1>1 DEF TipOf

\* A block line moves the tip, the others leave it.
LEMMA TipNext ==
    ASSUME NEW lines, NEW i \in Nat, i >= 1
    PROVE  TipOf(lines, i) = TipAfter(TipOf(lines, i - 1), lines[i])
<1>1. 1..i = 1..(i - 1) \cup {i} /\ i \in 1..i
  OBVIOUS
<1>2. CASE lines[i].type = "block"
  <2>1. i \in BlockLine(lines, i) /\ \A j \in BlockLine(lines, i) : j \in Nat /\ j <= i
    BY <1>1, <1>2 DEF BlockLine
  <2>2. PICK m \in BlockLine(lines, i) :
           /\ m = (CHOOSE k \in BlockLine(lines, i) : \A j \in BlockLine(lines, i) : j <= k)
           /\ \A j \in BlockLine(lines, i) : j <= m
    BY <2>1
  <2>3. m \in Nat /\ m <= i /\ i <= m
    BY <2>1, <2>2
  <2>4. m = i
    BY <2>3
  <2>5. TipOf(lines, i) = lines[i].item
    BY <2>1, <2>2, <2>4 DEF TipOf
  <2> QED BY <1>2, <2>5 DEF TipAfter
<1>3. CASE lines[i].type # "block"
  <2>1. BlockLine(lines, i) = BlockLine(lines, i - 1)
    BY <1>1, <1>3 DEF BlockLine
  <2> QED BY <1>3, <2>1 DEF TipOf, TipAfter
<1> QED BY <1>2, <1>3

\* The tips depend on the lines so far only.
LEMMA TipSame ==
    ASSUME NEW lines, NEW more, NEW n \in Nat, \A j \in 1..n : more[j] = lines[j]
    PROVE  \A i \in 0..n : TipOf(more, i) = TipOf(lines, i)
<1> DEFINE X == {i \in 0..n : TipOf(more, i) = TipOf(lines, i)}
<1>1. 0 \in X
  BY TipZero
<1>2. ASSUME NEW i \in 0..(n - 1), i \in X
      PROVE  i + 1 \in X
  <2>1. i + 1 \in 0..n /\ i + 1 \in 1..n /\ i + 1 \in Nat /\ i + 1 >= 1 /\ i + 1 - 1 = i
    OBVIOUS
  <2>2. TipOf(more, i) = TipOf(lines, i) /\ more[i + 1] = lines[i + 1]
    BY <1>2, <2>1
  <2>3. /\ TipOf(more, i + 1) = TipAfter(TipOf(more, i + 1 - 1), more[i + 1])
        /\ TipOf(lines, i + 1) = TipAfter(TipOf(lines, i + 1 - 1), lines[i + 1])
    BY <2>1, TipNext
  <2> QED BY <2>1, <2>2, <2>3
<1>3. 0..n \subseteq X
  <2> HIDE DEF X
  <2> QED BY <1>1, <1>2, UpTo
<1> QED BY <1>3

\* A tip is a block or the begin block.
LEMMA TipType ==
    ASSUME NEW lines \in Seq(Line)
    PROVE  \A i \in 0..Len(lines) : TipOf(lines, i) \in Block \cup {Begin}
<1>0. PICK n \in Nat : n = Len(lines)
  OBVIOUS
<1> DEFINE X == {i \in 0..n : TipOf(lines, i) \in Block \cup {Begin}}
<1>1. 0 \in X
  BY TipZero
<1>2. ASSUME NEW i \in 0..(n - 1), i \in X
      PROVE  i + 1 \in X
  <2>1. i + 1 \in 0..n /\ i + 1 \in 1..n /\ i + 1 \in Nat /\ i + 1 >= 1 /\ i + 1 - 1 = i
    OBVIOUS
  <2>2. TipOf(lines, i + 1) = TipAfter(TipOf(lines, i), lines[i + 1])
    BY <2>1, TipNext
  <2>3. lines[i + 1] \in Line
    BY <1>0, <2>1
  <2>4. TipAfter(TipOf(lines, i), lines[i + 1]) \in Block \cup {Begin}
    BY <1>2, <2>3, LineItems DEF TipAfter
  <2> QED BY <2>1, <2>2, <2>4
<1>3. 0..n \subseteq X
  <2> HIDE DEF X
  <2> QED BY <1>1, <1>2, UpTo
<1> QED BY <1>0, <1>3

\* Lines that continue the walk T from the tip of a log keep it in order.
Continues(T, more, c) ==
    /\ T[0] = c
    /\ \A i \in 1..Len(more) : LineOK(T[i - 1], more[i]) /\ T[i] = TipAfter(T[i - 1], more[i])

\* The tips behind lines that continue others.
LEMMA TipAppend ==
    ASSUME NEW lines \in Seq(Line), NEW more \in Seq(Line), NEW T,
           Continues(T, more, TipOf(lines, Len(lines)))
    PROVE  /\ \A i \in 0..Len(lines) : TipOf(lines \o more, i) = TipOf(lines, i)
           /\ \A i \in 0..Len(more) : TipOf(lines \o more, Len(lines) + i) = T[i]
<1>0. PICK n \in Nat, m \in Nat : n = Len(lines) /\ m = Len(more)
  OBVIOUS
<1>1. /\ Len(lines \o more) = n + m
      /\ \A i \in 1..n : (lines \o more)[i] = lines[i]
      /\ \A i \in 1..m : (lines \o more)[n + i] = more[i]
  BY <1>0, ConcatParts
<1>2. PICK all : all = lines \o more
  OBVIOUS
<1>3. \A i \in 0..n : TipOf(all, i) = TipOf(lines, i)
  <2>1. \A j \in 1..n : all[j] = lines[j]
    BY <1>1, <1>2
  <2> QED BY <2>1, TipSame
<1> DEFINE X == {i \in 0..m : TipOf(all, n + i) = T[i]}
<1>4. 0 \in X
  <2>1. n + 0 = n /\ n \in 0..n
    OBVIOUS
  <2>2. TipOf(all, n) = TipOf(lines, n)
    BY <1>3, <2>1
  <2> QED BY <1>0, <2>1, <2>2 DEF Continues
<1>5. ASSUME NEW i \in 0..(m - 1), i \in X
      PROVE  i + 1 \in X
  <2>1. /\ i + 1 \in 0..m /\ i + 1 \in 1..m /\ n + (i + 1) \in Nat /\ n + (i + 1) >= 1
        /\ n + (i + 1) - 1 = n + i /\ i + 1 - 1 = i
    OBVIOUS
  <2>2. TipOf(all, n + (i + 1)) = TipAfter(TipOf(all, n + i), all[n + (i + 1)])
    <3>1. PICK k \in Nat : k = n + (i + 1) /\ k >= 1 /\ k - 1 = n + i
      BY <2>1
    <3>2. TipOf(all, k) = TipAfter(TipOf(all, k - 1), all[k])
      BY <3>1, TipNext
    <3> QED BY <3>1, <3>2
  <2>3. all[n + (i + 1)] = more[i + 1] /\ TipOf(all, n + i) = T[i]
    BY <1>1, <1>2, <1>5, <2>1
  <2>4. T[i + 1] = TipAfter(T[i], more[i + 1])
    BY <1>0, <2>1 DEF Continues
  <2> QED BY <2>1, <2>2, <2>3, <2>4
<1>6. 0..m \subseteq X
  <2> HIDE DEF X
  <2> QED BY <1>4, <1>5, UpTo
<1> QED BY <1>0, <1>2, <1>3, <1>6

\* Lines that continue lines in order are in order.
LEMMA LinesAppend ==
    ASSUME NEW lines \in Seq(Line), NEW more \in Seq(Line), LinesOK(lines), NEW T,
           Continues(T, more, TipOf(lines, Len(lines)))
    PROVE  LinesOK(lines \o more) /\ TipOf(lines \o more, Len(lines \o more)) = T[Len(more)]
<1>0. PICK n \in Nat, m \in Nat : n = Len(lines) /\ m = Len(more)
  OBVIOUS
<1>1. /\ Len(lines \o more) = n + m
      /\ \A i \in 1..n : (lines \o more)[i] = lines[i]
      /\ \A i \in 1..m : (lines \o more)[n + i] = more[i]
  BY <1>0, ConcatParts
<1>2. /\ \A i \in 0..n : TipOf(lines \o more, i) = TipOf(lines, i)
      /\ \A i \in 0..m : TipOf(lines \o more, n + i) = T[i]
  BY <1>0, TipAppend
<1>3. PICK all : all = lines \o more
  OBVIOUS
<1>4. ASSUME NEW i \in 1..(n + m)
      PROVE  LineOK(TipOf(all, i - 1), all[i])
  <2>1. CASE i <= n
    <3>1. i \in 1..n /\ i - 1 \in 0..n
      BY <2>1
    <3>2. TipOf(all, i - 1) = TipOf(lines, i - 1) /\ all[i] = lines[i]
      BY <1>1, <1>2, <1>3, <3>1
    <3>3. LineOK(TipOf(lines, i - 1), lines[i])
      BY <1>0, <3>1 DEF LinesOK
    <3> QED BY <3>2, <3>3
  <2>2. CASE i > n
    <3>1. PICK j \in 1..m : i = n + j
      <4>1. i - n \in 1..m /\ i = n + (i - n)
        BY <2>2
      <4> QED BY <4>1
    <3>2. j - 1 \in 0..m /\ i - 1 = n + (j - 1)
      BY <3>1
    <3>3. TipOf(all, i - 1) = T[j - 1] /\ all[i] = more[j]
      BY <1>1, <1>2, <1>3, <3>1, <3>2
    <3>4. LineOK(T[j - 1], more[j])
      BY <1>0, <3>1 DEF Continues
    <3> QED BY <3>3, <3>4
  <2> QED BY <2>1, <2>2
<1>5. m \in 0..m
  OBVIOUS
<1> QED BY <1>0, <1>1, <1>2, <1>3, <1>4, <1>5 DEF LinesOK

-----------------------------------------------------------------------------
(* What a line does to a memory pool. *)

\* The members of S in the pool M, with everything in M that depends on them.
ClosedIn(D, M) == \A u \in D, v \in M : u \in Parents(v) => v \in D
DescOf(M, S) == {t \in M : \A D \in SUBSET M : (S \cap M \subseteq D /\ ClosedIn(D, M)) => t \in D}

\* The descendants are the smallest closed part of M with the members of S.
LEMMA DescOfFacts ==
    ASSUME NEW M, NEW S
    PROVE  /\ DescOf(M, S) \subseteq M /\ S \cap M \subseteq DescOf(M, S) /\ ClosedIn(DescOf(M, S), M)
           /\ \A D \in SUBSET M : S \cap M \subseteq D /\ ClosedIn(D, M) => DescOf(M, S) \subseteq D
<1>1. DescOf(M, S) \subseteq M /\ S \cap M \subseteq DescOf(M, S)
  BY DEF DescOf
<1>2. ClosedIn(DescOf(M, S), M)
  <2>1. ASSUME NEW u \in DescOf(M, S), NEW v \in M, u \in Parents(v)
        PROVE  v \in DescOf(M, S)
    <3>1. ASSUME NEW D \in SUBSET M, S \cap M \subseteq D, ClosedIn(D, M)
          PROVE  v \in D
      <4>1. u \in D
        BY <3>1 DEF DescOf
      <4> QED BY <2>1, <3>1, <4>1 DEF ClosedIn
    <3> QED BY <3>1 DEF DescOf
  <2> QED BY <2>1 DEF ClosedIn
<1>3. \A D \in SUBSET M : S \cap M \subseteq D /\ ClosedIn(D, M) => DescOf(M, S) \subseteq D
  BY DEF DescOf
<1> QED BY <1>1, <1>2, <1>3

\* What is left in the pool M when S leaves.
Rest(M, S) == M \ DescOf(M, S)

\* One more root: what depends on it is all that leaves in addition.
LEMMA DescSplit ==
    ASSUME NEW M \in SUBSET Tx, NEW S \in SUBSET Tx, NEW x \in Tx
    PROVE  Rest(M, S \cup {x}) = Rest(Rest(M, S), {x})
<1>1. PICK D, E, F, N : /\ D = DescOf(M, S) /\ E = DescOf(M, S \cup {x}) /\ N = M \ D
                        /\ F = DescOf(N, {x})
  OBVIOUS
<1>2. D \subseteq M /\ S \cap M \subseteq D /\ ClosedIn(D, M)
  BY <1>1, DescOfFacts
<1>3. \A X \in SUBSET M : S \cap M \subseteq X /\ ClosedIn(X, M) => D \subseteq X
  BY <1>1, DescOfFacts
<1>4. E \subseteq M /\ (S \cup {x}) \cap M \subseteq E /\ ClosedIn(E, M)
  BY <1>1, DescOfFacts
<1>5. \A X \in SUBSET M : (S \cup {x}) \cap M \subseteq X /\ ClosedIn(X, M) => E \subseteq X
  BY <1>1, DescOfFacts
<1>6. F \subseteq N /\ {x} \cap N \subseteq F /\ ClosedIn(F, N)
  BY <1>1, DescOfFacts
<1>7. \A X \in SUBSET N : {x} \cap N \subseteq X /\ ClosedIn(X, N) => F \subseteq X
  BY <1>1, DescOfFacts
<1>8. D \subseteq E
  <2>1. E \in SUBSET M /\ S \cap M \subseteq E
    BY <1>4
  <2> QED BY <1>3, <1>4, <2>1
<1>9. E \subseteq D \cup F
  <2>1. D \cup F \in SUBSET M /\ (S \cup {x}) \cap M \subseteq D \cup F
    BY <1>1, <1>2, <1>6
  <2>2. ClosedIn(D \cup F, M)
    BY <1>1, <1>2, <1>6 DEF ClosedIn
  <2> QED BY <1>5, <2>1, <2>2
<1>10. F \subseteq E
  <2>1. E \ D \in SUBSET N /\ {x} \cap N \subseteq E \ D
    BY <1>1, <1>4
  <2>2. ClosedIn(E \ D, N)
    BY <1>1, <1>4 DEF ClosedIn
  <2>3. F \subseteq E \ D
    BY <1>7, <2>1, <2>2
  <2> QED BY <2>3
<1>11. M \ E = N \ F
  BY <1>1, <1>8, <1>9, <1>10
<1> QED BY <1>1, <1>11 DEF Rest

PoolStep(c, M, l, N) ==
    /\ l.type = "accept" =>
          /\ l.item \notin M /\ Conflicts(l.item) \cap M = {}
          /\ Parents(l.item) \subseteq ChainTxs(c) \cup M
          /\ N = M \cup {l.item}
    /\ l.type = "remove" => N = Rest(M, {l.item})
    /\ l.type = "block" =>
          /\ l.item \in Block /\ Prev[l.item] = c =>
                (\A t \in BlockTxs(l.item) : Conflicts(t) \cap M = {}) /\ N = M \ BlockTxs(l.item)
          /\ c \in Block /\ Prev[c] = l.item => N = M \cup BlockTxs(c)
    /\ l.type = "clear" => N = {}

\* Lines that a node writes while its tip goes from c to d and its pool, unless
\* it has forgotten transactions (f), from M to N.
LineStep(f, c, M, l, d, N) == LineOK(c, l) /\ d = TipAfter(c, l) /\ (f \/ PoolStep(c, M, l, N))
LineSteps(f, T, Q, more) ==
    \A i \in 1..Len(more) : LineStep(f, T[i - 1], Q[i - 1], more[i], T[i], Q[i])
Goes(f, c, M, more, d, N) ==
    \E T \in [0..Len(more) -> Block \cup {Begin}] : \E Q \in [0..Len(more) -> SUBSET Tx] :
        /\ T[0] = c /\ T[Len(more)] = d /\ Q[0] = M /\ Q[Len(more)] = N
        /\ LineSteps(f, T, Q, more)

\* One line is a way.
LEMMA GoesOne ==
    ASSUME NEW f, NEW c \in Block \cup {Begin}, NEW d \in Block \cup {Begin}, NEW M \in SUBSET Tx,
           NEW N \in SUBSET Tx, NEW l \in Line, LineStep(f, c, M, l, d, N)
    PROVE  <<l>> \in Seq(Line) /\ Goes(f, c, M, <<l>>, d, N)
<1>1. <<l>> \in Seq(Line) /\ Len(<<l>>) = 1 /\ <<l>>[1] = l
  OBVIOUS
<1>2. PICK more \in Seq(Line) : more = <<l>> /\ Len(more) = 1 /\ more[1] = l
  BY <1>1
<1> DEFINE T == [i \in 0..1 |-> IF i = 0 THEN c ELSE d]
           Q == [i \in 0..1 |-> IF i = 0 THEN M ELSE N]
<1>3. T \in [0..1 -> Block \cup {Begin}] /\ T[0] = c /\ T[1] = d
  OBVIOUS
<1>4. Q \in [0..1 -> SUBSET Tx] /\ Q[0] = M /\ Q[1] = N
  OBVIOUS
<1> HIDE DEF T, Q
<1>5. ASSUME NEW i \in 1..Len(more)
      PROVE  LineStep(f, T[i - 1], Q[i - 1], more[i], T[i], Q[i])
  <2>1. i = 1 /\ i - 1 = 0
    BY <1>2
  <2> QED BY <1>2, <1>3, <1>4, <2>1
<1>6. LineSteps(f, T, Q, more)
  BY <1>5 DEF LineSteps
<1> QED BY <1>2, <1>3, <1>4, <1>6 DEF Goes

\* Two ways that meet are one.
LEMMA GoesThen ==
    ASSUME NEW f, NEW c, NEW d, NEW e, NEW M, NEW N, NEW O, NEW q \in Seq(Line), NEW r \in Seq(Line),
           Goes(f, c, M, q, d, N), Goes(f, d, N, r, e, O)
    PROVE  q \o r \in Seq(Line) /\ Goes(f, c, M, q \o r, e, O)
<1>1. PICK n \in Nat, l \in Nat : n = Len(q) /\ l = Len(r)
  OBVIOUS
<1>2. PICK p \in Seq(Line) : /\ p = q \o r /\ Len(p) = n + l
                             /\ \A i \in 1..n : p[i] = q[i]
                             /\ \A i \in 1..l : p[n + i] = r[i]
  <2>1. /\ Len(q \o r) = n + l
        /\ \A i \in 1..n : (q \o r)[i] = q[i]
        /\ \A i \in 1..l : (q \o r)[n + i] = r[i]
    BY <1>1, ConcatParts
  <2>2. q \o r \in Seq(Line)
    OBVIOUS
  <2> QED BY <2>1, <2>2
<1>3. PICK T1 \in [0..n -> Block \cup {Begin}], Q1 \in [0..n -> SUBSET Tx] :
         T1[0] = c /\ T1[n] = d /\ Q1[0] = M /\ Q1[n] = N /\ LineSteps(f, T1, Q1, q)
  BY <1>1 DEF Goes
<1>4. PICK T2 \in [0..l -> Block \cup {Begin}], Q2 \in [0..l -> SUBSET Tx] :
         T2[0] = d /\ T2[l] = e /\ Q2[0] = N /\ Q2[l] = O /\ LineSteps(f, T2, Q2, r)
  BY <1>1 DEF Goes
<1> DEFINE T == [i \in 0..(n + l) |-> IF i <= n THEN T1[i] ELSE T2[i - n]]
           Q == [i \in 0..(n + l) |-> IF i <= n THEN Q1[i] ELSE Q2[i - n]]
<1>5. \A i \in 0..(n + l) : (i <= n => i \in 0..n) /\ (~(i <= n) => i - n \in 0..l)
  OBVIOUS
<1>6. T \in [0..(n + l) -> Block \cup {Begin}] /\ Q \in [0..(n + l) -> SUBSET Tx]
  BY <1>3, <1>4, <1>5
<1>7. \A i \in 0..n : T[i] = T1[i] /\ Q[i] = Q1[i]
  OBVIOUS
<1>8. ASSUME NEW i \in 0..l
      PROVE  T[n + i] = T2[i] /\ Q[n + i] = Q2[i]
  <2>1. n + i \in 0..(n + l) /\ (n + i <= n => i = 0) /\ n + i - n = i
    OBVIOUS
  <2>2. CASE i = 0
    <3>1. T[n] = T1[n] /\ Q[n] = Q1[n]
      BY <1>7
    <3> QED BY <1>3, <1>4, <2>2, <3>1
  <2>3. CASE i # 0
    BY <2>1, <2>3
  <2> QED BY <2>2, <2>3
<1> HIDE DEF T, Q
<1>9. ASSUME NEW i \in 1..(n + l)
      PROVE  LineStep(f, T[i - 1], Q[i - 1], p[i], T[i], Q[i])
  <2>1. CASE i <= n
    <3>1. i \in 1..n /\ i - 1 \in 0..n /\ i \in 0..n
      BY <2>1
    <3>2. LineStep(f, T1[i - 1], Q1[i - 1], q[i], T1[i], Q1[i])
      BY <1>1, <1>3, <3>1 DEF LineSteps
    <3> QED BY <1>2, <1>7, <3>1, <3>2
  <2>2. CASE i > n
    <3>1. PICK j \in 1..l : i = n + j
      <4>1. i - n \in 1..l /\ i = n + (i - n)
        BY <2>2
      <4> QED BY <4>1
    <3>2. j - 1 \in 0..l /\ j \in 0..l /\ i - 1 = n + (j - 1)
      BY <3>1
    <3>3. LineStep(f, T2[j - 1], Q2[j - 1], r[j], T2[j], Q2[j])
      BY <1>1, <1>4, <3>1 DEF LineSteps
    <3>4. T[i - 1] = T2[j - 1] /\ Q[i - 1] = Q2[j - 1] /\ p[i] = r[j] /\ T[i] = T2[j] /\ Q[i] = Q2[j]
      BY <1>2, <1>8, <3>1, <3>2
    <3> QED BY <3>3, <3>4
  <2> QED BY <2>1, <2>2
<1>10. LineSteps(f, T, Q, p)
  BY <1>2, <1>9 DEF LineSteps
<1>11. T[0] = c /\ Q[0] = M /\ T[n + l] = e /\ Q[n + l] = O
  <2>1. 0 \in 0..n /\ l \in 0..l
    OBVIOUS
  <2> QED BY <1>3, <1>4, <1>7, <1>8, <2>1
<1> QED BY <1>2, <1>6, <1>10, <1>11 DEF Goes

-----------------------------------------------------------------------------
(* The node's and the ledger's copies of the definitions of TxGraph. *)

\* The copies of Bitcoind are the definitions of TxGraph and BlockTree.
LEMMA NodeNames ==
    /\ \A t : Node!Parents(t) = Parents(t) /\ Node!Conflicts(t) = Conflicts(t)
    /\ \A b : Node!BlockTxs(b) = BlockTxs(b) /\ Node!ChainTxs(b) = ChainTxs(b)
    /\ Node!Chain = Chain
    /\ \A c, d : Node!CommonLen(c, d) = CommonLen(c, d)
    /\ \A a, b : Node!Way(a, b) = Way(a, b)
    /\ \A S : Node!Cardinality(S) = Cardinality(S)
<1>1. \A t : Node!Parents(t) = Parents(t) /\ Node!Conflicts(t) = Conflicts(t)
  BY DEF Node!Parents, Node!Conflicts, Parents, Conflicts
<1>2. Node!Chain = Chain
  BY DEF Node!Chain, Chain
<1>3. \A b : Node!BlockTxs(b) = BlockTxs(b)
  BY DEF Node!BlockTxs, BlockTxs
<1>4. \A b : Node!ChainTxs(b) = ChainTxs(b)
  BY <1>2, <1>3 DEF Node!ChainTxs, ChainTxs
<1>5. \A c, d : Node!CommonLen(c, d) = CommonLen(c, d)
  BY DEF Node!CommonLen, CommonLen
<1>6. \A a, b : Node!Way(a, b) = Way(a, b)
  BY <1>2, <1>5 DEF Node!Way, Way
<1>7. \A S : Node!Cardinality(S) = Cardinality(S)
  BY DEF Node!Cardinality, Cardinality
<1> QED BY <1>1, <1>2, <1>3, <1>4, <1>5, <1>6, <1>7

\* And so are those of TxLedger.
LEMMA LedgerNames ==
    /\ \A t : Ledger!Parents(t) = Parents(t) /\ Ledger!Conflicts(t) = Conflicts(t)
    /\ \A b : Ledger!BlockTxs(b) = BlockTxs(b)
    /\ \A S : Ledger!Cardinality(S) = Cardinality(S)
<1>1. \A S : Ledger!Cardinality(S) = Cardinality(S)
  BY DEF Ledger!Cardinality, Cardinality
<1> QED BY <1>1 DEF Ledger!Parents, Ledger!Conflicts, Parents, Conflicts, Ledger!BlockTxs, BlockTxs

-----------------------------------------------------------------------------
(* The lines that one step of the node writes. *)

\* Lines of every kind.
LEMMA LineOfType ==
    /\ \A t \in Tx : Node!LineOf("accept", t) \in Line /\ Node!LineOf("remove", t) \in Line
    /\ \A b \in Block \cup {Begin} : Node!LineOf("block", b) \in Line
    /\ Node!LineOf("clear", NoTx) \in Line
    /\ \A k, x : Node!LineOf(k, x).type = k /\ Node!LineOf(k, x).item = x
BY DEF Node!LineOf, Line

\* A block and its predecessor are one way round only.
LEMMA OneWay ==
    ASSUME NEW a \in Block, NEW b \in Block
    PROVE  ~(Prev[a] = b /\ Prev[b] = a)
<1>1. Height[a] \in Nat /\ Height[b] \in Nat
  BY BlockTreeAssumption
<1>2. Prev[a] = b => Height[a] = Height[b] + 1
  BY BlockTreeAssumption
<1>3. Prev[b] = a => Height[b] = Height[a] + 1
  BY BlockTreeAssumption
<1> QED BY <1>1, <1>2, <1>3

\* The lines of a set that leaves the pool, in any order, leave the rest.
LEMMA RemoveRun ==
    ASSUME NEW f, NEW c \in Block \cup {Begin}, NEW M \in SUBSET Tx, NEW out \in SUBSET M,
           ClosedIn(out, M), NEW q \in Node!Orders(out)
    PROVE  Node!RemoveLines(q) \in Seq(Line) /\ Goes(f, c, M, Node!RemoveLines(q), c, M \ out)
<1>1. IsFiniteSet(out)
  BY FS_Subset, TxGraphAssumption
<1>2. PICK n \in Nat : n = Cardinality(out)
  BY <1>1, FS_CardinalityType
<1>3. q \in [1..n -> out] /\ (\A t \in out : \E i \in 1..n : q[i] = t) /\ Len(q) = n
  <2>1. q \in [1..n -> out] /\ \A t \in out : \E i \in 1..n : q[i] = t
    BY <1>2, NodeNames DEF Node!Orders
  <2> QED BY <2>1
<1>4. PICK more : more = Node!RemoveLines(q)
  OBVIOUS
<1>5. more = [i \in 1..n |-> Node!LineOf("remove", q[i])]
  BY <1>3, <1>4 DEF Node!RemoveLines
<1>6. \A i \in 1..n : more[i] \in Line /\ more[i].type = "remove" /\ more[i].item = q[i]
  BY <1>3, <1>5, LineOfType
<1>7. more \in Seq(Line) /\ Len(more) = n
  BY <1>5, <1>6
<1> DEFINE Sent(i) == {q[j] : j \in 1..i}
           T == [i \in 0..n |-> c]
           Q == [i \in 0..n |-> Rest(M, Sent(i))]
<1>8. T \in [0..n -> Block \cup {Begin}] /\ Q \in [0..n -> SUBSET Tx]
  BY DEF Rest
<1>9. Q[0] = M
  <2>1. Sent(0) = {}
    OBVIOUS
  <2>2. {} \in SUBSET M /\ {} \cap M \subseteq {} /\ ClosedIn({}, M)
    BY DEF ClosedIn
  <2>3. DescOf(M, {}) \subseteq {}
    BY <2>2, DescOfFacts
  <2>4. Rest(M, {}) = M
    BY <2>3 DEF Rest
  <2> HIDE DEF Sent
  <2> QED BY <2>1, <2>4
<1>10. Q[n] = M \ out
  <2>1. Sent(n) = out
    BY <1>3
  <2>2. out \in SUBSET M /\ out \cap M \subseteq out /\ out \cap M = out
    OBVIOUS
  <2>3. DescOf(M, out) = out
    BY <2>2, DescOfFacts
  <2> HIDE DEF Sent
  <2> QED BY <2>1, <2>3 DEF Rest
<1>11. ASSUME NEW i \in 1..n
       PROVE  LineStep(f, T[i - 1], Q[i - 1], more[i], T[i], Q[i])
  <2>1. i - 1 \in 0..n /\ i \in 0..n /\ 1..i = 1..(i - 1) \cup {i}
    OBVIOUS
  <2>2. Sent(i) = Sent(i - 1) \cup {q[i]}
    BY <2>1
  <2>3. T[i - 1] = c /\ T[i] = c /\ Q[i - 1] = Rest(M, Sent(i - 1)) /\ Q[i] = Rest(M, Sent(i))
    BY <2>1
  <2> HIDE DEF Sent, T, Q
  <2>4. Q[i] = Rest(Q[i - 1], {q[i]})
    <3>0. \A j \in 1..(i - 1) : j \in 1..n
      OBVIOUS
    <3>1. PICK S \in SUBSET Tx, x \in Tx : S = Sent(i - 1) /\ x = q[i]
      <4>1. \A j \in 1..n : q[j] \in Tx
        BY <1>3
      <4>2. Sent(i - 1) \in SUBSET Tx
        BY <3>0, <4>1 DEF Sent
      <4> QED BY <4>1, <4>2
    <3>2. Rest(M, S \cup {x}) = Rest(Rest(M, S), {x})
      BY DescSplit
    <3> QED BY <2>2, <2>3, <3>1, <3>2
  <2>5. more[i].type = "remove" /\ more[i].item = q[i]
    BY <1>6
  <2>6. LineOK(c, more[i]) /\ TipAfter(c, more[i]) = c
    BY <2>5 DEF LineOK, TipAfter
  <2>7. PoolStep(c, Q[i - 1], more[i], Q[i])
    BY <2>4, <2>5 DEF PoolStep
  <2> QED BY <2>3, <2>6, <2>7 DEF LineStep
<1>12. T[0] = c /\ T[n] = c
  OBVIOUS
<1> HIDE DEF T, Q
<1>13. LineSteps(f, T, Q, more)
  BY <1>7, <1>11 DEF LineSteps
<1>14. Goes(f, c, M, more, c, M \ out)
  BY <1>7, <1>8, <1>9, <1>10, <1>12, <1>13 DEF Goes
<1> QED BY <1>4, <1>7, <1>14

\* The lines of a walk that starts with an empty pool.
LEMMA WalkRun ==
    ASSUME NEW f, NEW c \in Block \cup {Begin}, NEW w \in Seq(Block \cup {Begin}),
           Walks(c, w), f \/ Climbs(c, w)
    PROVE  /\ Node!BlockLines(w) \in Seq(Line)
           /\ Goes(f, c, {}, Node!BlockLines(w), WayAt(c, w, Len(w)), {})
<1>1. PICK n \in Nat : n = Len(w)
  OBVIOUS
<1>2. PICK more : more = Node!BlockLines(w)
  OBVIOUS
<1>3. more = [i \in 1..n |-> Node!LineOf("block", w[i])]
  BY <1>1, <1>2 DEF Node!BlockLines
<1>4. \A i \in 1..n : /\ w[i] \in Block \cup {Begin} /\ more[i] \in Line
                      /\ more[i].type = "block" /\ more[i].item = w[i]
  BY <1>1, <1>3, LineOfType
<1>5. more \in Seq(Line) /\ Len(more) = n
  BY <1>3, <1>4
<1> DEFINE T == [i \in 0..n |-> WayAt(c, w, i)]
           Q == [i \in 0..n |-> {}]
<1>6. \A i \in 0..n : WayAt(c, w, i) \in Block \cup {Begin}
  BY <1>4 DEF WayAt
<1>7. T \in [0..n -> Block \cup {Begin}] /\ Q \in [0..n -> SUBSET Tx]
  BY <1>6
<1>8. T[0] = c /\ T[n] = WayAt(c, w, n) /\ Q[0] = {} /\ Q[n] = {}
  BY DEF WayAt
<1>9. ASSUME NEW i \in 1..n
      PROVE  LineStep(f, T[i - 1], Q[i - 1], more[i], T[i], Q[i])
  <2>1. i - 1 \in 0..n /\ i \in 0..n /\ i # 0
    OBVIOUS
  <2>2. T[i - 1] = WayAt(c, w, i - 1) /\ T[i] = w[i] /\ Q[i - 1] = {} /\ Q[i] = {}
    BY <2>1 DEF WayAt
  <2>3. PICK a \in Block \cup {Begin} : a = WayAt(c, w, i - 1)
    BY <1>6, <2>1
  <2>4. Adjacent(a, w[i])
    BY <1>1, <2>3 DEF Walks
  <2>5. more[i].type = "block" /\ more[i].item = w[i] /\ w[i] \in Block \cup {Begin}
    BY <1>4
  <2>6. LineOK(a, more[i]) /\ TipAfter(a, more[i]) = w[i]
    BY <2>4, <2>5 DEF LineOK, TipAfter
  <2>7. ASSUME ~f PROVE PoolStep(a, {}, more[i], {})
    <3>1. w[i] \in Block /\ Prev[w[i]] = a
      BY <1>1, <2>3, <2>7 DEF Climbs
    <3>2. ~(a \in Block /\ Prev[a] = w[i])
      BY <3>1, OneWay
    <3> QED BY <2>5, <3>1, <3>2 DEF PoolStep
  <2> HIDE DEF T, Q
  <2> QED BY <2>2, <2>3, <2>6, <2>7 DEF LineStep
<1> HIDE DEF T, Q
<1>10. LineSteps(f, T, Q, more)
  BY <1>5, <1>9 DEF LineSteps
<1>11. Goes(f, c, {}, more, WayAt(c, w, n), {})
  BY <1>5, <1>7, <1>8, <1>10 DEF Goes
<1> QED BY <1>1, <1>2, <1>5, <1>11

\* What leaves the pool with S.
LEMMA PoolDescendantsFacts ==
    ASSUME NEW S
    PROVE  /\ Node!PoolDescendants(S) \subseteq nodePool
           /\ S \cap nodePool \subseteq Node!PoolDescendants(S)
           /\ ClosedIn(Node!PoolDescendants(S), nodePool)
           /\ S = {} => Node!PoolDescendants(S) = {}
<1> DEFINE Shut(D) == (S \cap nodePool) \subseteq D /\ \A u \in nodePool :
                          (Parents(u) \cap (D \cup S) # {} => u \in D)
<1>1. Node!PoolDescendants(S) = {t \in nodePool : \A D \in SUBSET nodePool : Shut(D) => t \in D}
  BY NodeNames DEF Node!PoolDescendants
<1>2. PICK P : P = Node!PoolDescendants(S)
  OBVIOUS
<1>3. P \subseteq nodePool /\ S \cap nodePool \subseteq P
  BY <1>1, <1>2
<1>4. ASSUME NEW u \in P, NEW v \in nodePool, u \in Parents(v)
      PROVE  v \in P
  <2>1. ASSUME NEW D \in SUBSET nodePool, Shut(D)
        PROVE  v \in D
    <3>1. u \in D
      BY <1>1, <1>2, <2>1
    <3> QED BY <1>4, <2>1, <3>1
  <2> QED BY <1>1, <1>2, <2>1
<1>5. ASSUME S = {} PROVE P = {}
  <2>1. {} \in SUBSET nodePool /\ Shut({})
    BY <1>5
  <2> QED BY <1>1, <1>2, <2>1
<1> QED BY <1>2, <1>3, <1>4, <1>5 DEF ClosedIn

\* What a step of the node does to log1: it writes lines that lead from its tip
\* and pool to the new ones.
NodeWrites ==
    /\ \E more \in Seq(Line) : /\ log1' = log1 \o more
                               /\ Goes(forgot', nodeTip, nodePool, more, nodeTip', nodePool')
    /\ forgot => forgot'
    /\ Node!NodeTypeOK'

\* addUnchecked(): the line of an accepted transaction.
LEMMA AcceptWrites ==
    ASSUME Node!NodeTypeOK, NEW t \in Tx, Node!NodeAcceptTx(t)
    PROVE  NodeWrites
<1>1. /\ nodeTip \in Block \cup {Begin} /\ nodePool \in SUBSET Tx /\ forgot \in BOOLEAN
      /\ nodeTip' = nodeTip /\ forgot' = forgot /\ nodePool' = nodePool \cup {t}
  BY DEF Node!NodeTypeOK, Node!NodeAcceptTx
<1>2. PICK l \in Line : l = Node!LineOf("accept", t) /\ l.type = "accept" /\ l.item = t
  BY LineOfType
<1>3. log1' = log1 \o <<l>>
  BY <1>2 DEF Node!NodeAcceptTx, Node!Emit
<1>4. /\ t \notin ChainTxs(nodeTip) \cup nodePool
      /\ Parents(t) \subseteq ChainTxs(nodeTip) \cup nodePool
      /\ Conflicts(t) \cap (ChainTxs(nodeTip) \cup nodePool) = {}
  BY NodeNames DEF Node!NodeAcceptTx, Node!ValidOn
<1>5. LineOK(nodeTip, l) /\ TipAfter(nodeTip, l) = nodeTip
  BY <1>2, <1>4 DEF LineOK, TipAfter
<1>6. PoolStep(nodeTip, nodePool, l, nodePool')
  BY <1>1, <1>2, <1>4 DEF PoolStep
<1>7. LineStep(forgot', nodeTip, nodePool, l, nodeTip', nodePool')
  BY <1>1, <1>5, <1>6 DEF LineStep
<1>8. nodeTip' \in Block \cup {Begin} /\ nodePool' \in SUBSET Tx /\ forgot' \in BOOLEAN
  BY <1>1
<1>9. <<l>> \in Seq(Line) /\ Goes(forgot', nodeTip, nodePool, <<l>>, nodeTip', nodePool')
  BY <1>1, <1>7, <1>8, GoesOne
<1> QED BY <1>1, <1>3, <1>8, <1>9 DEF NodeWrites, Node!NodeTypeOK

\* Expiry and size limiting: the lines of what leaves.
LEMMA RemoveWrites ==
    ASSUME Node!NodeTypeOK, NEW t \in Tx, Node!NodeRemoveTx(t)
    PROVE  NodeWrites
<1>1. PICK out : out = Node!PoolDescendants({t})
  OBVIOUS
<1>2. /\ nodeTip \in Block \cup {Begin} /\ nodePool \in SUBSET Tx /\ forgot \in BOOLEAN
      /\ nodeTip' = nodeTip /\ forgot' = forgot /\ nodePool' = nodePool \ out
  BY <1>1 DEF Node!NodeTypeOK, Node!NodeRemoveTx
<1>3. out \in SUBSET nodePool /\ ClosedIn(out, nodePool)
  BY <1>1, PoolDescendantsFacts
<1>4. PICK q \in Node!Orders(out) : log1' = log1 \o Node!RemoveLines(q)
  BY <1>1 DEF Node!NodeRemoveTx, Node!Emit
<1>5. /\ Node!RemoveLines(q) \in Seq(Line)
      /\ Goes(forgot', nodeTip, nodePool, Node!RemoveLines(q), nodeTip, nodePool \ out)
  BY <1>2, <1>3, RemoveRun
<1> QED BY <1>2, <1>4, <1>5 DEF NodeWrites, Node!NodeTypeOK

\* A block line behind the lines of a set that leaves.
LEMMA RemoveThenBlock ==
    ASSUME NEW f, NEW c \in Block \cup {Begin}, NEW d \in Block \cup {Begin},
           NEW M \in SUBSET Tx, NEW N \in SUBSET Tx, NEW out \in SUBSET M,
           ClosedIn(out, M), NEW q \in Node!Orders(out), NEW l \in Line,
           LineStep(f, c, M \ out, l, d, N)
    PROVE  /\ Node!RemoveLines(q) \o <<l>> \in Seq(Line)
           /\ Goes(f, c, M, Node!RemoveLines(q) \o <<l>>, d, N)
<1>1. PICK r \in Seq(Line) : r = Node!RemoveLines(q) /\ Goes(f, c, M, r, c, M \ out)
  BY RemoveRun
<1>2. M \ out \in SUBSET Tx
  OBVIOUS
<1>3. PICK N1 \in SUBSET Tx : N1 = M \ out
  BY <1>2
<1>4. LineStep(f, c, N1, l, d, N)
  BY <1>3
<1>5. PICK s \in Seq(Line) : s = <<l>> /\ Goes(f, c, N1, s, d, N)
  BY <1>4, GoesOne
<1>6. r \o s \in Seq(Line) /\ Goes(f, c, M, r \o s, d, N)
  BY <1>1, <1>3, <1>5, GoesThen
<1> QED BY <1>1, <1>5, <1>6

\* ConnectTip(): the lines of what conflicts, then that of the block.
LEMMA ConnectWrites ==
    ASSUME Node!NodeTypeOK, NEW b \in Block, Node!NodeConnect(b)
    PROVE  NodeWrites
<1>1. PICK out : out = Node!PoolDescendants(UNION {Conflicts(t) : t \in BlockTxs(b)})
  OBVIOUS
<1>2. /\ nodeTip \in Block \cup {Begin} /\ nodePool \in SUBSET Tx /\ forgot \in BOOLEAN
      /\ nodeTip' = b /\ forgot' = forgot /\ nodePool' = nodePool \ (out \cup BlockTxs(b))
      /\ Prev[b] = nodeTip
  BY <1>1, NodeNames DEF Node!NodeTypeOK, Node!NodeConnect, Node!ValidBlock
<1>3. out \in SUBSET nodePool /\ ClosedIn(out, nodePool)
  BY <1>1, PoolDescendantsFacts
<1>4. \A t \in BlockTxs(b) : Conflicts(t) \cap (nodePool \ out) = {}
  <2>1. (UNION {Conflicts(t) : t \in BlockTxs(b)}) \cap nodePool \subseteq out
    BY <1>1, PoolDescendantsFacts
  <2> QED BY <2>1
<1>5. PICK l \in Line : l = Node!LineOf("block", b) /\ l.type = "block" /\ l.item = b
  BY LineOfType
<1>6. PICK q \in Node!Orders(out) : log1' = log1 \o (Node!RemoveLines(q) \o <<l>>)
  BY <1>1, <1>5, NodeNames DEF Node!NodeConnect, Node!Emit
<1>7. LineOK(nodeTip, l) /\ TipAfter(nodeTip, l) = b
  BY <1>2, <1>5 DEF LineOK, TipAfter, Adjacent
<1>8. PoolStep(nodeTip, nodePool \ out, l, nodePool')
  <2>1. ~(nodeTip \in Block /\ Prev[nodeTip] = b)
    BY <1>2, OneWay
  <2>2. nodePool' = (nodePool \ out) \ BlockTxs(b)
    BY <1>2
  <2> QED BY <1>4, <1>5, <2>1, <2>2 DEF PoolStep
<1>9. LineStep(forgot', nodeTip, nodePool \ out, l, nodeTip', nodePool')
  BY <1>2, <1>7, <1>8 DEF LineStep
<1>10. nodeTip' \in Block \cup {Begin} /\ nodePool' \in SUBSET Tx /\ forgot' \in BOOLEAN
  BY <1>2
<1>11. /\ Node!RemoveLines(q) \o <<l>> \in Seq(Line)
       /\ Goes(forgot', nodeTip, nodePool, Node!RemoveLines(q) \o <<l>>, nodeTip', nodePool')
  BY <1>2, <1>3, <1>9, <1>10, RemoveThenBlock
<1> QED BY <1>2, <1>6, <1>10, <1>11 DEF NodeWrites, Node!NodeTypeOK

\* DisconnectTip(): the lines of what can not stay, then that of the block
\* below.
LEMMA DisconnectWrites ==
    ASSUME Node!NodeTypeOK, Node!NodeDisconnect
    PROVE  NodeWrites
<1>1. /\ nodeTip \in Block /\ nodePool \in SUBSET Tx /\ forgot \in BOOLEAN
      /\ nodeTip' = Prev[nodeTip] /\ nodeTip' \in Block \cup {Begin}
  BY BlockTreeAssumption DEF Node!NodeTypeOK, Node!NodeDisconnect
<1>2. PICK l \in Line : /\ l = Node!LineOf("block", Prev[nodeTip])
                        /\ l.type = "block" /\ l.item = Prev[nodeTip]
  BY <1>1, LineOfType
<1>3a. PICK back \in SUBSET BlockTxs(nodeTip) : \E lost, out :
         /\ lost = BlockTxs(nodeTip) \ back /\ out = Node!PoolDescendants(lost)
         /\ forgot' = (forgot \/ lost # {})
         /\ \E q \in Node!Orders(out) : log1' = log1 \o (Node!RemoveLines(q) \o <<l>>)
         /\ nodePool' = (nodePool \ out) \cup back
  BY <1>2, NodeNames DEF Node!NodeDisconnect, Node!Emit
<1>3b. PICK lost, out :
         /\ lost = BlockTxs(nodeTip) \ back /\ out = Node!PoolDescendants(lost)
         /\ forgot' = (forgot \/ lost # {})
         /\ \E q \in Node!Orders(out) : log1' = log1 \o (Node!RemoveLines(q) \o <<l>>)
         /\ nodePool' = (nodePool \ out) \cup back
  BY <1>3a
<1>4. PICK q \in Node!Orders(out) : log1' = log1 \o (Node!RemoveLines(q) \o <<l>>)
  BY <1>3b
<1>5. out \in SUBSET nodePool /\ ClosedIn(out, nodePool) /\ (lost = {} => out = {})
  BY <1>3b, PoolDescendantsFacts
<1>6. LineOK(nodeTip, l) /\ TipAfter(nodeTip, l) = nodeTip'
  BY <1>1, <1>2 DEF LineOK, TipAfter, Adjacent
<1>7. ASSUME ~forgot' PROVE PoolStep(nodeTip, nodePool \ out, l, nodePool')
  <2>1. lost = {}
    BY <1>3b, <1>7
  <2>2. nodePool' = (nodePool \ out) \cup BlockTxs(nodeTip)
    BY <1>3b, <1>5, <2>1
  <2>3. ~(l.item \in Block /\ Prev[l.item] = nodeTip)
    BY <1>1, <1>2, OneWay
  <2> QED BY <1>1, <1>2, <2>2, <2>3 DEF PoolStep
<1>8. LineStep(forgot', nodeTip, nodePool \ out, l, nodeTip', nodePool')
  BY <1>6, <1>7 DEF LineStep
<1>9. nodePool' \in SUBSET Tx /\ forgot' \in BOOLEAN
  BY <1>1, <1>3b, BlockTxsType
<1>10. /\ Node!RemoveLines(q) \o <<l>> \in Seq(Line)
       /\ Goes(forgot', nodeTip, nodePool, Node!RemoveLines(q) \o <<l>>, nodeTip', nodePool')
  BY <1>1, <1>5, <1>8, <1>9, RemoveThenBlock
<1> QED BY <1>1, <1>3b, <1>4, <1>9, <1>10 DEF NodeWrites, Node!NodeTypeOK

\* A restart: the clear line and the walk to the new tip.
LEMMA RestartWrites ==
    ASSUME Node!NodeTypeOK, NEW b \in Block \cup {Begin}, Node!NodeRestart(b)
    PROVE  NodeWrites
<1>1. PICK w : w = Way(nodeTip, b)
  OBVIOUS
<1>2. PICK l \in Line : l = Node!LineOf("clear", NoTx) /\ l.type = "clear"
  BY LineOfType
<1>3. /\ nodeTip \in Block \cup {Begin} /\ nodePool \in SUBSET Tx /\ forgot \in BOOLEAN
      /\ nodeTip' = b /\ nodePool' = {}
      /\ forgot' = (forgot \/ CommonLen(Chain[nodeTip], Chain[b]) < Len(Chain[nodeTip]))
      /\ log1' = log1 \o (<<l>> \o Node!BlockLines(w))
  BY <1>1, <1>2, NodeNames DEF Node!NodeTypeOK, Node!NodeRestart, Node!Emit
<1>4. /\ w \in Seq(Block \cup {Begin}) /\ Walks(nodeTip, w) /\ WayAt(nodeTip, w, Len(w)) = b
      /\ CommonLen(Chain[nodeTip], Chain[b]) = Len(Chain[nodeTip]) => Climbs(nodeTip, w)
  BY <1>1, <1>3, WayWalk
<1>5. forgot' \/ Climbs(nodeTip, w)
  <2>1. PICK k, n : k = CommonLen(Chain[nodeTip], Chain[b]) /\ n = Len(Chain[nodeTip])
    OBVIOUS
  <2>2. k \in Nat /\ n \in Nat /\ k <= n
    BY <1>3, <2>1, CommonPart, ChainShape
  <2>3. k < n \/ k = n
    BY <2>2
  <2> QED BY <1>3, <1>4, <2>1, <2>3
<1>6. forgot' \in BOOLEAN
  BY <1>3
<1>7. PICK s \in Seq(Line) : s = Node!BlockLines(w) /\ Goes(forgot', nodeTip, {}, s, b, {})
  BY <1>3, <1>4, <1>5, WalkRun
<1>8. LineStep(forgot', nodeTip, nodePool, l, nodeTip, {})
  BY <1>2 DEF LineStep, LineOK, TipAfter, PoolStep
<1>9. PICK r \in Seq(Line) : r = <<l>> /\ Goes(forgot', nodeTip, nodePool, r, nodeTip, {})
  <2>1. {} \in SUBSET Tx
    OBVIOUS
  <2> QED BY <1>3, <1>8, <2>1, GoesOne
<1>10. r \o s \in Seq(Line) /\ Goes(forgot', nodeTip, nodePool, r \o s, b, {})
  BY <1>7, <1>9, GoesThen
<1> QED BY <1>3, <1>6, <1>7, <1>9, <1>10 DEF NodeWrites, Node!NodeTypeOK

\* Every step of the node.
LEMMA NodeLines ==
    ASSUME Node!NodeTypeOK, Node!NodeNext
    PROVE  NodeWrites
BY AcceptWrites, RemoveWrites, ConnectWrites, DisconnectWrites, RestartWrites DEF Node!NodeNext

-----------------------------------------------------------------------------
(* What Log2ProducerProofs shows of log2producer, with a node that writes more *)
(* than one line at a time and without connections lost inside a transaction.  *)

BaseInv == TypeInv /\ SpentExact /\ drops = 0 /\ SyncAll /\ RowsInv

\* log1 grows, and log2producer does nothing.
LogGrows ==
    /\ log1' \in Seq(Line) /\ Len(log1') >= Len(log1)
    /\ \A i \in 1..Len(log1) : log1'[i] = log1[i]
    /\ UNCHANGED <<memVars, procVars, dbVars, kvVars, boundVars>>

\* Lines that are added disturb nothing that log2producer has done.
LEMMA BaseGrows ==
    ASSUME BaseInv, LogGrows
    PROVE  BaseInv'
<1>1. /\ UNCHANGED <<txs, spentOutputs, unSyncInsert, unSyncDelete>>
      /\ UNCHANGED <<pc, pos, cur, vpos, rejects, confirms, values, expect>>
      /\ UNCHANGED <<db, disk, inTxn, consumed, kv, kvTip, crashes, drops, repeats>>
  BY DEF LogGrows, memVars, procVars, dbVars, kvVars, boundVars
<1>2. log1 \in Seq(Line) /\ log1' \in Seq(Line) /\ Len(log1) \in Nat /\ Len(log1') \in Nat
      /\ Len(log1') >= Len(log1)
  BY DEF LogGrows, BaseInv, TypeInv, TypeOK
<1>3. pc = "block" => log1'[pos] = log1[pos]
  <2>1. pc = "block" => pos \in 1..Len(log1)
    BY DEF BaseInv, TypeInv, TypeOK, LineInv
  <2> QED BY <2>1 DEF LogGrows
<1>4. TypeOK'
  <2>1. MemTypeOK'
    BY <1>1 DEF BaseInv, TypeInv, TypeOK, MemTypeOK
  <2> QED BY <1>1, <1>2, <2>1 DEF BaseInv, TypeInv, TypeOK
<1>5. LineInv'
  <2>1. pos \in Nat /\ db.offset \in Nat /\ disk.offset \in Nat
    BY DEF BaseInv, TypeInv, TypeOK, Tables
  <2>2. /\ pos <= Len(log1) /\ db.offset <= Len(log1) /\ disk.offset <= Len(log1)
        /\ pc \notin {"idle", "down", "aborted"} => pos > 0
        /\ pc = "block" => log1[pos].type = "block" /\ log1[pos].item \in Block
    BY DEF BaseInv, TypeInv, LineInv
  <2>3. pos <= Len(log1') /\ db.offset <= Len(log1') /\ disk.offset <= Len(log1')
    BY <1>2, <2>1, <2>2
  <2> QED BY <1>1, <1>3, <2>2, <2>3 DEF LineInv
<1>6. SpentExact'
  BY <1>1 DEF BaseInv, SpentExact
<1>7. SyncAll'
  <2>1. BlockSync /\ pc = "block" => BlockSync'
    BY <1>1, <1>3 DEF BlockSync
  <2>2. TxnInv' /\ LoadOK'
    BY <1>1 DEF BaseInv, SyncAll, TxnInv, LoadOK
  <2>3. SyncInv'
    BY <1>1, <2>1 DEF BaseInv, SyncAll, SyncInv, Synced, BuiltSync
  <2> QED BY <2>2, <2>3 DEF SyncAll
<1>8. RowsInv'
  <2>1. BlockRows /\ pc = "block" => BlockRows'
    BY <1>1, <1>3 DEF BlockRows
  <2>2. BatchRows => BatchRows'
    BY <1>1 DEF BatchRows, Leaves
  <2> QED BY <1>1, <2>1, <2>2 DEF BaseInv, RowsInv, TablesMatch, Leaves
<1> QED BY <1>1, <1>4, <1>5, <1>6, <1>7, <1>8 DEF BaseInv, TypeInv

\* A connection is never lost inside a transaction where MaxDrop is 0.
LEMMA NoDrops ==
    ASSUME MaxDrop = 0, drops = 0, ProducerNext
    PROVE  drops' = 0 /\ ~ConnectionLost
<1>0. ~ConnectionLost
  BY DEF ConnectionLost
<1>1. CASE Handler
  BY <1>0, <1>1 DEF Handler, HandleTxAccept, HandleTxReject, ClearMempoolTxs, HandleBlockAccept,
              BlockTx, BlockTxsDone, HandleBlockRollback, NextLine, boundVars
<1>2. CASE Statement
  BY <1>0, <1>2 DEF Statement, MultiInsert, StartTransaction, InsertAccept, UpdateBatchId, SyncInsert,
              SyncDelete, UpdateLog1FileStatus, Commit, Goto, boundVars
<1>3. CASE Failure \/ Crash
  BY <1>0, <1>3 DEF Failure, BlockFails, StatementFails, ClearFails, Crash, Die, Exit
<1>4. CASE Restart
  BY <1>0, <1>4 DEF Restart, InitLog2, InitWaits, LoadFails, DeleteTmp, boundVars
<1>5. CASE RepeatInsert \/ HandleTxlog
  BY <1>0, <1>5 DEF RepeatInsert, HandleTxlog, boundVars
<1> QED BY <1>0, <1>1, <1>2, <1>3, <1>4, <1>5 DEF ProducerNext

\* What Log2ProducerProofs shows of a step, without lost connections.
LEMMA BaseProducer ==
    ASSUME MaxDrop = 0, BaseInv, ProducerNext
    PROVE  BaseInv'
<1>1. [Next]_vars
  BY DEF Next
<1>2. TypeInv' /\ SpentExact'
  BY <1>1, TypeStep, SpentStep DEF BaseInv
<1>3. drops' = 0
  BY NoDrops DEF BaseInv
<1>4. SyncAll'
  BY <1>1, <1>3, SyncStep DEF BaseInv
<1>5. RepoInv
  BY DEF BaseInv, RepoInv, SyncAll, TypeInv
<1>6. RowsInv'
  BY <1>1, <1>3, <1>5, RowsStep DEF BaseInv
<1> QED BY <1>2, <1>3, <1>4, <1>6 DEF BaseInv

\* It holds at the start.
LEMMA BaseInit == Init => BaseInv
<1> SUFFICES ASSUME Init PROVE BaseInv
  OBVIOUS
<1>1. TypeInv
  BY TypeInit
<1>2. SpentExact
  BY TxGraphAssumption DEF Init, MemInit, SpentExact, NothingSpent
<1>3. SyncAll
  BY DEF Init, MemInit, EmptyTables, SyncAll, TxnInv, SyncInv, Synced, LoadOK, InBatch
<1>4. RowsInv
  <2>1. pc = "idle" /\ disk.txlogs2 = <<>> /\ disk.memrepo = {} /\ db.tmp = <<>>
    BY DEF Init, EmptyTables
  <2>2. \A t : ~LeftUnconfirmed(<<>>, t)
    BY DEF LeftUnconfirmed, RowsOf
  <2> QED BY <2>1, <2>2 DEF RowsInv, TablesMatch
<1> QED BY <1>1, <1>2, <1>3, <1>4 DEF BaseInv, Init

-----------------------------------------------------------------------------
(* tparser's store as a state of the ledger. *)

Held(k) == {x \in Tx \cup Block : kv[x] = k}
Abs == LS(kvTip, Held("confirmed"), Held("unconfirmed"))

\* The parents of what is present are present.
ParentsIn(s) == \A t \in All(s) \cap Tx : Parents(t) \subseteq All(s)

\* What tparser's store says, read as a ledger state.
LEMMA AbsFacts ==
    ASSUME TypeInv
    PROVE  /\ Abs \in LState
           /\ Abs.tip = kvTip
           /\ \A x \in Tx \cup Block : /\ x \in Abs.conf <=> kv[x] = "confirmed"
                                       /\ x \in Abs.unc <=> kv[x] = "unconfirmed"
                                       /\ x \in All(Abs) <=> kv[x] # "absent"
           /\ Abs.conf \subseteq Tx \cup Block /\ Abs.unc \subseteq Tx \cup Block
<1>1. /\ kvTip \in Block \cup {Begin}
      /\ \A x \in Tx \cup Block : kv[x] \in {"absent", "unconfirmed", "confirmed"}
  BY DEF TypeInv, TypeOK
<1>2. Held("confirmed") \in SUBSET (Tx \cup Block) /\ Held("unconfirmed") \in SUBSET (Tx \cup Block)
  BY DEF Held
<1>3. /\ Abs \in LState /\ Abs.tip = kvTip
      /\ Abs.conf = Held("confirmed") /\ Abs.unc = Held("unconfirmed")
  BY <1>1, <1>2, LSType DEF Abs
<1>4. ASSUME NEW x \in Tx \cup Block
      PROVE  /\ x \in Abs.conf <=> kv[x] = "confirmed"
             /\ x \in Abs.unc <=> kv[x] = "unconfirmed"
  BY <1>3 DEF Held
<1>5. ASSUME NEW x \in Tx \cup Block
      PROVE  x \in All(Abs) <=> kv[x] # "absent"
  BY <1>1, <1>4 DEF All
<1> QED BY <1>2, <1>3, <1>4, <1>5

\* No block is longer than the set of transactions.
LEMMA BlockFits ==
    ASSUME NEW b \in Block
    PROVE  Len(Vtx[b]) \in Nat /\ Len(Vtx[b]) <= Cardinality(Tx) /\ Cardinality(Tx) \in Nat
<1>1. PICK n \in Nat : n = Len(Vtx[b]) /\ Vtx[b] \in [1..n -> Tx]
  <2>1. Vtx[b] \in Seq(Tx)
    BY TxGraphAssumption
  <2> QED BY <2>1
<1>2. \A i, j \in 1..n : i # j => Vtx[b][i] # Vtx[b][j]
  BY <1>1, BlockAssumption
<1>3. Vtx[b] \in Injection(1..n, Tx)
  BY <1>1, <1>2 DEF Injection, IsInjective
<1>4. IsFiniteSet(1..n) /\ Cardinality(1..n) = n
  <2>1. 1 \in Int /\ n \in Int /\ (IF 1 > n THEN 0 ELSE n - 1 + 1) = n
    OBVIOUS
  <2> QED BY <2>1, FS_Interval
<1>5. IsFiniteSet(Tx) /\ Cardinality(Tx) \in Nat
  BY TxGraphAssumption, FS_CardinalityType
<1>6. Cardinality(1..n) <= Cardinality(Tx)
  BY <1>3, <1>5, FS_Injection
<1> QED BY <1>1, <1>4, <1>5, <1>6

\* What HandleTxlog does to the store is what the row does to the ledger.
LEMMA AbsStep ==
    ASSUME TypeInv, TypeInv', HandleTxlog, NEW r \in Row, r = disk.txlogs2[consumed + 1]
    PROVE  Abs' = RowTo(Abs, r) /\ kv' = [kv EXCEPT ![r.tx] = NewState(r.type)] /\ kvTip' = TipTo(Abs, r)
<1>1. /\ kv' = [kv EXCEPT ![r.tx] = NewState(r.type)]
      /\ kvTip' = CASE r.tx \in Block /\ r.type = "confirm" -> r.tx
                    [] r.tx \in Block /\ r.type = "reject" -> Prev[r.tx]
                    [] OTHER -> kvTip
  BY DEF HandleTxlog
<1>2. PICK x \in Tx \cup Block : x = r.tx
  BY DEF Row
<1>3. r.type \in {"accept", "confirm", "unconfirm", "reject"}
  BY DEF Row
<1>4. kv \in [Tx \cup Block -> {"absent", "unconfirmed", "confirmed"}]
  BY DEF TypeInv, TypeOK
<1>5. \A y \in Tx \cup Block : kv'[y] = IF y = x THEN NewState(r.type) ELSE kv[y]
  BY <1>1, <1>2, <1>4
<1>6. kvTip' = TipTo(Abs, r)
  <2>1. Abs.tip = kvTip
    BY AbsFacts
  <2>2. CASE r.tx \in Block /\ r.type = "confirm"
    BY <1>1, <2>2 DEF TipTo
  <2>3. CASE r.tx \in Block /\ r.type = "reject"
    BY <1>1, <2>3 DEF TipTo
  <2>4. CASE ~(r.tx \in Block /\ r.type = "confirm") /\ ~(r.tx \in Block /\ r.type = "reject")
    BY <1>1, <2>1, <2>4 DEF TipTo
  <2> QED BY <2>2, <2>3, <2>4
<1>7. /\ r.type \in {"accept", "unconfirm"} => NewState(r.type) = "unconfirmed"
      /\ r.type = "confirm" => NewState(r.type) = "confirmed"
      /\ r.type = "reject" => NewState(r.type) = "absent"
  BY <1>3 DEF NewState
<1>8. Held("confirmed")' = IF r.type = "confirm" THEN Abs.conf \cup {x} ELSE Abs.conf \ {x}
  <2>1. ASSUME NEW y
        PROVE  y \in Held("confirmed")' <=>
                  y \in (IF r.type = "confirm" THEN Abs.conf \cup {x} ELSE Abs.conf \ {x})
    <3>1. y \in Held("confirmed")' <=> y \in Tx \cup Block /\ kv'[y] = "confirmed"
      BY DEF Held
    <3>2. CASE y = x
      BY <1>2, <1>3, <1>5, <1>7, <3>1, <3>2
    <3>3. CASE y # x
      BY <1>5, <3>1, <3>3, AbsFacts
    <3> QED BY <3>2, <3>3
  <2> QED BY <2>1
<1>9. Held("unconfirmed")' = IF r.type \in {"accept", "unconfirm"} THEN Abs.unc \cup {x} ELSE Abs.unc \ {x}
  <2>1. ASSUME NEW y
        PROVE  y \in Held("unconfirmed")' <=>
                  y \in (IF r.type \in {"accept", "unconfirm"} THEN Abs.unc \cup {x} ELSE Abs.unc \ {x})
    <3>1. y \in Held("unconfirmed")' <=> y \in Tx \cup Block /\ kv'[y] = "unconfirmed"
      BY DEF Held
    <3>2. CASE y = x
      BY <1>2, <1>3, <1>5, <1>7, <3>1, <3>2
    <3>3. CASE y # x
      BY <1>5, <3>1, <3>3, AbsFacts
    <3> QED BY <3>2, <3>3
  <2> QED BY <2>1
<1>10. Abs' = LS(kvTip', Held("confirmed")', Held("unconfirmed")')
  BY DEF Abs, LS
<1> QED BY <1>1, <1>2, <1>6, <1>8, <1>9, <1>10 DEF RowTo

\* A legal row makes a step of TxLedger.
LEMMA LedgerTx ==
    ASSUME TypeInv, TypeInv', HandleTxlog, NEW r \in Row, r = disk.txlogs2[consumed + 1],
           NEW g, r.tx \in Tx, TxOK(g, Abs, r)
    PROVE  Ledger!LedgerNext
<1>1. PICK t \in Tx : t = r.tx
  OBVIOUS
<1>2. t \notin Block /\ t \in Tx \cup Block
  BY TxGraphAssumption
<1>3. kv' = [kv EXCEPT ![t] = NewState(r.type)] /\ kvTip' = TipTo(Abs, r)
  BY <1>1, AbsStep
<1>4. Abs.tip = kvTip /\ kvTip' = kvTip
  BY <1>1, <1>2, <1>3, AbsFacts DEF TipTo
<1>5. \A x \in Tx \cup Block : /\ x \in Abs.conf <=> kv[x] = "confirmed"
                               /\ x \in Abs.unc <=> kv[x] = "unconfirmed"
                               /\ x \in All(Abs) <=> kv[x] # "absent"
  BY AbsFacts
<1>6. kv[t] \in {"absent", "unconfirmed", "confirmed"} /\ r.type \in {"accept", "confirm", "unconfirm", "reject"}
  BY DEF TypeInv, TypeOK, Row
<1>7. CASE r.type = "accept"
  <2>1. t \notin All(Abs) /\ Conflicts(t) \cap All(Abs) = {}
    BY <1>1, <1>7 DEF TxOK
  <2>2. \A u \in Conflicts(t) : u \in Tx /\ kv[u] = "absent"
    BY <1>5, <2>1 DEF Conflicts
  <2>3. NewState(r.type) = "unconfirmed"
    BY <1>7 DEF NewState
  <2>4. Ledger!AcceptTx(t)
    BY <1>2, <1>3, <1>4, <1>5, <2>1, <2>2, <2>3, LedgerNames DEF Ledger!AcceptTx, Ledger!Present, Ledger!Move
  <2> QED BY <2>4 DEF Ledger!LedgerNext
<1>8. CASE r.type = "confirm"
  <2>1. t \in Abs.unc /\ Parents(t) \subseteq Abs.conf /\ kvTip \in Block /\ kvTip \in Abs.conf
    BY <1>1, <1>4, <1>8 DEF TxOK
  <2>2. PICK i \in 1..Len(Vtx[kvTip]) : Vtx[kvTip][i] = t /\ \A j \in 1..(i - 1) : Vtx[kvTip][j] \in Abs.conf
    BY <1>1, <1>4, <1>8 DEF TxOK
  <2>3. i \in 1..Cardinality(Tx)
    BY <2>1, BlockFits
  <2>4. Ledger!AtTip(t, i)
    BY <1>5, <2>1, <2>2 DEF Ledger!AtTip
  <2>5. \A u \in Ledger!Earlier(i) : kv[u] = "confirmed"
    <3>1. \A j \in 1..(i - 1) : Vtx[kvTip][j] \in Tx \cup Block
      <4>1. Abs.conf \subseteq Tx \cup Block
        BY AbsFacts
      <4> QED BY <2>2, <4>1
    <3> QED BY <1>5, <2>2, <3>1 DEF Ledger!Earlier
  <2>6. NewState(r.type) = "confirmed"
    BY <1>8 DEF NewState
  <2>7. \A p \in Parents(t) : kv[p] = "confirmed"
    BY <1>5, <2>1 DEF Parents
  <2>8. kv[t] = "unconfirmed"
    BY <1>2, <1>5, <2>1
  <2>9. Ledger!ConfirmTx(t)
    BY <1>3, <1>4, <2>3, <2>4, <2>5, <2>6, <2>7, <2>8, LedgerNames DEF Ledger!ConfirmTx, Ledger!Move
  <2> QED BY <2>9 DEF Ledger!LedgerNext
<1>9. CASE r.type = "unconfirm"
  <2>1. /\ t \in Abs.conf /\ \A c \in Tx : t \in Parents(c) => c \notin Abs.conf
        /\ kvTip \in Block /\ kvTip \in Abs.conf
    BY <1>1, <1>4, <1>9 DEF TxOK
  <2>2. PICK i \in 1..Len(Vtx[kvTip]) :
           Vtx[kvTip][i] = t /\ \A j \in (i + 1)..Len(Vtx[kvTip]) : Vtx[kvTip][j] \notin Abs.conf
    BY <1>1, <1>4, <1>9 DEF TxOK
  <2>3. i \in 1..Cardinality(Tx)
    BY <2>1, BlockFits
  <2>4. Ledger!AtTip(t, i)
    BY <1>5, <2>1, <2>2 DEF Ledger!AtTip
  <2>5. \A u \in Ledger!Later(i) : kv[u] # "confirmed"
    <3>1. \A j \in (i + 1)..Len(Vtx[kvTip]) : Vtx[kvTip][j] \in Tx \cup Block
      <4>1. Vtx[kvTip] \in Seq(Tx)
        BY <2>1, TxGraphAssumption
      <4> QED BY <2>2, <4>1
    <3> QED BY <1>5, <2>2, <3>1 DEF Ledger!Later
  <2>6. NewState(r.type) = "unconfirmed"
    BY <1>9 DEF NewState
  <2>7. \A c \in Tx : t \in Parents(c) => kv[c] # "confirmed"
    BY <1>5, <2>1
  <2>8. kv[t] = "confirmed"
    BY <1>2, <1>5, <2>1
  <2>9. Ledger!UnconfirmTx(t)
    BY <1>3, <1>4, <2>3, <2>4, <2>5, <2>6, <2>7, <2>8, LedgerNames DEF Ledger!UnconfirmTx, Ledger!Move
  <2> QED BY <2>9 DEF Ledger!LedgerNext
<1>10. CASE r.type = "reject"
  <2>1. t \in Abs.unc /\ \A c \in Tx : t \in Parents(c) => c \notin All(Abs)
    BY <1>1, <1>10 DEF TxOK
  <2>2. NewState(r.type) = "absent"
    BY <1>10 DEF NewState
  <2>3. \A c \in Tx : t \in Parents(c) => kv[c] = "absent"
    BY <1>5, <2>1
  <2>4. kv[t] = "unconfirmed"
    BY <1>2, <1>5, <2>1
  <2>5. Ledger!RejectTx(t)
    BY <1>3, <1>4, <2>2, <2>3, <2>4, LedgerNames DEF Ledger!RejectTx, Ledger!Present, Ledger!Move
  <2> QED BY <2>5 DEF Ledger!LedgerNext
<1> QED BY <1>6, <1>7, <1>8, <1>9, <1>10

\* A row of a coinbase is a step of TxLedger.
LEMMA LedgerCoinbase ==
    ASSUME TypeInv, TypeInv', HandleTxlog, NEW r \in Row, r = disk.txlogs2[consumed + 1],
           r.tx \in Block, CoinbaseOK(Abs, r)
    PROVE  Ledger!LedgerNext
<1>1. PICK b \in Block : b = r.tx
  OBVIOUS
<1>3. kv' = [kv EXCEPT ![b] = NewState(r.type)] /\ kvTip' = TipTo(Abs, r)
  BY <1>1, AbsStep
<1>4. Abs.tip = kvTip
  BY AbsFacts
<1>5. \A x \in Tx \cup Block : /\ x \in Abs.conf <=> kv[x] = "confirmed"
                               /\ x \in Abs.unc <=> kv[x] = "unconfirmed"
                               /\ x \in All(Abs) <=> kv[x] # "absent"
  BY AbsFacts
<1>6. r.type \in {"accept", "confirm", "unconfirm", "reject"}
  BY DEF Row
<1>7. CASE r.type = "accept"
  <2>1. /\ kv[b] = "absent" /\ kvTip = Prev[b]
        /\ \A c \in Block : kv[c] # "unconfirmed"
    BY <1>1, <1>4, <1>5, <1>7 DEF CoinbaseOK
  <2>2. kvTip \in Block => \A t \in BlockTxs(kvTip) : kv[t] = "confirmed"
    <3>1. kvTip \in Block => BlockTxs(kvTip) \subseteq Abs.conf /\ BlockTxs(kvTip) \subseteq Tx
      BY <1>4, <1>7, BlockTxsType DEF CoinbaseOK
    <3> QED BY <1>5, <3>1
  <2>3. kvTip' = kvTip /\ NewState(r.type) = "unconfirmed"
    BY <1>3, <1>4, <1>7 DEF TipTo, NewState
  <2>4. Ledger!AcceptCoinbase(b)
    BY <1>3, <2>1, <2>2, <2>3, LedgerNames DEF Ledger!AcceptCoinbase, Ledger!Move
  <2> QED BY <2>4 DEF Ledger!LedgerNext
<1>8. CASE r.type = "confirm"
  <2>1. kv[b] = "unconfirmed" /\ kvTip = Prev[b]
    BY <1>1, <1>4, <1>5, <1>8 DEF CoinbaseOK
  <2>2. kvTip' = b /\ NewState(r.type) = "confirmed"
    BY <1>1, <1>3, <1>8 DEF TipTo, NewState
  <2>3. Ledger!ConfirmBlock(b)
    BY <1>3, <2>1, <2>2 DEF Ledger!ConfirmBlock, Ledger!Move
  <2> QED BY <2>3 DEF Ledger!LedgerNext
<1>9. CASE r.type = "unconfirm"
  <2>1. kv[b] = "confirmed" /\ kvTip = b
    BY <1>1, <1>4, <1>5, <1>9 DEF CoinbaseOK
  <2>2. \A t \in BlockTxs(b) : kv[t] # "confirmed"
    <3>1. BlockTxs(b) \cap Abs.conf = {} /\ BlockTxs(b) \subseteq Tx
      BY <1>1, <1>9, BlockTxsType DEF CoinbaseOK
    <3> QED BY <1>5, <3>1
  <2>3. kvTip' = kvTip /\ NewState(r.type) = "unconfirmed"
    BY <1>3, <1>4, <1>9 DEF TipTo, NewState
  <2>4. Ledger!UnconfirmCoinbase(b)
    BY <1>3, <2>1, <2>2, <2>3, LedgerNames DEF Ledger!UnconfirmCoinbase, Ledger!Move
  <2> QED BY <2>4 DEF Ledger!LedgerNext
<1>10. CASE r.type = "reject"
  <2>1. kv[b] = "unconfirmed" /\ kvTip = b
    BY <1>1, <1>4, <1>5, <1>10 DEF CoinbaseOK
  <2>2. kvTip' = Prev[b] /\ NewState(r.type) = "absent"
    BY <1>1, <1>3, <1>10 DEF TipTo, NewState
  <2>3. Ledger!RejectBlock(b)
    BY <1>3, <2>1, <2>2 DEF Ledger!RejectBlock, Ledger!Move
  <2> QED BY <2>3 DEF Ledger!LedgerNext
<1> QED BY <1>6, <1>7, <1>8, <1>9, <1>10

\* Legal rows keep parents present.
LEMMA ParentsStay ==
    ASSUME NEW s \in LState, NEW r \in Row, RowOK(FALSE, s, r), ParentsIn(s)
    PROVE  ParentsIn(RowTo(s, r))
<1>1. PICK K \in SUBSET (Tx \cup Block), U \in SUBSET (Tx \cup Block) : K = s.conf /\ U = s.unc
  BY DEF LState
<1>2. PICK x \in Tx \cup Block : x = r.tx
  BY DEF Row
<1>3. PICK t \in LState : t = RowTo(s, r)
  BY RowToType
<1>4. /\ t.conf = IF r.type = "confirm" THEN K \cup {x} ELSE K \ {x}
      /\ t.unc = IF r.type \in {"accept", "unconfirm"} THEN U \cup {x} ELSE U \ {x}
  BY <1>1, <1>2, <1>3 DEF RowTo, LS
<1>5. \A u \in (K \cup U) \cap Tx : Parents(u) \subseteq K \cup U
  BY <1>1 DEF ParentsIn, All
<1>6. CASE r.type = "accept"
  <2>1. All(t) = (K \ {x}) \cup U \cup {x}
    BY <1>4, <1>6 DEF All
  <2>2. x \in Tx => Parents(x) \subseteq K \cup U
    BY <1>1, <1>2, <1>6, TxGraphAssumption DEF RowOK, TxOK, All
  <2> QED BY <1>3, <1>5, <2>1, <2>2 DEF ParentsIn
<1>7. CASE r.type \in {"confirm", "unconfirm"}
  <2>1. x \in K \cup U
    BY <1>1, <1>2, <1>7 DEF RowOK, TxOK, CoinbaseOK
  <2>2. All(t) = K \cup U
    BY <1>4, <1>7, <2>1 DEF All
  <2> QED BY <1>3, <1>5, <2>2 DEF ParentsIn
<1>8. CASE r.type = "reject"
  <2>1. All(t) = (K \cup U) \ {x}
    BY <1>4, <1>8 DEF All
  <2>2. \A u \in (K \cup U) \cap Tx : x \notin Parents(u)
    <3>1. CASE x \in Tx
      BY <1>1, <1>2, <1>8, <3>1, TxGraphAssumption DEF RowOK, TxOK, All
    <3>2. CASE x \in Block
      BY <3>2, TxGraphAssumption DEF Parents
    <3> QED BY <3>1, <3>2
  <2> QED BY <1>3, <1>5, <2>1, <2>2 DEF ParentsIn
<1> QED BY <1>6, <1>7, <1>8 DEF Row

-----------------------------------------------------------------------------
(* What the memory repository knows of spenders. *)

\* Spenders(u) are those in memory that have u as a parent.
LEMMA SpendersFacts ==
    ASSUME BaseInv, NEW u \in Tx
    PROVE  \A v : v \in Spenders(u) <=> v \in txs /\ u \in Parents(v)
<1>1. /\ txs \subseteq Tx
      /\ \A o \in Outpoint : spentOutputs[o] \in Tx \cup {NoTx}
      /\ \A o \in Outpoint, t \in Tx : spentOutputs[o] = t <=> (t \in txs /\ o \in Vin[t])
  BY DEF BaseInv, TypeInv, TypeOK, MemTypeOK, SpentExact
<1>2. /\ Vout[u] \subseteq Outpoint /\ NoTx \notin Tx
      /\ \A v \in Tx : Vin[v] \subseteq Outpoint
  BY TxGraphAssumption
<1>3. ASSUME NEW v
      PROVE  v \in Spenders(u) => v \in txs /\ u \in Parents(v)
  BY <1>1, <1>2 DEF Spenders, Parents
<1>4. ASSUME NEW v \in txs, u \in Parents(v)
      PROVE  v \in Spenders(u)
  <2>1. PICK o \in Vout[u] : o \in Vin[v]
    BY <1>4 DEF Parents
  <2>2. spentOutputs[o] = v /\ v # NoTx
    BY <1>1, <1>2, <2>1
  <2> QED BY <2>1, <2>2 DEF Spenders
<1> QED BY <1>3, <1>4

\* Descendants() walks into exactly what depends on S.
LEMMA DescendantsDesc ==
    ASSUME BaseInv, NEW S \in SUBSET txs
    PROVE  Descendants(S) = DescOf(txs, S)
<1>1. txs \subseteq Tx
  BY DEF BaseInv, TypeInv, TypeOK, MemTypeOK
<1>2. ASSUME NEW D \in SUBSET txs
      PROVE  (S \subseteq D /\ \A u \in D : Spenders(u) \subseteq D)
                <=> (S \cap txs \subseteq D /\ ClosedIn(D, txs))
  <2>1. (\A u \in D : Spenders(u) \subseteq D) <=> ClosedIn(D, txs)
    BY <1>1, SpendersFacts DEF ClosedIn
  <2> QED BY <2>1
<1> QED BY <1>2 DEF Descendants, DescOf

\* What stands in the way of t, and the spenders of it.
LEMMA ConflictSetDesc ==
    ASSUME BaseInv, NEW t \in Tx, t \notin txs
    PROVE  ConflictSet(t) = DescOf(txs, Conflicts(t) \cap txs)
<1>1. /\ txs \subseteq Tx
      /\ \A o \in Outpoint : spentOutputs[o] \in Tx \cup {NoTx}
      /\ \A o \in Outpoint, u \in Tx : spentOutputs[o] = u <=> (u \in txs /\ o \in Vin[u])
  BY DEF BaseInv, TypeInv, TypeOK, MemTypeOK, SpentExact
<1>2. Vin[t] \subseteq Outpoint /\ NoTx \notin Tx
  BY TxGraphAssumption
<1>3. PICK S : S = {spentOutputs[o] : o \in Vin[t]} \ {NoTx}
  OBVIOUS
<1>4. ASSUME NEW u \in S PROVE u \in Conflicts(t) \cap txs
  BY <1>1, <1>2, <1>3 DEF Conflicts
<1>5. ASSUME NEW u \in Conflicts(t) \cap txs PROVE u \in S
  <2>1. PICK o \in Vin[t] : o \in Vin[u]
    BY DEF Conflicts
  <2>2. spentOutputs[o] = u /\ u # NoTx
    BY <1>1, <1>2, <2>1
  <2> QED BY <1>3, <2>1, <2>2
<1>6. S = Conflicts(t) \cap txs
  BY <1>4, <1>5
<1>7. PICK C \in SUBSET txs : C = Conflicts(t) \cap txs
  OBVIOUS
<1>8. Descendants(C) = DescOf(txs, C)
  BY DescendantsDesc
<1> QED BY <1>3, <1>6, <1>7, <1>8 DEF ConflictSet

\* addTx() succeeds where nothing in memory is in the way.
LEMMA CanAddFacts ==
    ASSUME BaseInv, NEW t \in Tx
    PROVE  CanAdd(t) <=> t \notin txs /\ Conflicts(t) \cap txs = {}
<1>1. /\ txs \subseteq Tx
      /\ \A o \in Outpoint : spentOutputs[o] \in Tx \cup {NoTx}
      /\ \A o \in Outpoint, u \in Tx : spentOutputs[o] = u <=> (u \in txs /\ o \in Vin[u])
  BY DEF BaseInv, TypeInv, TypeOK, MemTypeOK, SpentExact
<1>2. Vin[t] \subseteq Outpoint /\ NoTx \notin Tx
  BY TxGraphAssumption
<1>3. ASSUME t \notin txs, Conflicts(t) \cap txs = {}, NEW o \in Vin[t]
      PROVE  spentOutputs[o] = NoTx
  <2>1. PICK u : u = spentOutputs[o]
    OBVIOUS
  <2>2. u # NoTx => u \in txs /\ o \in Vin[u]
    BY <1>1, <1>2, <2>1
  <2>3. u # NoTx => u \in Conflicts(t)
    BY <1>1, <1>3, <2>2 DEF Conflicts
  <2> QED BY <1>3, <2>1, <2>2, <2>3
<1>4. ASSUME CanAdd(t), NEW u \in Conflicts(t), u \in txs
      PROVE  FALSE
  <2>1. PICK o \in Vin[t] : o \in Vin[u]
    BY DEF Conflicts
  <2>2. spentOutputs[o] = u /\ u # NoTx
    BY <1>1, <1>2, <1>4, <2>1
  <2> QED BY <1>4, <2>1, <2>2 DEF CanAdd
<1> QED BY <1>3, <1>4 DEF CanAdd, IsExist

\* Nothing depends on nothing.
LEMMA DescNone ==
    ASSUME NEW M, NEW S, S \cap M = {}
    PROVE  DescOf(M, S) = {}
<1>1. {} \in SUBSET M /\ S \cap M \subseteq {} /\ ClosedIn({}, M)
  BY DEF ClosedIn
<1> QED BY <1>1 DEF DescOf

\* Conflicts are mutual.
LEMMA ConflictsBoth ==
    ASSUME NEW t \in Tx, NEW u \in Tx
    PROVE  t \in Conflicts(u) <=> u \in Conflicts(t)
BY DEF Conflicts

\* No conflict in memory.
LEMMA MemoryConflicts ==
    ASSUME BaseInv, NEW t \in txs
    PROVE  Conflicts(t) \cap txs = {}
BY MemoryDisjoint DEF BaseInv, Conflicts

-----------------------------------------------------------------------------
(* The inductive invariant of the whole. *)

\* The tip that the first i lines of log1 lead to.
Tip(i) == TipOf(log1, i)

\* The node's lines are in order and lead to its tip.
LinesInv == LinesOK(log1) /\ Tip(Len(log1)) = nodeTip

\* Nothing in M is on the chain up to c or conflicts with it.
MemOK(c, M) == M \cap ChainTxs(c) = {} /\ \A t \in M : Conflicts(t) \cap ChainTxs(c) = {}

\* The rows that tparser has not consumed lead its store to what is committed:
\* the chain up to the stored offset, and 0_memrepo_txs.
StoreInv ==
    /\ MemOK(Tip(disk.offset), disk.memrepo)
    /\ consumed <= Len(disk.txlogs2)
    /\ consumed = 0 => kvTip = Begin
    /\ Leads(forgot, Abs, disk.txlogs2, consumed, St(Tip(disk.offset), disk.memrepo))

\* A running log2producer is at the tip of the lines it has handled; lines behind
\* the stored offset did not move it.
Down == {"down", "aborted"}
UpInv ==
    pc \notin Down =>
        /\ disk.offset <= pos /\ cur = Tip(disk.offset)
        /\ cur = Tip(IF pc = "idle" THEN pos ELSE pos - 1)

\* While a block is handled: the rows so far are runs of the ledger, whatever
\* else is in memory.
Confirming(b, M) == Leads(FALSE, St(cur, M), confirms, 0, Mid(b, vpos, M))
BlockInv ==
    pc = "block" =>
        LET b == log1[pos].item IN
        /\ Prev[b] = cur
        /\ unSyncDelete \cap BlockTxs(b) = {}
        /\ First(b, vpos) \subseteq txs
        /\ unSyncInsert \cap disk.memrepo = {}
        /\ \A i, j \in 1..Len(rejects) : i # j => rejects[i] # rejects[j]
        /\ Leads(FALSE, St(cur, disk.memrepo), rejects, 0, St(cur, disk.memrepo \ unSyncDelete))
        /\ \A M \in SUBSET (disk.memrepo \ unSyncDelete) :
              BlockTxs(b) \cap disk.memrepo \subseteq M => Confirming(b, M)

\* While a batch is written: its rows, where none was written twice, lead from
\* what is committed to what is in memory.
Built == {"insert", "begin", "rows"}
Batch == Built \cup {"memInsert", "memDelete", "status", "commit"}
Brings(r) == Leads(forgot, St(cur, disk.memrepo), r, 0, St(Tip(pos), txs))
BuiltInv ==
    /\ db.txlogs2 = disk.txlogs2
    /\ repeats = 0 => Len(db.tmp) + Len(values) = expect
    /\ Len(db.tmp) + Len(values) = expect => Brings(db.tmp \o values)
WrittenInv == \E r \in Seq(Row) : db.txlogs2 = disk.txlogs2 \o r /\ Brings(r)
BatchInv ==
    pc \in Batch =>
        /\ MemOK(Tip(pos), txs)
        /\ log1[pos].type = "clear" => txs = {}
        /\ pc \in Built => BuiltInv
        /\ pc \in Built \cup {"memInsert"} => unSyncInsert \cap db.memrepo = {}
        /\ pc \notin Built => WrittenInv
        /\ pc = "memDelete" => unSyncDelete \subseteq db.memrepo
        /\ pc = "commit" => db.offset = pos

\* As long as the node has not forgotten transactions, the pool that its lines
\* describe is 0_memrepo_txs at the stored offset, and what is in memory.
PoolWalk(P) ==
    /\ P \in [0..Len(log1) -> SUBSET Tx]
    /\ \A i \in 1..Len(log1) : PoolStep(Tip(i - 1), P[i - 1], log1[i], P[i])
PoolNow(P) ==
    /\ P[disk.offset] = disk.memrepo
    /\ pc = "idle" => P[pos] = txs
    /\ pc \in Batch \cup {"block"} => P[pos - 1] = disk.memrepo
    /\ pc = "block" => unSyncDelete = {}
    /\ pc \in Batch => P[pos] = txs
PoolInv == forgot \/ \E P : PoolWalk(P) /\ P[Len(log1)] = nodePool /\ PoolNow(P)

AbortInv == repeats = 0 => pc # "aborted"
ParentsInv == forgot \/ ParentsIn(Abs)

SysInv ==
    /\ BaseInv /\ Node!NodeTypeOK /\ LinesInv /\ StoreInv /\ UpInv
    /\ BlockInv /\ BatchInv /\ PoolInv /\ AbortInv /\ ParentsInv

-----------------------------------------------------------------------------
(* Steps of the node. *)

\* A step of the node makes log1 grow, and the tips stay where they were.
LEMMA NodeGrows ==
    ASSUME SysInv, NodeStep
    PROVE  /\ LogGrows /\ LinesInv' /\ Node!NodeTypeOK' /\ (forgot => forgot')
           /\ \A i \in 0..Len(log1) : Tip(i)' = Tip(i)
           /\ forgot' \/ \E P : PoolWalk(P)' /\ P[Len(log1')] = nodePool' /\ PoolNow(P)
<1>1. NodeWrites
  BY NodeLines DEF SysInv, NodeStep
<1>2. PICK more \in Seq(Line) : /\ log1' = log1 \o more
                                /\ Goes(forgot', nodeTip, nodePool, more, nodeTip', nodePool')
  BY <1>1 DEF NodeWrites
<1>3. forgot => forgot'
  BY <1>1 DEF NodeWrites
<1>3a. Node!NodeTypeOK'
  BY <1>1 DEF NodeWrites
<1>4. log1 \in Seq(Line)
  BY DEF SysInv, BaseInv, TypeInv, TypeOK
<1>5. PICK n \in Nat, m \in Nat : n = Len(log1) /\ m = Len(more)
  BY <1>2, <1>4
<1>6. PICK p \in Seq(Line) : p = log1 \o more
  <2>1. log1 \o more \in Seq(Line)
    BY <1>4
  <2> QED BY <2>1
<1>7. /\ Len(p) = n + m
      /\ \A i \in 1..n : p[i] = log1[i]
      /\ \A i \in 1..m : p[n + i] = more[i]
  BY <1>4, <1>5, <1>6, ConcatParts
<1>8. LogGrows
  <2>1. UNCHANGED <<memVars, procVars, dbVars, kvVars, boundVars>>
    BY DEF NodeStep
  <2>2. log1' = p /\ n + m >= n
    BY <1>2, <1>6
  <2> QED BY <1>5, <1>7, <2>1, <2>2 DEF LogGrows
<1>9. PICK T \in [0..m -> Block \cup {Begin}], Q \in [0..m -> SUBSET Tx] :
         /\ T[0] = nodeTip /\ T[m] = nodeTip' /\ Q[0] = nodePool /\ Q[m] = nodePool'
         /\ LineSteps(forgot', T, Q, more)
  BY <1>2, <1>5 DEF Goes
<1>10. \A i \in 1..m : /\ LineOK(T[i - 1], more[i]) /\ T[i] = TipAfter(T[i - 1], more[i])
                       /\ forgot' \/ PoolStep(T[i - 1], Q[i - 1], more[i], Q[i])
  BY <1>5, <1>9 DEF LineSteps, LineStep
<1>11. LinesOK(log1) /\ TipOf(log1, n) = nodeTip
  BY <1>5 DEF SysInv, LinesInv, Tip
<1>12. Continues(T, more, TipOf(log1, Len(log1)))
  BY <1>5, <1>9, <1>10, <1>11 DEF Continues
<1>13. /\ \A i \in 0..n : TipOf(p, i) = TipOf(log1, i)
       /\ \A i \in 0..m : TipOf(p, n + i) = T[i]
  BY <1>4, <1>5, <1>6, <1>12, TipAppend
<1>14. LinesOK(p) /\ TipOf(p, Len(p)) = nodeTip'
  <2>1. LinesOK(log1 \o more) /\ TipOf(log1 \o more, Len(log1 \o more)) = T[Len(more)]
    BY <1>4, <1>11, <1>12, LinesAppend
  <2> QED BY <1>5, <1>6, <1>9, <2>1
<1>15. log1' = p
  BY <1>2, <1>6
<1>16. LinesInv'
  BY <1>14, <1>15 DEF LinesInv, Tip
<1>17. \A i \in 0..Len(log1) : Tip(i)' = Tip(i)
  BY <1>5, <1>13, <1>15 DEF Tip
<1>18. ASSUME ~forgot'
       PROVE  \E P : PoolWalk(P)' /\ P[Len(log1')] = nodePool' /\ PoolNow(P)
  <2>1. PICK R : PoolWalk(R) /\ R[Len(log1)] = nodePool /\ PoolNow(R)
    BY <1>3, <1>18 DEF SysInv, PoolInv
  <2>2. /\ R \in [0..n -> SUBSET Tx] /\ R[n] = nodePool
        /\ \A i \in 1..n : PoolStep(TipOf(log1, i - 1), R[i - 1], log1[i], R[i])
    BY <1>5, <2>1 DEF PoolWalk, Tip
  <2> DEFINE P == [i \in 0..(n + m) |-> IF i <= n THEN R[i] ELSE Q[i - n]]
  <2>3. \A i \in 0..(n + m) : (i <= n => i \in 0..n) /\ (~(i <= n) => i - n \in 0..m)
    OBVIOUS
  <2>4. P \in [0..(n + m) -> SUBSET Tx]
    BY <1>9, <2>2, <2>3
  <2>5. \A i \in 0..n : P[i] = R[i]
    OBVIOUS
  <2>6. ASSUME NEW i \in 0..m
        PROVE  P[n + i] = Q[i]
    <3>1. n + i \in 0..(n + m) /\ (n + i <= n => i = 0) /\ n + i - n = i
      OBVIOUS
    <3>2. CASE i = 0
      <4>1. P[n] = R[n]
        BY <2>5
      <4> QED BY <1>9, <2>2, <3>2, <4>1
    <3>3. CASE i # 0
      BY <3>1, <3>3
    <3> QED BY <3>2, <3>3
  <2> HIDE DEF P
  <2>7. ASSUME NEW i \in 1..(n + m)
        PROVE  PoolStep(TipOf(p, i - 1), P[i - 1], p[i], P[i])
    <3>1. CASE i <= n
      <4>1. i \in 1..n /\ i - 1 \in 0..n /\ i \in 0..n
        BY <3>1
      <4>2. /\ TipOf(p, i - 1) = TipOf(log1, i - 1) /\ P[i - 1] = R[i - 1]
            /\ p[i] = log1[i] /\ P[i] = R[i]
        BY <1>7, <1>13, <2>5, <4>1
      <4> QED BY <2>2, <4>1, <4>2
    <3>2. CASE i > n
      <4>1. PICK j \in 1..m : i = n + j
        <5>1. i - n \in 1..m /\ i = n + (i - n)
          BY <3>2
        <5> QED BY <5>1
      <4>2. j - 1 \in 0..m /\ j \in 0..m /\ i - 1 = n + (j - 1)
        BY <4>1
      <4>3. TipOf(p, i - 1) = T[j - 1] /\ P[i - 1] = Q[j - 1] /\ p[i] = more[j] /\ P[i] = Q[j]
        BY <1>7, <1>13, <2>6, <4>1, <4>2
      <4>4. PoolStep(T[j - 1], Q[j - 1], more[j], Q[j])
        BY <1>10, <1>18, <4>1
      <4> QED BY <4>3, <4>4
    <3> QED BY <3>1, <3>2
  <2>8. PoolWalk(P)'
    BY <1>7, <1>15, <2>4, <2>7 DEF PoolWalk, Tip
  <2>9. P[Len(log1')] = nodePool'
    <3>1. P[n + m] = Q[m]
      BY <2>6
    <3> QED BY <1>7, <1>9, <1>15, <3>1
  <2>10. PoolNow(P)
    <3>1. /\ disk.offset \in 0..n /\ pos \in 0..n
          /\ pc \in Batch \cup {"block"} => pos - 1 \in 0..n
      <4>1. disk.offset \in Nat /\ pos \in Nat /\ disk.offset <= n /\ pos <= n
        BY <1>5 DEF SysInv, BaseInv, TypeInv, TypeOK, LineInv, Tables
      <4>2. pc \in Batch \cup {"block"} => pos > 0
        BY DEF SysInv, BaseInv, TypeInv, LineInv, Batch, Built
      <4> QED BY <4>1, <4>2
    <3> QED BY <2>1, <2>5, <3>1 DEF PoolNow, Batch
  <2> QED BY <2>8, <2>9, <2>10
<1> QED BY <1>3, <1>3a, <1>8, <1>16, <1>17, <1>18

\* A step of the node keeps the invariant.
LEMMA SysNode ==
    ASSUME SysInv, NodeStep
    PROVE  SysInv'
<1>1. /\ LogGrows /\ LinesInv' /\ Node!NodeTypeOK' /\ (forgot => forgot')
      /\ \A i \in 0..Len(log1) : Tip(i)' = Tip(i)
  BY NodeGrows
<1>2. BaseInv'
  BY <1>1, BaseGrows DEF SysInv
<1>3. /\ UNCHANGED <<txs, spentOutputs, unSyncInsert, unSyncDelete>>
      /\ UNCHANGED <<pc, pos, cur, vpos, rejects, confirms, values, expect>>
      /\ UNCHANGED <<db, disk, inTxn, consumed, kv, kvTip, crashes, drops, repeats>>
  BY <1>1 DEF LogGrows, memVars, procVars, dbVars, kvVars, boundVars
<1>4. /\ disk.offset \in 0..Len(log1) /\ pos \in 0..Len(log1)
      /\ pc \in Batch \cup {"block"} => pos - 1 \in 0..Len(log1) /\ pos \in 1..Len(log1)
  <2>1. disk.offset \in Nat /\ pos \in Nat /\ disk.offset <= Len(log1) /\ pos <= Len(log1)
        /\ Len(log1) \in Nat
    BY DEF SysInv, BaseInv, TypeInv, TypeOK, LineInv, Tables
  <2>2. pc \in Batch \cup {"block"} => pos > 0
    BY DEF SysInv, BaseInv, TypeInv, LineInv, Batch, Built
  <2> QED BY <2>1, <2>2
<1>5. /\ Tip(disk.offset)' = Tip(disk.offset) /\ Tip(pos)' = Tip(pos)
      /\ pc \in Batch \cup {"block"} => Tip(pos - 1)' = Tip(pos - 1) /\ log1'[pos] = log1[pos]
  BY <1>1, <1>3, <1>4 DEF LogGrows
<1>6. Abs' = Abs
  BY <1>3 DEF Abs, LS, Held
<1>7. \A s, r, k, t : Leads(forgot, s, r, k, t) => Leads(forgot', s, r, k, t)
  BY <1>1, LeadsWeaker
<1>8. StoreInv'
  BY <1>3, <1>5, <1>6, <1>7 DEF SysInv, StoreInv
<1>9. UpInv'
  <2>1. pc \in PCs
    BY DEF SysInv, BaseInv, TypeInv, TypeOK
  <2>2. pc \notin Down => pc = "idle" \/ pc \in Batch \cup {"block"}
    BY <2>1 DEF PCs, Down, Batch, Built
  <2>3. pc \notin Down => Tip(IF pc = "idle" THEN pos ELSE pos - 1)' = Tip(IF pc = "idle" THEN pos ELSE pos - 1)
    BY <1>3, <1>5, <2>2
  <2> QED BY <1>3, <1>5, <2>3 DEF SysInv, UpInv
<1>10. BlockInv'
  <2>1. pc = "block" => log1'[pos] = log1[pos]
    BY <1>5
  <2> QED BY <1>3, <2>1 DEF SysInv, BlockInv, Confirming
<1>11. BatchInv'
  <2>1. \A r : pc \in Batch /\ Brings(r) => Brings(r)'
    BY <1>3, <1>5, <1>7 DEF Brings
  <2>2. pc \in Batch /\ BuiltInv => BuiltInv'
    BY <1>3, <2>1 DEF BuiltInv
  <2>3. pc \in Batch /\ WrittenInv => WrittenInv'
    BY <1>3, <2>1 DEF WrittenInv
  <2> QED BY <1>3, <1>5, <2>2, <2>3 DEF SysInv, BatchInv
<1>12. PoolInv'
  <2>1. forgot' \/ \E P : PoolWalk(P)' /\ P[Len(log1')] = nodePool' /\ PoolNow(P)
    BY NodeGrows
  <2>2. \A P : PoolNow(P) => PoolNow(P)'
    BY <1>3 DEF PoolNow
  <2> QED BY <2>1, <2>2 DEF PoolInv
<1>13. AbortInv' /\ ParentsInv'
  BY <1>1, <1>3, <1>6 DEF SysInv, AbortInv, ParentsInv
<1> QED BY <1>1, <1>2, <1>8, <1>9, <1>10, <1>11, <1>12, <1>13 DEF SysInv

-----------------------------------------------------------------------------
(* Steps of log2producer and tparser. *)

Quiet == UNCHANGED <<log1, nodeTip, nodePool, forgot>>

\* What the lines say stays true.
LEMMA LinesStay ==
    ASSUME SysInv, Quiet
    PROVE  /\ LinesInv' /\ Node!NodeTypeOK' /\ (\A i : TipOf(log1', i) = TipOf(log1, i))
           /\ \A P : PoolWalk(P) /\ P[Len(log1)] = nodePool
                        => PoolWalk(P)' /\ P[Len(log1')] = nodePool'
BY DEF SysInv, Quiet, LinesInv, Node!NodeTypeOK, Tip, PoolWalk

\* The committed rows and tparser's store are left alone.
StoreSame ==
    /\ disk'.offset = disk.offset /\ disk'.memrepo = disk.memrepo /\ disk'.txlogs2 = disk.txlogs2
    /\ UNCHANGED kvVars

\* Then what the store is led to stays true.
LEMMA StoreStays ==
    ASSUME SysInv, Quiet, StoreSame
    PROVE  StoreInv' /\ ParentsInv' /\ Tip(disk.offset)' = Tip(disk.offset)
<1>1. UNCHANGED <<log1, forgot, consumed, kv, kvTip>>
  BY DEF Quiet, StoreSame, kvVars
<1>2. Abs' = Abs
  BY <1>1 DEF Abs, LS, Held
<1>3. Tip(disk.offset)' = Tip(disk.offset)
  BY <1>1 DEF StoreSame, Tip
<1> QED BY <1>1, <1>2, <1>3 DEF SysInv, StoreInv, ParentsInv, StoreSame

\* The pools of the lines are still those of the producer.
LEMMA PoolStays ==
    ASSUME SysInv, Quiet, \A P : PoolWalk(P) /\ PoolNow(P) => PoolNow(P)'
    PROVE  PoolInv'
<1>1. CASE forgot
  BY <1>1 DEF Quiet, PoolInv
<1>2. CASE ~forgot
  <2>1. PICK P : PoolWalk(P) /\ P[Len(log1)] = nodePool /\ PoolNow(P)
    BY <1>2 DEF SysInv, PoolInv
  <2>2. PoolWalk(P)' /\ P[Len(log1')] = nodePool'
    BY <2>1, LinesStay
  <2> QED BY <2>1, <2>2 DEF PoolInv
<1> QED BY <1>1, <1>2

\* Types of the pieces.
LEMMA SysTypes ==
    ASSUME SysInv
    PROVE  /\ txs \in SUBSET Tx /\ disk.memrepo \in SUBSET Tx /\ cur \in Block \cup {Begin}
           /\ pos \in 0..Len(log1) /\ disk.offset \in 0..Len(log1) /\ Len(log1) \in Nat
           /\ disk.txlogs2 \in Seq(Row) /\ db.tmp \in Seq(Row) /\ values \in Seq(Row)
           /\ \A i \in 0..Len(log1) : Tip(i) \in Block \cup {Begin}
           /\ \A i \in 1..Len(log1) : log1[i] \in Line /\ LineOK(Tip(i - 1), log1[i])
                                      /\ Tip(i) = TipAfter(Tip(i - 1), log1[i])
<1>1. /\ txs \in SUBSET Tx /\ disk.memrepo \in SUBSET Tx /\ cur \in Block \cup {Begin}
      /\ disk.txlogs2 \in Seq(Row) /\ db.tmp \in Seq(Row) /\ values \in Seq(Row)
      /\ log1 \in Seq(Line)
  BY DEF SysInv, BaseInv, TypeInv, TypeOK, MemTypeOK, Tables
<1>2. pos \in Nat /\ disk.offset \in Nat /\ pos <= Len(log1) /\ disk.offset <= Len(log1)
  BY DEF SysInv, BaseInv, TypeInv, TypeOK, LineInv, Tables
<1>3. Len(log1) \in Nat
  BY <1>1
<1>4. \A i \in 0..Len(log1) : Tip(i) \in Block \cup {Begin}
  BY <1>1, TipType DEF Tip
<1>5. ASSUME NEW i \in 1..Len(log1)
      PROVE  /\ log1[i] \in Line /\ LineOK(Tip(i - 1), log1[i])
             /\ Tip(i) = TipAfter(Tip(i - 1), log1[i])
  <2>1. log1[i] \in Line /\ i \in Nat /\ i >= 1
    BY <1>1, <1>3
  <2>2. LineOK(Tip(i - 1), log1[i])
    BY DEF SysInv, LinesInv, LinesOK, Tip
  <2>3. Tip(i) = TipAfter(Tip(i - 1), log1[i])
    BY <2>1, TipNext DEF Tip
  <2> QED BY <2>1, <2>2, <2>3
<1>6. pos \in 0..Len(log1) /\ disk.offset \in 0..Len(log1)
  BY <1>2, <1>3
<1> QED BY <1>1, <1>3, <1>4, <1>5, <1>6

\* Between two lines.
LEMMA IdleFacts ==
    ASSUME SysInv, pc = "idle"
    PROVE  /\ cur = Tip(pos) /\ disk.memrepo = txs /\ db.memrepo = txs /\ MemOK(cur, txs) /\ db = disk
           /\ db.tmp = <<>> /\ unSyncInsert = {} /\ unSyncDelete = {} /\ disk.offset <= pos
           /\ cur = Tip(disk.offset)
<1>1. cur = Tip(pos) /\ disk.offset <= pos /\ cur = Tip(disk.offset)
  BY DEF SysInv, UpInv, Down
<1>2. ~inTxn /\ db = disk /\ Synced
  BY DEF SysInv, BaseInv, SyncAll, TxnInv, SyncInv, InBatch
<1>3. db.tmp = <<>>
  BY DEF SysInv, BaseInv, RowsInv
<1>4. MemOK(Tip(disk.offset), disk.memrepo)
  BY DEF SysInv, StoreInv
<1> QED BY <1>1, <1>2, <1>3, <1>4 DEF Synced

\* The line that a handler takes, as the pools see it.
LEMMA NextPool ==
    ASSUME SysInv, pc = "idle", pos < Len(log1), NEW P, PoolWalk(P), PoolNow(P)
    PROVE  P[pos] = txs /\ PoolStep(cur, txs, log1[pos + 1], P[pos + 1])
<1>1. PICK i \in 1..Len(log1) : i = pos + 1 /\ i - 1 = pos
  <2>1. PICK n \in Nat, m \in Nat : n = pos /\ m = Len(log1) /\ n < m
    BY SysTypes
  <2>2. n + 1 \in 1..m /\ n + 1 - 1 = n
    BY <2>1
  <2> QED BY <2>1, <2>2
<1>2. P[pos] = txs
  BY DEF PoolNow
<1>3. PoolStep(Tip(i - 1), P[i - 1], log1[i], P[i])
  BY DEF PoolWalk
<1>4. cur = Tip(pos)
  BY IdleFacts
<1> QED BY <1>1, <1>2, <1>3, <1>4

\* The handler of a line has built its rows v: what has to hold of them.
LEMMA BatchBuilt ==
    ASSUME SysInv, Quiet, BaseInv', pc = "idle", pos < Len(log1), pos' = pos + 1,
           NEW v \in Seq(Row), values' = v, expect' = Len(v), pc' \in Built, cur' = cur,
           UNCHANGED <<dbVars, kvVars, boundVars>>, NEW N \in SUBSET Tx, txs' = N,
           unSyncInsert' \cap txs = {},
           MemOK(Tip(pos + 1), N), log1[pos + 1].type = "clear" => N = {},
           Leads(forgot, St(cur, txs), v, 0, St(Tip(pos + 1), N)),
           \A P : PoolWalk(P) /\ PoolNow(P) => P[pos + 1] = N
    PROVE  SysInv'
<1>0. /\ cur = Tip(pos) /\ disk.memrepo = txs /\ db = disk /\ db.tmp = <<>>
      /\ disk.offset <= pos /\ cur = Tip(disk.offset)
  BY IdleFacts
<1>1. UNCHANGED <<log1, nodeTip, nodePool, forgot, db, disk, inTxn, consumed, kv, kvTip, repeats>>
  BY DEF Quiet, dbVars, kvVars, boundVars
<1>2. pc' \in Batch /\ pc' \notin Down /\ pc' \notin {"idle", "block", "memDelete", "commit", "aborted"}
  BY DEF Built, Batch, Down
<1>3. LinesInv' /\ Node!NodeTypeOK'
  BY LinesStay
<1>4. StoreInv' /\ ParentsInv' /\ Tip(disk.offset)' = Tip(disk.offset)
  <2>1. StoreSame
    BY <1>1 DEF StoreSame, kvVars
  <2> QED BY <2>1, StoreStays
<1>5. pos \in Nat /\ disk.offset \in Nat /\ pos + 1 - 1 = pos /\ disk.offset <= pos + 1
  BY <1>0, SysTypes
<1>6. Tip(pos)' = Tip(pos + 1) /\ Tip(pos - 1)' = Tip(pos) /\ log1'[pos'] = log1[pos + 1]
  BY <1>1, <1>5 DEF Tip
<1>7. UpInv'
  BY <1>0, <1>1, <1>2, <1>4, <1>5, <1>6 DEF UpInv
<1>8. BlockInv' /\ AbortInv'
  BY <1>2 DEF BlockInv, AbortInv
<1>9. BatchInv'
  <2>1. db'.tmp \o values' = v /\ Len(db'.tmp) + Len(values') = expect'
    BY <1>0, <1>1
  <2>2. Brings(v)'
    BY <1>0, <1>1, <1>6 DEF Brings
  <2>3. BuiltInv'
    BY <1>0, <1>1, <2>1, <2>2 DEF BuiltInv
  <2> QED BY <1>0, <1>1, <1>2, <1>6, <2>3 DEF BatchInv
<1>10. PoolInv'
  <2>1. ASSUME NEW P, PoolWalk(P), PoolNow(P)
        PROVE  PoolNow(P)'
    <3>1. P[disk.offset] = disk.memrepo /\ P[pos] = txs /\ P[pos + 1] = N
      BY <2>1 DEF PoolNow
    <3> QED BY <1>0, <1>1, <1>2, <1>5, <3>1 DEF PoolNow
  <2> QED BY <2>1, PoolStays
<1> QED BY <1>3, <1>4, <1>7, <1>8, <1>9, <1>10 DEF SysInv

\* The handler ignores a line that is not a block.
LEMMA LineIgnored ==
    ASSUME SysInv, Quiet, BaseInv', pc = "idle", pos < Len(log1), pos' = pos + 1,
           log1[pos + 1].type # "block", IgnoreLine, UNCHANGED <<dbVars, kvVars, boundVars>>,
           \A P : PoolWalk(P) /\ PoolNow(P) => P[pos + 1] = txs
    PROVE  SysInv'
<1>0. /\ cur = Tip(pos) /\ disk.offset <= pos /\ cur = Tip(disk.offset)
  BY IdleFacts
<1>1. UNCHANGED <<log1, nodeTip, nodePool, forgot, db, disk, inTxn, consumed, kv, kvTip, repeats,
                  txs, unSyncDelete, pc, cur>>
  BY DEF Quiet, dbVars, kvVars, boundVars, IgnoreLine, memVars
<1>2. pc' = "idle" /\ pc' \notin Batch
  BY <1>1 DEF Batch, Built
<1>3. LinesInv' /\ Node!NodeTypeOK'
  BY LinesStay
<1>4. StoreInv' /\ ParentsInv' /\ Tip(disk.offset)' = Tip(disk.offset)
  <2>1. StoreSame
    BY <1>1 DEF StoreSame, kvVars
  <2> QED BY <2>1, StoreStays
<1>5. pos \in Nat /\ disk.offset \in Nat /\ pos + 1 - 1 = pos /\ disk.offset <= pos + 1 /\ pos + 1 \in 1..Len(log1)
  BY <1>0, SysTypes
<1>6. Tip(pos)' = cur
  <2>1. Tip(pos + 1) = TipAfter(Tip(pos + 1 - 1), log1[pos + 1])
    BY <1>5, SysTypes
  <2> QED BY <1>0, <1>1, <1>5, <2>1 DEF TipAfter, Tip
<1>7. UpInv'
  BY <1>0, <1>1, <1>2, <1>4, <1>5, <1>6 DEF UpInv
<1>8. BlockInv' /\ AbortInv' /\ BatchInv'
  BY <1>2 DEF BlockInv, AbortInv, BatchInv
<1>10. PoolInv'
  <2>1. ASSUME NEW P, PoolWalk(P), PoolNow(P)
        PROVE  PoolNow(P)'
    <3>1. P[disk.offset] = disk.memrepo /\ P[pos + 1] = txs
      BY <2>1 DEF PoolNow
    <3> QED BY <1>1, <1>2, <3>1 DEF PoolNow
  <2> QED BY <2>1, PoolStays
<1> QED BY <1>3, <1>4, <1>7, <1>8, <1>10 DEF SysInv

\* What a handler of a line starts from.
LEMMA NextLineFacts ==
    ASSUME SysInv, NEW k, NextLine(k)
    PROVE  /\ pc = "idle" /\ pos < Len(log1) /\ pos' = pos + 1
           /\ UNCHANGED <<dbVars, kvVars, boundVars>> /\ log1' = log1
           /\ log1[pos + 1] \in Line /\ log1[pos + 1].type = k
           /\ LineOK(cur, log1[pos + 1]) /\ Tip(pos + 1) = TipAfter(cur, log1[pos + 1])
<1>1. /\ pc = "idle" /\ pos < Len(log1) /\ pos' = pos + 1 /\ log1[pos + 1].type = k
      /\ UNCHANGED <<dbVars, kvVars, boundVars>> /\ log1' = log1
  BY DEF NextLine, envVars
<1>2. PICK i \in 1..Len(log1) : i = pos + 1 /\ i - 1 = pos
  <2>1. PICK n \in Nat, m \in Nat : n = pos /\ m = Len(log1) /\ n < m
    BY <1>1, SysTypes
  <2>2. n + 1 \in 1..m /\ n + 1 - 1 = n
    BY <2>1
  <2> QED BY <2>1, <2>2
<1>3. cur = Tip(pos)
  BY <1>1, IdleFacts
<1>4. log1[i] \in Line /\ LineOK(Tip(i - 1), log1[i]) /\ Tip(i) = TipAfter(Tip(i - 1), log1[i])
  BY SysTypes
<1> QED BY <1>1, <1>2, <1>3, <1>4

\* handleTxAccept() keeps the invariant.
LEMMA SysTxAccept ==
    ASSUME SysInv, Quiet, BaseInv', HandleTxAccept
    PROVE  SysInv'
<1>1. NextLine("accept")
  BY DEF HandleTxAccept
<1>2. /\ pc = "idle" /\ pos < Len(log1) /\ pos' = pos + 1
      /\ UNCHANGED <<dbVars, kvVars, boundVars>>
      /\ log1[pos + 1] \in Line /\ log1[pos + 1].type = "accept"
      /\ LineOK(cur, log1[pos + 1]) /\ Tip(pos + 1) = TipAfter(cur, log1[pos + 1])
  BY <1>1, NextLineFacts
<1>3. PICK t \in Tx : t = log1[pos + 1].item
  BY <1>2, LineItems
<1>4. t \notin ChainTxs(cur) /\ Conflicts(t) \cap ChainTxs(cur) = {} /\ Tip(pos + 1) = cur
  BY <1>2, <1>3 DEF LineOK, TipAfter
<1>5. BaseInv /\ txs \in SUBSET Tx /\ cur \in Block \cup {Begin}
  BY SysTypes DEF SysInv
<1>6. CanAdd(t) <=> t \notin txs /\ Conflicts(t) \cap txs = {}
  BY <1>5, CanAddFacts
<1>7. ASSUME NEW P, PoolWalk(P), PoolNow(P)
      PROVE  /\ t \notin txs /\ Conflicts(t) \cap txs = {}
             /\ Parents(t) \subseteq ChainTxs(cur) \cup txs /\ P[pos + 1] = txs \cup {t}
  <2>1. PoolStep(cur, txs, log1[pos + 1], P[pos + 1])
    BY <1>2, <1>7, NextPool
  <2> QED BY <1>2, <1>3, <2>1 DEF PoolStep
<1>8. CASE CanAdd(t) /\ AddTxs({t}) /\ WriteBatch(<<TxRow("accept", t)>>, "begin")
  <2>1. PICK v \in Seq(Row) : v = <<TxRow("accept", t)>>
    <3>1. <<TxRow("accept", t)>> \in Seq(Row)
      BY TxRowType
    <3> QED BY <3>1
  <2>2. values' = v /\ expect' = Len(v) /\ pc' \in Built /\ cur' = cur
    BY <1>8, <2>1 DEF WriteBatch, Built
  <2>3. PICK N \in SUBSET Tx : N = txs \cup {t}
    BY <1>5
  <2>4. txs' = N /\ unSyncInsert' = {t}
    BY <1>2, <1>8, <2>3, IdleFacts DEF AddTxs
  <2>5. unSyncInsert' \cap txs = {}
    BY <1>6, <1>8, <2>4
  <2>6. MemOK(Tip(pos + 1), N)
    BY <1>2, <1>4, <2>3, IdleFacts DEF MemOK
  <2>7. forgot \/ Parents(t) \subseteq ChainTxs(cur) \cup txs
    BY <1>7 DEF SysInv, PoolInv
  <2>8. Leads(forgot, St(cur, txs), v, 0, St(Tip(pos + 1), N))
    <3>1. t \notin ChainTxs(cur) \cup txs /\ Conflicts(t) \cap (ChainTxs(cur) \cup txs) = {}
      BY <1>4, <1>6, <1>8
    <3>2. Leads(forgot, St(cur, txs), <<TxRow("accept", t)>>, 0, St(cur, txs \cup {t}))
      BY <1>5, <2>7, <3>1, AcceptRun
    <3> QED BY <1>4, <2>1, <2>3, <3>2
  <2>9. \A P : PoolWalk(P) /\ PoolNow(P) => P[pos + 1] = N
    BY <1>7, <2>3
  <2> QED BY <1>2, <2>2, <2>4, <2>5, <2>6, <2>8, <2>9, BatchBuilt
<1>9. CASE ~CanAdd(t) /\ IgnoreLine
  <2>1. \A P : PoolWalk(P) /\ PoolNow(P) => P[pos + 1] = txs
    BY <1>6, <1>7, <1>9
  <2> QED BY <1>2, <1>9, <2>1, LineIgnored
<1> QED BY <1>3, <1>8, <1>9 DEF HandleTxAccept

\* The rows that reject a closed part of what is in memory.
LEMMA SysRejects ==
    ASSUME SysInv, Quiet, BaseInv', pc = "idle", pos < Len(log1), pos' = pos + 1,
           UNCHANGED <<dbVars, kvVars, boundVars>>, Tip(pos + 1) = cur,
           NEW D \in SUBSET txs, ClosedIn(D, txs), NEW q \in LeafFirst(D),
           RemoveTxs(D), NEW next \in Built, WriteBatch(RejectRows(q), next),
           log1[pos + 1].type = "clear" => D = txs,
           \A P : PoolWalk(P) /\ PoolNow(P) => P[pos + 1] = txs \ D
    PROVE  SysInv'
<1>1. txs \in SUBSET Tx /\ cur \in Block \cup {Begin}
  BY SysTypes
<1>2. MemOK(cur, txs) /\ unSyncInsert = {}
  BY IdleFacts
<1>3. txs \cap ChainTxs(cur) = {} /\ \A u \in D, v \in txs : u \in Parents(v) => v \in D
  BY <1>2 DEF MemOK, ClosedIn
<1>4. RejectRows(q) \in Seq(Row) /\ Leads(forgot, St(cur, txs), RejectRows(q), 0, St(cur, txs \ D))
  BY <1>1, <1>3, RejectRun
<1>5. PICK v \in Seq(Row) : v = RejectRows(q)
  BY <1>4
<1>6. PICK N \in SUBSET Tx : N = txs \ D
  BY <1>1
<1>7. values' = v /\ expect' = Len(v) /\ pc' \in Built /\ cur' = cur
  BY <1>5 DEF WriteBatch
<1>8. txs' = N /\ unSyncInsert' \cap txs = {}
  BY <1>2, <1>6 DEF RemoveTxs
<1>9. MemOK(Tip(pos + 1), N)
  BY <1>2, <1>6 DEF MemOK
<1>10. Leads(forgot, St(cur, txs), v, 0, St(Tip(pos + 1), N))
  BY <1>4, <1>5, <1>6
<1>11. log1[pos + 1].type = "clear" => N = {}
  BY <1>6
<1>12. \A P : PoolWalk(P) /\ PoolNow(P) => P[pos + 1] = N
  BY <1>6
<1> QED BY <1>7, <1>8, <1>9, <1>10, <1>11, <1>12, BatchBuilt

\* handleTxReject() keeps the invariant.
LEMMA SysTxReject ==
    ASSUME SysInv, Quiet, BaseInv', HandleTxReject
    PROVE  SysInv'
<1>1. NextLine("remove")
  BY DEF HandleTxReject
<1>2. /\ pc = "idle" /\ pos < Len(log1) /\ pos' = pos + 1
      /\ UNCHANGED <<dbVars, kvVars, boundVars>>
      /\ log1[pos + 1] \in Line /\ log1[pos + 1].type = "remove"
      /\ Tip(pos + 1) = TipAfter(cur, log1[pos + 1])
  BY <1>1, NextLineFacts
<1>3. PICK t \in Tx : t = log1[pos + 1].item
  BY <1>2, LineItems
<1>4. Tip(pos + 1) = cur
  BY <1>2 DEF TipAfter
<1>5. BaseInv
  BY DEF SysInv
<1>6. ASSUME NEW P, PoolWalk(P), PoolNow(P)
      PROVE  P[pos + 1] = txs \ DescOf(txs, {t})
  <2>1. PoolStep(cur, txs, log1[pos + 1], P[pos + 1])
    BY <1>2, <1>6, NextPool
  <2> QED BY <1>2, <1>3, <2>1 DEF PoolStep, Rest
<1>7. CASE t \in txs
  <2>1. PICK D : D = DescOf(txs, {t})
    OBVIOUS
  <2>2. Descendants({t}) = D
    <3>1. {t} \in SUBSET txs
      BY <1>7
    <3> QED BY <1>5, <2>1, <3>1, DescendantsDesc
  <2>3. D \in SUBSET txs /\ ClosedIn(D, txs)
    BY <2>1, DescOfFacts
  <2>4. RemoveTxs(D) /\ \E q \in LeafFirst(D) : WriteBatch(RejectRows(q), "insert")
    BY <1>3, <1>7, <2>2 DEF HandleTxReject, IsExist
  <2>5. PICK q \in LeafFirst(D) : WriteBatch(RejectRows(q), "insert")
    BY <2>4
  <2>6. \A P : PoolWalk(P) /\ PoolNow(P) => P[pos + 1] = txs \ D
    BY <1>6, <2>1
  <2>7. "insert" \in Built /\ log1[pos + 1].type # "clear"
    BY <1>2 DEF Built
  <2> QED BY <1>2, <1>4, <2>3, <2>4, <2>5, <2>6, <2>7, SysRejects
<1>8. CASE t \notin txs
  <2>1. DescOf(txs, {t}) = {}
    <3>1. {t} \cap txs = {}
      BY <1>8
    <3> QED BY <3>1, DescNone
  <2>2. \A P : PoolWalk(P) /\ PoolNow(P) => P[pos + 1] = txs
    BY <1>6, <2>1
  <2>3. IgnoreLine
    BY <1>3, <1>8 DEF HandleTxReject, IsExist
  <2>4. log1[pos + 1].type # "block"
    BY <1>2
  <2> QED BY <1>2, <2>2, <2>3, <2>4, LineIgnored
<1> QED BY <1>7, <1>8

\* clearMempoolTxs() keeps the invariant.
LEMMA SysClear ==
    ASSUME SysInv, Quiet, BaseInv', ClearMempoolTxs
    PROVE  SysInv'
<1>1. NextLine("clear")
  BY DEF ClearMempoolTxs
<1>2. /\ pc = "idle" /\ pos < Len(log1) /\ pos' = pos + 1
      /\ UNCHANGED <<dbVars, kvVars, boundVars>>
      /\ log1[pos + 1] \in Line /\ log1[pos + 1].type = "clear"
      /\ Tip(pos + 1) = TipAfter(cur, log1[pos + 1])
  BY <1>1, NextLineFacts
<1>3. Tip(pos + 1) = cur
  BY <1>2 DEF TipAfter
<1>4. PICK q \in LeafFirst(txs), next \in Built : WriteBatch(RejectRows(q), next)
  BY DEF ClearMempoolTxs, Built
<1>5. RemoveTxs(txs)
  BY DEF ClearMempoolTxs
<1>6. PICK D \in SUBSET txs : D = txs
  OBVIOUS
<1>7. ClosedIn(D, txs) /\ q \in LeafFirst(D) /\ RemoveTxs(D)
  BY <1>4, <1>5, <1>6 DEF ClosedIn
<1>8. ASSUME NEW P, PoolWalk(P), PoolNow(P)
      PROVE  P[pos + 1] = txs \ D
  <2>1. PoolStep(cur, txs, log1[pos + 1], P[pos + 1])
    BY <1>2, <1>8, NextPool
  <2> QED BY <1>2, <1>6, <2>1 DEF PoolStep
<1> QED BY <1>2, <1>3, <1>4, <1>6, <1>7, <1>8, SysRejects

\* handleBlockRollback() keeps the invariant.
LEMMA SysRollback ==
    ASSUME SysInv, Quiet, BaseInv', HandleBlockRollback
    PROVE  SysInv'
<1>1. NextLine("block")
  BY DEF HandleBlockRollback
<1>2. /\ pc = "idle" /\ pos < Len(log1) /\ pos' = pos + 1
      /\ UNCHANGED <<dbVars, kvVars, boundVars>>
      /\ log1[pos + 1] \in Line /\ log1[pos + 1].type = "block"
      /\ Tip(pos + 1) = TipAfter(cur, log1[pos + 1])
  BY <1>1, NextLineFacts
<1>3. cur \in Block /\ Prev[cur] = log1[pos + 1].item /\ txs \in SUBSET Tx
  BY SysTypes DEF HandleBlockRollback, RollbackOK
<1>4. Tip(pos + 1) = Prev[cur] /\ Prev[cur] \in Block \cup {Begin}
  BY <1>2, <1>3, BlockTreeAssumption DEF TipAfter
<1>5. PICK B \in SUBSET Tx : B = BlockTxs(cur)
  BY <1>3, BlockTxsType
<1>6. PICK N \in SUBSET Tx : N = txs \cup B
  BY <1>3
<1>7. MemOK(cur, txs) /\ unSyncInsert = {}
  BY <1>2, IdleFacts
<1>8. txs' = N /\ unSyncInsert' = B
  BY <1>5, <1>6, <1>7 DEF HandleBlockRollback, AddTxs
<1>9. ChainTxs(cur) = ChainTxs(Prev[cur]) \cup B
  BY <1>3, <1>5, ChainTxsFacts
<1>10. \A t \in B : t \notin ChainTxs(Prev[cur]) /\ Conflicts(t) \cap ChainTxs(cur) = {}
  BY <1>3, <1>5, BlockTxValid
<1>11. MemOK(Tip(pos + 1), N)
  BY <1>4, <1>6, <1>7, <1>9, <1>10 DEF MemOK
<1>12. unSyncInsert' \cap txs = {}
  BY <1>7, <1>8, <1>9 DEF MemOK
<1>13. /\ UnconfirmRows(cur) \in Seq(Row)
       /\ Leads(forgot, St(cur, txs), UnconfirmRows(cur), 0, St(Prev[cur], txs \cup BlockTxs(cur)))
  BY <1>3, UndoRun
<1>14. PICK v \in Seq(Row) : v = UnconfirmRows(cur)
  BY <1>13
<1>15. Leads(forgot, St(cur, txs), v, 0, St(Tip(pos + 1), N))
  BY <1>4, <1>5, <1>6, <1>13, <1>14
<1>16. values' = v /\ expect' = Len(v) /\ pc' \in Built /\ cur' = cur
  BY <1>14 DEF HandleBlockRollback, WriteBatch, Built
<1>17. ASSUME NEW P, PoolWalk(P), PoolNow(P)
       PROVE  P[pos + 1] = N
  <2>1. PoolStep(cur, txs, log1[pos + 1], P[pos + 1])
    BY <1>2, <1>17, NextPool
  <2> QED BY <1>2, <1>3, <1>5, <1>6, <2>1 DEF PoolStep
<1>18. log1[pos + 1].type # "clear"
  BY <1>2
<1> QED BY <1>2, <1>8, <1>11, <1>12, <1>15, <1>16, <1>17, <1>18, BatchBuilt

-----------------------------------------------------------------------------
(* The handler of a block. *)

\* The exceptions of handleBlock() and handleBlockRollback() do not happen.
LEMMA BlockNeverFails ==
    ASSUME SysInv, BlockFails
    PROVE  FALSE
<1>1. pc = "idle" /\ pos < Len(log1) /\ log1[pos + 1].type = "block"
  BY DEF BlockFails
<1>2. PICK b : b = log1[pos + 1].item
  OBVIOUS
<1>3. Height[b] # Height[cur] + 1 /\ ~(Height[b] + 1 = Height[cur] /\ RollbackOK(b))
  BY <1>2 DEF BlockFails
<1>4. PICK i \in 1..Len(log1) : i = pos + 1 /\ i - 1 = pos
  <2>1. PICK n \in Nat, m \in Nat : n = pos /\ m = Len(log1) /\ n < m
    BY <1>1, SysTypes
  <2>2. n + 1 \in 1..m /\ n + 1 - 1 = n
    BY <2>1
  <2> QED BY <2>1, <2>2
<1>5. cur = Tip(pos) /\ MemOK(cur, txs) /\ cur \in Block \cup {Begin}
  BY <1>1, IdleFacts, SysTypes
<1>6. LineOK(Tip(i - 1), log1[i])
  BY SysTypes
<1>7. Adjacent(cur, b)
  BY <1>1, <1>2, <1>4, <1>5, <1>6 DEF LineOK
<1>8. ~(b \in Block /\ Prev[b] = cur)
  BY <1>3, BlockTreeAssumption
<1>9. cur \in Block /\ Prev[cur] = b
  BY <1>7, <1>8 DEF Adjacent
<1>10. Height[b] + 1 = Height[cur] /\ cur # Begin
  BY <1>9, BlockTreeAssumption
<1>11. ASSUME NEW t \in BlockTxs(cur)
       PROVE  CanAdd(t)
  <2>1. t \in Tx /\ t \in ChainTxs(cur)
    BY <1>9, ChainTxsFacts, BlockTxsType
  <2>2. t \notin txs /\ \A u \in txs : t \notin Conflicts(u)
    BY <1>5, <2>1 DEF MemOK
  <2>3. txs \subseteq Tx
    BY SysTypes
  <2>4. Conflicts(t) \cap txs = {}
    BY <2>1, <2>2, <2>3, ConflictsBoth
  <2> QED BY <2>1, <2>2, <2>4, CanAddFacts DEF SysInv
<1>12. RollbackOK(b)
  BY <1>9, <1>10, <1>11 DEF RollbackOK
<1> QED BY <1>3, <1>10, <1>12

\* The start of handleBlockAccept() keeps the invariant.
LEMMA SysBlockAccept ==
    ASSUME SysInv, Quiet, BaseInv', HandleBlockAccept
    PROVE  SysInv'
<1>1. NextLine("block")
  BY DEF HandleBlockAccept
<1>2. /\ pc = "idle" /\ pos < Len(log1) /\ pos' = pos + 1
      /\ UNCHANGED <<dbVars, kvVars, boundVars>>
      /\ log1[pos + 1] \in Line /\ log1[pos + 1].type = "block"
      /\ LineOK(cur, log1[pos + 1])
  BY <1>1, NextLineFacts
<1>3. PICK b \in Block \cup {Begin} : b = log1[pos + 1].item
  BY <1>2, LineItems
<1>4. cur \in Block \cup {Begin} /\ txs \in SUBSET Tx
  BY SysTypes
<1>5. b \in Block /\ Prev[b] = cur
  <2>1. Height[b] = Height[cur] + 1 /\ Height[b] \in Nat /\ Height[cur] \in Nat
    BY <1>3, <1>4, BlockTreeAssumption DEF HandleBlockAccept
  <2>2. Adjacent(cur, b)
    BY <1>2, <1>3 DEF LineOK
  <2>3. ~(cur \in Block /\ Prev[cur] = b)
    <3>1. cur \in Block /\ Prev[cur] = b => Height[cur] = Height[b] + 1
      BY BlockTreeAssumption
    <3> QED BY <2>1, <3>1
  <2> QED BY <2>2, <2>3 DEF Adjacent
<1>6. /\ UNCHANGED <<log1, nodeTip, nodePool, forgot, db, disk, inTxn, consumed, kv, kvTip, repeats,
                     txs, unSyncInsert, unSyncDelete, cur>>
      /\ pc' = "block" /\ vpos' = 1 /\ rejects' = <<>>
      /\ confirms' = <<TxRow("accept", b), TxRow("confirm", b)>>
  BY <1>2, <1>3 DEF Quiet, HandleBlockAccept, memVars, dbVars, kvVars, boundVars
<1>7. /\ cur = Tip(pos) /\ disk.memrepo = txs /\ db = disk /\ unSyncInsert = {} /\ unSyncDelete = {}
      /\ disk.offset <= pos /\ cur = Tip(disk.offset)
  BY <1>2, IdleFacts
<1>8. LinesInv' /\ Node!NodeTypeOK'
  BY LinesStay
<1>9. StoreInv' /\ ParentsInv' /\ Tip(disk.offset)' = Tip(disk.offset)
  <2>1. StoreSame
    BY <1>6 DEF StoreSame, kvVars
  <2> QED BY <2>1, StoreStays
<1>10. pos \in Nat /\ disk.offset \in Nat /\ pos + 1 - 1 = pos /\ disk.offset <= pos + 1
  BY <1>7, SysTypes
<1>11. Tip(pos - 1)' = Tip(pos) /\ log1'[pos'].item = b
  BY <1>2, <1>3, <1>6, <1>10 DEF Tip
<1>12. pc' \notin Down /\ pc' \notin Batch /\ pc' # "idle"
  BY <1>6 DEF Down, Batch, Built
<1>13. UpInv'
  BY <1>2, <1>6, <1>7, <1>9, <1>10, <1>11, <1>12 DEF UpInv
<1>14. BatchInv' /\ AbortInv'
  BY <1>6, <1>12 DEF BatchInv, AbortInv
<1>15. BlockInv'
  <2>1. First(b, 1) = {}
    BY <1>5, FirstEnds
  <2>2. Leads(FALSE, St(cur, txs), <<>>, 0, St(cur, txs))
    <3>1. St(cur, txs) \in LState
      BY <1>4, StFacts
    <3>2. PICK e \in Seq(Row) : e = <<>> /\ Len(e) = 0
      BY NoRows
    <3>3. Leads(FALSE, St(cur, txs), e, Len(e), St(cur, txs))
      BY <3>1, LeadsNone
    <3> QED BY <3>2, <3>3
  <2>3. txs \ {} = txs /\ txs \cap {} = {}
    OBVIOUS
  <2>4. ASSUME NEW M \in SUBSET txs
        PROVE  Confirming(b, M)'
    <3>1. M \in SUBSET Tx
      BY <1>4
    <3>2. Leads(FALSE, St(Prev[b], M), <<TxRow("accept", b), TxRow("confirm", b)>>, 0, Mid(b, 1, M))
      BY <1>5, <3>1, CoinbaseRun
    <3> QED BY <1>5, <1>6, <3>2 DEF Confirming
  <2>5. /\ Prev[b] = cur' /\ unSyncDelete' \cap BlockTxs(b) = {} /\ First(b, vpos') \subseteq txs'
        /\ unSyncInsert' \cap disk'.memrepo = {}
    BY <1>5, <1>6, <1>7, <2>1
  <2>6. \A i, j \in 1..Len(rejects') : i # j => rejects'[i] # rejects'[j]
    BY <1>6
  <2>7. Leads(FALSE, St(cur', disk'.memrepo), rejects', 0, St(cur', disk'.memrepo \ unSyncDelete'))
    BY <1>6, <1>7, <2>2, <2>3
  <2>8. \A M \in SUBSET (disk'.memrepo \ unSyncDelete') : Confirming(b, M)'
    BY <1>6, <1>7, <2>3, <2>4
  <2> QED BY <1>11, <2>5, <2>6, <2>7, <2>8 DEF BlockInv
<1>16. PoolInv'
  <2>1. ASSUME NEW P, PoolWalk(P), PoolNow(P)
        PROVE  PoolNow(P)'
    <3>1. P[disk.offset] = disk.memrepo /\ P[pos] = txs
      BY <1>2, <2>1 DEF PoolNow
    <3> QED BY <1>2, <1>6, <1>7, <1>10, <1>12, <3>1 DEF PoolNow
  <2> QED BY <2>1, PoolStays
<1> QED BY <1>8, <1>9, <1>13, <1>14, <1>15, <1>16 DEF SysInv

\* Inside the loop over a block: what is in memory, what left it, what is on disk.
InBlock(b) ==
    /\ b = log1[pos].item /\ b \in Block /\ Prev[b] = cur /\ ChainTxs(b) = ChainTxs(cur) \cup BlockTxs(b)
    /\ unSyncInsert \subseteq First(b, vpos) /\ First(b, vpos) \subseteq txs
    /\ First(b, vpos) \subseteq BlockTxs(b) /\ unSyncDelete \cap BlockTxs(b) = {}
    /\ disk.memrepo \ unSyncDelete \subseteq txs
    /\ txs \subseteq (disk.memrepo \ unSyncDelete) \cup First(b, vpos)
    /\ disk.memrepo \cap ChainTxs(cur) = {} /\ txs \cap ChainTxs(cur) = {}
    /\ BlockTxs(b) \cap ChainTxs(cur) = {}
    /\ vpos \in 1..(Len(Vtx[b]) + 1) /\ Len(Vtx[b]) \in Nat

\* That is what the loop over a block finds, and the rest of the state with it.
LEMMA BlockFacts ==
    ASSUME SysInv, pc = "block"
    PROVE  /\ InBlock(log1[pos].item)
           /\ unSyncInsert \cap disk.memrepo = {} /\ RowTxs(rejects) = unSyncDelete
           /\ cur = Tip(pos - 1) /\ cur = Tip(disk.offset) /\ pos \in 1..Len(log1)
           /\ MemOK(cur, disk.memrepo) /\ db = disk /\ disk.offset <= pos /\ db.tmp = <<>>
           /\ log1[pos].type = "block" /\ unSyncDelete \subseteq disk.memrepo
<1>1. PICK b : b = log1[pos].item
  OBVIOUS
<1>2. /\ b \in Block /\ log1[pos].type = "block" /\ pos > 0
  BY <1>1 DEF SysInv, BaseInv, TypeInv, LineInv
<1>3. pos \in 1..Len(log1)
  BY <1>2, SysTypes
<1>4. db = disk
  BY DEF SysInv, BaseInv, SyncAll, TxnInv, InBatch
<1>5. /\ Prev[b] = cur /\ unSyncDelete \cap BlockTxs(b) = {} /\ First(b, vpos) \subseteq txs
      /\ unSyncInsert \cap disk.memrepo = {}
  BY <1>1 DEF SysInv, BlockInv
<1>6. /\ unSyncInsert \subseteq First(b, vpos)
      /\ txs \cup unSyncDelete \subseteq disk.memrepo \cup unSyncInsert
      /\ (disk.memrepo \cup unSyncInsert) \ unSyncDelete \subseteq txs
      /\ txs \cap unSyncDelete \subseteq unSyncInsert \cap disk.memrepo
  BY <1>1, <1>4 DEF SysInv, BaseInv, SyncAll, SyncInv, BlockSync, First
<1>7. /\ vpos \in 1..(Len(Vtx[b]) + 1) /\ Len(Vtx[b]) \in Nat /\ RowTxs(rejects) = unSyncDelete
  <2>1. vpos \in Nat \ {0}
    BY DEF SysInv, BaseInv, TypeInv, TypeOK
  <2>2. vpos <= Len(Vtx[b]) + 1 /\ RowTxs(rejects) = unSyncDelete
    BY <1>1 DEF SysInv, BaseInv, RowsInv, BlockRows
  <2>3. Len(Vtx[b]) \in Nat
    BY <1>2, BlockFits
  <2> QED BY <2>1, <2>2, <2>3
<1>8. First(b, vpos) \subseteq BlockTxs(b)
  <2>1. \A i \in 1..(vpos - 1) : i \in 1..Len(Vtx[b])
    BY <1>7
  <2> QED BY <2>1 DEF First, BlockTxs
<1>9. disk.offset <= pos /\ cur = Tip(disk.offset) /\ cur = Tip(pos - 1)
  BY DEF SysInv, UpInv, Down
<1>10. MemOK(cur, disk.memrepo) /\ disk.memrepo \cap ChainTxs(cur) = {}
  BY <1>9 DEF SysInv, StoreInv, MemOK
<1>11. ChainTxs(b) = ChainTxs(cur) \cup BlockTxs(b) /\ BlockTxs(b) \cap ChainTxs(cur) = {}
  BY <1>2, <1>5, ChainTxsFacts, BlockTxValid
<1>12. db.tmp = <<>>
  BY DEF SysInv, BaseInv, RowsInv
<1>13. unSyncDelete \subseteq disk.memrepo
  BY <1>5, <1>6, <1>8
<1>14. /\ disk.memrepo \ unSyncDelete \subseteq txs
       /\ txs \subseteq (disk.memrepo \ unSyncDelete) \cup First(b, vpos)
       /\ txs \cap ChainTxs(cur) = {}
  BY <1>5, <1>6, <1>8, <1>10, <1>11
<1>15. InBlock(b)
  BY <1>1, <1>2, <1>5, <1>6, <1>7, <1>8, <1>10, <1>11, <1>14 DEF InBlock
<1> QED BY <1>1, <1>2, <1>3, <1>4, <1>5, <1>7, <1>9, <1>10, <1>12, <1>13, <1>15

\* A round of the loop over a block changes the memory and the rows only.
LEMMA BlockStays ==
    ASSUME SysInv, Quiet, BaseInv', pc = "block", pc' = "block",
           UNCHANGED <<pos, cur, dbVars, kvVars, boundVars>>, BlockInv',
           \A P : PoolWalk(P) /\ PoolNow(P) => unSyncDelete' = {}
    PROVE  SysInv'
<1>1. UNCHANGED <<log1, nodeTip, nodePool, forgot, db, disk, inTxn, consumed, kv, kvTip, repeats>>
  BY DEF Quiet, dbVars, kvVars, boundVars
<1>2. LinesInv' /\ Node!NodeTypeOK'
  BY LinesStay
<1>3. StoreInv' /\ ParentsInv' /\ Tip(disk.offset)' = Tip(disk.offset)
  <2>1. StoreSame
    BY <1>1 DEF StoreSame, kvVars
  <2> QED BY <2>1, StoreStays
<1>4. pc' \notin Down /\ pc' \notin Batch /\ pc' # "idle" /\ pc \notin Down /\ pc # "idle"
  BY DEF Down, Batch, Built
<1>5. Tip(pos - 1)' = Tip(pos - 1)
  BY <1>1 DEF Tip
<1>6. UpInv'
  BY <1>1, <1>3, <1>4, <1>5 DEF SysInv, UpInv
<1>7. BatchInv' /\ AbortInv'
  BY <1>4 DEF BatchInv, AbortInv
<1>8. PoolInv'
  <2>1. ASSUME NEW P, PoolWalk(P), PoolNow(P)
        PROVE  PoolNow(P)'
    <3>1. P[disk.offset] = disk.memrepo /\ P[pos - 1] = disk.memrepo /\ unSyncDelete' = {}
      BY <2>1 DEF PoolNow
    <3> QED BY <1>1, <1>4, <3>1 DEF PoolNow
  <2> QED BY <2>1, PoolStays
<1> QED BY <1>2, <1>3, <1>6, <1>7, <1>8 DEF SysInv

\* The rows of one more transaction of the block.
LEMMA ConfirmingMore ==
    ASSUME SysInv, pc = "block", NEW b, InBlock(b), NEW M \in SUBSET Tx, Confirming(b, M),
           vpos \in 1..Len(Vtx[b]), NEW r \in Seq(Row), confirms' = confirms \o r,
           vpos' = vpos + 1, cur' = cur,
           Leads(FALSE, Mid(b, vpos, M), r, 0, Mid(b, vpos + 1, M))
    PROVE  Confirming(b, M)'
<1>1. confirms \in Seq(Row)
  BY DEF SysInv, BaseInv, TypeInv, TypeOK
<1>2. PICK z \in 0..Len(confirms) : z = 0
  BY <1>1
<1>3. Leads(FALSE, St(cur, M), confirms, z, Mid(b, vpos, M))
  BY <1>2 DEF Confirming
<1>4. Leads(FALSE, St(cur, M), confirms \o r, z, Mid(b, vpos + 1, M))
  BY <1>1, <1>3, LeadsThen
<1> QED BY <1>2, <1>4 DEF Confirming

\* The transaction of the block whose turn it is.
LEMMA BlockTurn ==
    ASSUME SysInv, BlockTx
    PROVE  \E b \in Block, t \in Tx :
              /\ InBlock(b) /\ vpos \in 1..Len(Vtx[b]) /\ t = Vtx[b][vpos] /\ t \in BlockTxs(b)
              /\ t \notin First(b, vpos) /\ First(b, vpos + 1) = First(b, vpos) \cup {t}
              /\ vpos' = vpos + 1 /\ pc = "block" /\ pc' = "block" /\ log1' = log1
              /\ UNCHANGED <<pos, cur, dbVars, kvVars, boundVars>>
<1>1. pc = "block"
  BY DEF BlockTx
<1>2. PICK b : b = log1[pos].item
  OBVIOUS
<1>3. InBlock(b) /\ b \in Block
  BY <1>1, <1>2, BlockFacts DEF InBlock
<1>4. vpos \in 1..Len(Vtx[b])
  BY <1>2, <1>3 DEF BlockTx, InBlock
<1>5. PICK k \in 1..Len(Vtx[b]) : k = vpos
  BY <1>4
<1>6. PICK t : t = Vtx[b][k]
  OBVIOUS
<1>7. t \in Tx /\ t \notin First(b, k) /\ First(b, k + 1) = First(b, k) \cup {t}
  BY <1>3, <1>6, FirstFacts
<1>8. t \in BlockTxs(b)
  BY <1>6 DEF BlockTxs
<1>9. vpos' = vpos + 1 /\ pc' = pc /\ log1' = log1 /\ UNCHANGED <<pos, cur, dbVars, kvVars, boundVars>>
  BY DEF BlockTx, envVars
<1> QED BY <1>1, <1>3, <1>4, <1>5, <1>6, <1>7, <1>8, <1>9

\* A transaction of the block that is in memory.
LEMMA SysBlockKnown ==
    ASSUME SysInv, Quiet, BaseInv', BlockTx, IsExist(Vtx[log1[pos].item][vpos])
    PROVE  SysInv'
<1>1. PICK b \in Block, t \in Tx :
         /\ InBlock(b) /\ vpos \in 1..Len(Vtx[b]) /\ t = Vtx[b][vpos] /\ t \in BlockTxs(b)
         /\ t \notin First(b, vpos) /\ First(b, vpos + 1) = First(b, vpos) \cup {t}
         /\ vpos' = vpos + 1 /\ pc = "block" /\ pc' = "block" /\ log1' = log1
         /\ UNCHANGED <<pos, cur, dbVars, kvVars, boundVars>>
  BY BlockTurn
<1>2. /\ t \in txs /\ confirms' = confirms \o <<TxRow("confirm", t)>>
      /\ UNCHANGED <<txs, unSyncInsert, unSyncDelete, rejects>>
  <2>1. b = log1[pos].item
    BY <1>1 DEF InBlock
  <2> QED BY <1>1, <2>1 DEF BlockTx, IsExist, memVars
<1>3. t \in disk.memrepo
  BY <1>1, <1>2 DEF InBlock
<1>4. UNCHANGED <<db, disk>>
  BY <1>1 DEF dbVars
<1>5. BlockInv'
  <2>1. /\ Prev[b] = cur /\ unSyncDelete \cap BlockTxs(b) = {} /\ First(b, vpos) \subseteq txs
        /\ unSyncInsert \cap disk.memrepo = {}
        /\ \A i, j \in 1..Len(rejects) : i # j => rejects[i] # rejects[j]
        /\ Leads(FALSE, St(cur, disk.memrepo), rejects, 0, St(cur, disk.memrepo \ unSyncDelete))
        /\ \A M \in SUBSET (disk.memrepo \ unSyncDelete) :
              BlockTxs(b) \cap disk.memrepo \subseteq M => Confirming(b, M)
    BY <1>1 DEF SysInv, BlockInv, InBlock
  <2>2. First(b, vpos)' \subseteq txs'
    BY <1>1, <1>2, <2>1
  <2>3. ASSUME NEW M \in SUBSET (disk.memrepo \ unSyncDelete), BlockTxs(b) \cap disk.memrepo \subseteq M
        PROVE  Confirming(b, M)'
    <3>1. t \in M /\ M \in SUBSET Tx /\ Confirming(b, M)
      BY <1>1, <1>3, <2>1, <2>3, SysTypes
    <3>2. PICK r \in Seq(Row) : r = <<TxRow("confirm", t)>>
      BY ShortRows
    <3>3. Leads(FALSE, Mid(b, vpos, M), r, 0, Mid(b, vpos + 1, M))
      BY <1>1, <3>1, <3>2, ConfirmRun
    <3> QED BY <1>1, <1>2, <3>1, <3>2, <3>3, ConfirmingMore
  <2>4. log1'[pos'].item = b
    BY <1>1 DEF InBlock
  <2> QED BY <1>1, <1>2, <1>4, <2>1, <2>2, <2>3, <2>4 DEF BlockInv
<1>6. \A P : PoolWalk(P) /\ PoolNow(P) => unSyncDelete' = {}
  BY <1>1, <1>2 DEF PoolNow
<1> QED BY <1>1, <1>5, <1>6, BlockStays

\* What a transaction of the block pushes out of memory is none of the block's.
LEMMA PushedOut ==
    ASSUME SysInv, pc = "block", NEW b, InBlock(b), NEW t \in BlockTxs(b), t \in Tx, t \notin txs,
           NEW D, D = ConflictSet(t)
    PROVE  /\ D \subseteq disk.memrepo \ unSyncDelete /\ D \cap BlockTxs(b) = {}
           /\ D \subseteq Tx /\ Conflicts(t) \cap txs \subseteq D /\ ClosedIn(D, disk.memrepo \ unSyncDelete)
           /\ t \notin disk.memrepo
           /\ Conflicts(t) \cap disk.memrepo = {} => D = {}
<1>1. /\ b \in Block /\ Prev[b] = cur /\ ChainTxs(b) = ChainTxs(cur) \cup BlockTxs(b)
      /\ First(b, vpos) \subseteq BlockTxs(b) /\ unSyncDelete \cap BlockTxs(b) = {}
      /\ disk.memrepo \ unSyncDelete \subseteq txs
      /\ txs \subseteq (disk.memrepo \ unSyncDelete) \cup First(b, vpos)
      /\ txs \cap ChainTxs(cur) = {}
  BY DEF InBlock
<1>2. BaseInv /\ txs \subseteq Tx
  BY SysTypes DEF SysInv
<1>3. D = DescOf(txs, Conflicts(t) \cap txs)
  BY <1>2, ConflictSetDesc
<1>4. PICK S : S = Conflicts(t) \cap txs
  OBVIOUS
<1>5. /\ D \subseteq txs /\ S \cap txs \subseteq D /\ ClosedIn(D, txs)
      /\ \A E \in SUBSET txs : S \cap txs \subseteq E /\ ClosedIn(E, txs) => D \subseteq E
  BY <1>3, <1>4, DescOfFacts
<1>6. Conflicts(t) \cap ChainTxs(b) = {}
  BY <1>1, BlockTxValid
<1>7. D \subseteq txs \ BlockTxs(b)
  <2>1. ASSUME NEW u \in txs \ BlockTxs(b), NEW v \in txs, u \in Parents(v)
        PROVE  v \in txs \ BlockTxs(b)
    <3>1. v \in BlockTxs(b) => Parents(v) \subseteq ChainTxs(b)
      BY <1>1, BlockTxValid
    <3> QED BY <1>1, <2>1, <3>1
  <2>2. ClosedIn(txs \ BlockTxs(b), txs)
    BY <2>1 DEF ClosedIn
  <2>3. S \cap txs \subseteq txs \ BlockTxs(b)
    BY <1>1, <1>4, <1>6
  <2> QED BY <1>5, <2>2, <2>3
<1>8. D \subseteq disk.memrepo \ unSyncDelete
  BY <1>1, <1>7
<1>9. ClosedIn(D, disk.memrepo \ unSyncDelete)
  BY <1>1, <1>5 DEF ClosedIn
<1>10. t \notin disk.memrepo
  BY <1>1
<1>11. ASSUME Conflicts(t) \cap disk.memrepo = {}
       PROVE  D = {}
  <2>1. S \cap txs = {}
    BY <1>1, <1>4, <1>6, <1>11
  <2> QED BY <1>3, <1>4, <2>1, DescNone
<1> QED BY <1>2, <1>4, <1>5, <1>7, <1>8, <1>9, <1>10, <1>11

\* No row is made twice.
Distinct(r) == \A i, j \in 1..Len(r) : i # j => r[i] # r[j]

\* Rows that reject other transactions, each once, can be added.
LEMMA RejectsDistinct ==
    ASSUME NEW r \in Seq(Row), Distinct(r),
           NEW D \in SUBSET Tx, RowTxs(r) \cap D = {}, NEW q \in LeafFirst(D)
    PROVE  Distinct(r \o RejectRows(q))
<1>0. PICK p : p = r \o RejectRows(q)
  OBVIOUS
<1>1. /\ q \in Seq(Tx) /\ \A i \in 1..Len(q) : q[i] \in D
      /\ \A i, j \in 1..Len(q) : q[i] = q[j] => i = j
  BY LeafOrder
<1>2. PICK v \in Seq(Row) : v = RejectRows(q)
  BY <1>1, RejectRowsType
<1>3. /\ Len(v) = Len(q) /\ \A i \in 1..Len(v) : v[i].tx = q[i]
  BY <1>1, <1>2 DEF RejectRows, TxRow
<1>4. /\ Len(p) = Len(r) + Len(v)
      /\ \A i \in 1..Len(r) : p[i] = r[i]
      /\ \A i \in 1..Len(v) : p[Len(r) + i] = v[i]
  BY <1>0, <1>2, ConcatParts
<1>5. PICK n \in Nat, m \in Nat : n = Len(r) /\ m = Len(v)
  BY <1>2
<1>6. \A k \in 1..(n + m) : k \in 1..n \/ (k - n \in 1..m /\ k = n + (k - n))
  OBVIOUS
<1>7. \A i \in 1..n : p[i].tx \notin D
  BY <1>4, <1>5 DEF RowTxs
<1>8. \A i \in 1..m : p[n + i].tx = q[i] /\ q[i] \in D
  BY <1>1, <1>3, <1>4, <1>5
<1>9. ASSUME NEW i \in 1..(n + m), NEW j \in 1..(n + m), i # j
      PROVE  p[i] # p[j]
  <2>1. CASE i \in 1..n /\ j \in 1..n
    BY <1>4, <1>5, <1>9, <2>1 DEF Distinct
  <2>2. CASE i \in 1..n /\ j - n \in 1..m /\ j = n + (j - n)
    BY <1>7, <1>8, <2>2
  <2>3. CASE j \in 1..n /\ i - n \in 1..m /\ i = n + (i - n)
    BY <1>7, <1>8, <2>3
  <2>4. CASE i - n \in 1..m /\ i = n + (i - n) /\ j - n \in 1..m /\ j = n + (j - n)
    <3>1. PICK x \in 1..m, y \in 1..m : i = n + x /\ j = n + y /\ x # y
      BY <1>9, <2>4
    <3>2. q[x] # q[y]
      BY <1>1, <1>3, <1>5, <3>1
    <3> QED BY <1>8, <3>1, <3>2
  <2> QED BY <1>6, <2>1, <2>2, <2>3, <2>4
<1> QED BY <1>0, <1>2, <1>4, <1>5, <1>9 DEF Distinct

\* A transaction of the block that was not in memory.
LEMMA SysBlockNew ==
    ASSUME SysInv, Quiet, BaseInv', BlockTx, ~IsExist(Vtx[log1[pos].item][vpos])
    PROVE  SysInv'
<1>1. PICK b \in Block, t \in Tx :
         /\ InBlock(b) /\ vpos \in 1..Len(Vtx[b]) /\ t = Vtx[b][vpos] /\ t \in BlockTxs(b)
         /\ t \notin First(b, vpos) /\ First(b, vpos + 1) = First(b, vpos) \cup {t}
         /\ vpos' = vpos + 1 /\ pc = "block" /\ pc' = "block" /\ log1' = log1
         /\ UNCHANGED <<pos, cur, dbVars, kvVars, boundVars>>
  BY BlockTurn
<1>2. b = log1[pos].item /\ First(b, vpos) \subseteq BlockTxs(b) /\ First(b, vpos) \subseteq txs
      /\ cur \in Block \cup {Begin} /\ disk.memrepo \cap ChainTxs(cur) = {}
  BY <1>1, SysTypes DEF InBlock
<1>3. PICK D : D = ConflictSet(t)
  OBVIOUS
<1>4. /\ t \notin txs /\ confirms' = confirms \o <<TxRow("accept", t), TxRow("confirm", t)>>
      /\ \E q \in LeafFirst(D) : rejects' = rejects \o RejectRows(q)
      /\ txs' = (txs \ D) \cup {t} /\ unSyncInsert' = unSyncInsert \cup {t}
      /\ unSyncDelete' = unSyncDelete \cup D
  BY <1>1, <1>2, <1>3 DEF BlockTx, IsExist, ReplaceBy
<1>5. PICK q \in LeafFirst(D) : rejects' = rejects \o RejectRows(q)
  BY <1>4
<1>6. /\ D \subseteq disk.memrepo \ unSyncDelete /\ D \cap BlockTxs(b) = {}
      /\ D \in SUBSET Tx /\ Conflicts(t) \cap txs \subseteq D /\ ClosedIn(D, disk.memrepo \ unSyncDelete)
      /\ t \notin disk.memrepo
      /\ Conflicts(t) \cap disk.memrepo = {} => D = {}
  BY <1>1, <1>3, <1>4, PushedOut
<1>7. UNCHANGED <<db, disk>>
  BY <1>1 DEF dbVars
<1>8. PICK M0 \in SUBSET Tx : M0 = disk.memrepo \ unSyncDelete
  BY SysTypes
<1>9. disk.memrepo \ unSyncDelete' = M0 \ D
  BY <1>4, <1>8
<1>10. rejects \in Seq(Row)
  BY DEF SysInv, BaseInv, TypeInv, TypeOK
<1>11. /\ Prev[b] = cur /\ unSyncDelete \cap BlockTxs(b) = {}
       /\ unSyncInsert \cap disk.memrepo = {}
       /\ \A i, j \in 1..Len(rejects) : i # j => rejects[i] # rejects[j]
       /\ Leads(FALSE, St(cur, disk.memrepo), rejects, 0, St(cur, M0))
       /\ \A M \in SUBSET M0 : BlockTxs(b) \cap disk.memrepo \subseteq M => Confirming(b, M)
  BY <1>1, <1>2, <1>8 DEF SysInv, BlockInv, InBlock
<1>12. Leads(FALSE, St(cur, disk.memrepo), rejects', 0, St(cur, M0 \ D))
  <2>1. M0 \cap ChainTxs(cur) = {} /\ D \in SUBSET M0
        /\ \A u \in D, v \in M0 : u \in Parents(v) => v \in D
    BY <1>2, <1>6, <1>8 DEF ClosedIn
  <2>2. RejectRows(q) \in Seq(Row) /\ Leads(FALSE, St(cur, M0), RejectRows(q), 0, St(cur, M0 \ D))
    BY <1>2, <1>5, <1>8, <2>1, RejectRun
  <2>3. PICK v \in Seq(Row) : v = RejectRows(q)
    BY <2>2
  <2>4. PICK z \in 0..Len(rejects) : z = 0
    BY <1>10
  <2>5. Leads(FALSE, St(cur, disk.memrepo), rejects, z, St(cur, M0))
    BY <1>11, <2>4
  <2>6. Leads(FALSE, St(cur, disk.memrepo), rejects \o v, z, St(cur, M0 \ D))
    BY <1>10, <2>2, <2>3, <2>5, LeadsThen
  <2> QED BY <1>5, <2>3, <2>4, <2>6
<1>13. \A i, j \in 1..Len(rejects') : i # j => rejects'[i] # rejects'[j]
  <2>1. RowTxs(rejects) = unSyncDelete
    BY <1>1, BlockFacts
  <2>2. RowTxs(rejects) \cap D = {}
    BY <1>6, <2>1
  <2>3. Distinct(rejects)
    BY <1>11 DEF Distinct
  <2>4. Distinct(rejects \o RejectRows(q))
    BY <1>6, <1>10, <2>2, <2>3, RejectsDistinct
  <2> QED BY <1>5, <2>4 DEF Distinct
<1>14. ASSUME NEW M \in SUBSET (M0 \ D), BlockTxs(b) \cap disk.memrepo \subseteq M
       PROVE  Confirming(b, M)'
  <2>1. M \in SUBSET Tx /\ Confirming(b, M) /\ t \notin M
    BY <1>6, <1>8, <1>11, <1>14
  <2>2. Conflicts(t) \cap M = {}
    <3>1. M0 \subseteq txs
      BY <1>1, <1>8 DEF InBlock
    <3> QED BY <1>6, <3>1
  <2>3. PICK r \in Seq(Row) : r = <<TxRow("accept", t), TxRow("confirm", t)>>
    BY ShortRows
  <2>4. Leads(FALSE, Mid(b, vpos, M), r, 0, Mid(b, vpos + 1, M))
    BY <1>1, <2>1, <2>2, <2>3, NewTxRun
  <2> QED BY <1>1, <1>4, <2>1, <2>3, <2>4, ConfirmingMore
<1>15. BlockInv'
  <2>1. log1'[pos'].item = b
    BY <1>1, <1>2
  <2>2. unSyncDelete' \cap BlockTxs(b) = {} /\ unSyncInsert' \cap disk.memrepo = {}
    BY <1>4, <1>6, <1>11
  <2>3. First(b, vpos)' \subseteq txs'
    <3>1. First(b, vpos) \cap D = {}
      BY <1>2, <1>6
    <3> QED BY <1>1, <1>2, <1>4, <3>1
  <2> QED BY <1>1, <1>7, <1>9, <1>11, <1>12, <1>13, <1>14, <2>1, <2>2, <2>3 DEF BlockInv
<1>16. ASSUME NEW P, PoolWalk(P), PoolNow(P)
       PROVE  unSyncDelete' = {}
  <2>1. P[pos - 1] = disk.memrepo /\ unSyncDelete = {}
    BY <1>1, <1>16 DEF PoolNow
  <2>2. pos \in 1..Len(log1) /\ cur = Tip(pos - 1) /\ log1[pos].type = "block"
    BY <1>1, BlockFacts
  <2>3. PoolStep(Tip(pos - 1), P[pos - 1], log1[pos], P[pos])
    BY <1>16, <2>2 DEF PoolWalk
  <2>4. \A u \in BlockTxs(b) : Conflicts(u) \cap disk.memrepo = {}
    BY <1>2, <1>11, <2>1, <2>2, <2>3 DEF PoolStep
  <2> QED BY <1>1, <1>4, <1>6, <2>1, <2>4
<1> QED BY <1>1, <1>15, <1>16, BlockStays

\* A round of the loop over a block keeps the invariant.
LEMMA SysBlockTx ==
    ASSUME SysInv, Quiet, BaseInv', BlockTx
    PROVE  SysInv'
BY SysBlockKnown, SysBlockNew

\* The rest of the handler: the rows of the block lead to the store without the
\* transactions of the block in memory.
LEMMA SysBlockDone ==
    ASSUME SysInv, Quiet, BaseInv', BlockTxsDone
    PROVE  SysInv'
<1>1. pc = "block"
  BY DEF BlockTxsDone
<1>2. PICK b : b = log1[pos].item
  OBVIOUS
<1>3. /\ InBlock(b) /\ unSyncInsert \cap disk.memrepo = {}
      /\ cur = Tip(pos - 1) /\ cur = Tip(disk.offset) /\ pos \in 1..Len(log1)
      /\ MemOK(cur, disk.memrepo) /\ db = disk /\ disk.offset <= pos /\ db.tmp = <<>>
      /\ log1[pos].type = "block"
  BY <1>1, <1>2, BlockFacts
<1>4. /\ b \in Block /\ Prev[b] = cur /\ ChainTxs(b) = ChainTxs(cur) \cup BlockTxs(b)
      /\ unSyncDelete \cap BlockTxs(b) = {} /\ disk.memrepo \ unSyncDelete \subseteq txs
      /\ txs \subseteq (disk.memrepo \ unSyncDelete) \cup First(b, vpos)
      /\ txs \cap ChainTxs(cur) = {}
  BY <1>3 DEF InBlock
<1>5. vpos = Len(Vtx[b]) + 1
  BY <1>2, <1>3 DEF BlockTxsDone, InBlock
<1>6. First(b, vpos) = BlockTxs(b) /\ BlockTxs(b) \subseteq txs
  BY <1>3, <1>4, <1>5, FirstEnds DEF InBlock
<1>7. /\ txs' = txs \ BlockTxs(b) /\ UNCHANGED unSyncInsert
      /\ values' = rejects \o confirms /\ expect' = Len(rejects \o confirms) /\ pc' = "insert"
      /\ UNCHANGED <<cur, pos, dbVars, kvVars, boundVars>>
  BY <1>2 DEF BlockTxsDone, RemoveTxs, WriteBatch
<1>8. UNCHANGED <<log1, nodeTip, nodePool, forgot, db, disk, inTxn, consumed, kv, kvTip, repeats>>
  BY <1>7 DEF Quiet, dbVars, kvVars, boundVars
<1>9. PICK M \in SUBSET Tx : M = disk.memrepo \ unSyncDelete
  BY SysTypes
<1>10. txs' = M \ BlockTxs(b) /\ BlockTxs(b) \cap disk.memrepo \subseteq M
  BY <1>4, <1>6, <1>7, <1>9
<1>11. Tip(pos) = b
  <2>1. Tip(pos) = TipAfter(Tip(pos - 1), log1[pos])
    BY <1>3, SysTypes
  <2> QED BY <1>2, <1>3, <2>1 DEF TipAfter
<1>12. rejects \in Seq(Row) /\ confirms \in Seq(Row)
  BY DEF SysInv, BaseInv, TypeInv, TypeOK
<1>13. PICK v \in Seq(Row) : v = rejects \o confirms
  BY <1>12, RowsConcat
<1>14. Leads(forgot, St(cur, disk.memrepo), v, 0, St(b, M \ BlockTxs(b)))
  <2>1. Leads(FALSE, St(cur, disk.memrepo), rejects, 0, St(cur, M)) /\ Confirming(b, M)
    BY <1>1, <1>2, <1>9, <1>10 DEF SysInv, BlockInv
  <2>2. Leads(FALSE, St(cur, M), confirms, 0, St(b, M \ BlockTxs(b)))
    <3>1. Mid(b, Len(Vtx[b]) + 1, M) = St(b, M \ BlockTxs(b))
      BY <1>4, MidEnd
    <3> QED BY <1>5, <2>1, <3>1 DEF Confirming
  <2>3. PICK z \in 0..Len(rejects) : z = 0
    BY <1>12
  <2>4. Leads(FALSE, St(cur, disk.memrepo), rejects, z, St(cur, M))
    BY <2>1, <2>3
  <2>5. Leads(FALSE, St(cur, disk.memrepo), rejects \o confirms, z, St(b, M \ BlockTxs(b)))
    BY <1>12, <2>2, <2>4, LeadsThen
  <2>6. PICK g : g = FALSE
    OBVIOUS
  <2>7. Leads(g, St(cur, disk.memrepo), v, 0, St(b, M \ BlockTxs(b))) /\ (g => forgot)
    BY <1>13, <2>3, <2>5, <2>6
  <2> QED BY <2>7, LeadsWeaker
<1>15. MemOK(b, txs')
  <2>1. txs' \cap ChainTxs(b) = {}
    BY <1>4, <1>7
  <2>2. ASSUME NEW t \in txs'
        PROVE  Conflicts(t) \cap ChainTxs(b) = {}
    <3>1. t \in txs /\ t \in disk.memrepo
      BY <1>7, <1>9, <1>10
    <3>2. Conflicts(t) \cap txs = {}
      BY <3>1, MemoryConflicts DEF SysInv
    <3>3. Conflicts(t) \cap ChainTxs(cur) = {}
      BY <1>3, <3>1 DEF MemOK
    <3> QED BY <1>4, <1>6, <3>2, <3>3
  <2> QED BY <2>1, <2>2 DEF MemOK
<1>16. pc' \in Batch /\ pc' \in Built /\ pc' \notin Down /\ pc' \notin {"idle", "block", "memDelete", "commit", "aborted"}
  BY <1>7 DEF Built, Batch, Down
<1>17. LinesInv' /\ Node!NodeTypeOK'
  BY LinesStay
<1>18. StoreInv' /\ ParentsInv' /\ Tip(disk.offset)' = Tip(disk.offset)
  <2>1. StoreSame
    BY <1>8 DEF StoreSame, kvVars
  <2> QED BY <2>1, StoreStays
<1>19. Tip(pos)' = b /\ Tip(pos - 1)' = Tip(pos - 1) /\ log1'[pos'] = log1[pos]
  BY <1>7, <1>8, <1>11 DEF Tip
<1>20. UpInv'
  BY <1>3, <1>7, <1>8, <1>16, <1>18, <1>19 DEF UpInv
<1>21. BlockInv' /\ AbortInv'
  BY <1>16 DEF BlockInv, AbortInv
<1>22. BatchInv'
  <2>1. db'.tmp \o values' = v /\ Len(db'.tmp) + Len(values') = expect'
    <3>1. db'.tmp = <<>> /\ values' = v /\ expect' = Len(v)
      BY <1>3, <1>7, <1>8, <1>13
    <3> QED BY <1>13, <3>1
  <2>2. Brings(v)'
    BY <1>7, <1>8, <1>10, <1>14, <1>19 DEF Brings
  <2>3. BuiltInv'
    BY <1>3, <1>8, <2>1, <2>2 DEF BuiltInv
  <2>4. unSyncInsert' \cap db'.memrepo = {}
    BY <1>3, <1>7, <1>8
  <2> QED BY <1>3, <1>15, <1>16, <1>19, <2>3, <2>4 DEF BatchInv
<1>23. PoolInv'
  <2>1. ASSUME NEW P, PoolWalk(P), PoolNow(P)
        PROVE  PoolNow(P)'
    <3>1. P[disk.offset] = disk.memrepo /\ P[pos - 1] = disk.memrepo /\ unSyncDelete = {}
      BY <1>1, <2>1 DEF PoolNow
    <3>2. PoolStep(Tip(pos - 1), P[pos - 1], log1[pos], P[pos])
      BY <1>3, <2>1 DEF PoolWalk
    <3>3. P[pos] = disk.memrepo \ BlockTxs(b)
      BY <1>2, <1>3, <1>4, <3>1, <3>2 DEF PoolStep
    <3>4. P[pos] = txs'
      BY <1>9, <1>10, <3>1, <3>3
    <3> QED BY <1>7, <1>8, <1>16, <3>1, <3>4 DEF PoolNow
  <2> QED BY <2>1, PoolStays
<1> QED BY <1>17, <1>18, <1>20, <1>21, <1>22, <1>23 DEF SysInv

-----------------------------------------------------------------------------
(* The statements of a batch. *)

\* What a statement leaves to be shown.
BatchLeft ==
    /\ pc \in Built => BuiltInv
    /\ pc \in Built \cup {"memInsert"} => unSyncInsert \cap db.memrepo = {}
    /\ pc \notin Built => WrittenInv
    /\ pc = "memDelete" => unSyncDelete \subseteq db.memrepo
    /\ pc = "commit" => db.offset = pos

\* What the rows of the batch lead to does not depend on how far they are
\* written.
LEMMA BringsStays ==
    ASSUME SysInv, Quiet, StoreSame, UNCHANGED <<pos, cur, txs>>, NEW r, Brings(r)
    PROVE  Brings(r)'
<1>1. Tip(pos)' = Tip(pos)
  BY DEF Quiet, Tip
<1> QED BY <1>1 DEF Quiet, StoreSame, Brings

\* A statement that leaves the committed rows alone keeps the invariant.
LEMMA BatchStays ==
    ASSUME SysInv, Quiet, BaseInv', StoreSame, pc \in Batch, pc' \in Batch,
           UNCHANGED <<pos, cur, txs>>, BatchLeft'
    PROVE  SysInv'
<1>1. LinesInv' /\ Node!NodeTypeOK'
  BY LinesStay
<1>2. StoreInv' /\ ParentsInv' /\ Tip(disk.offset)' = Tip(disk.offset)
  BY StoreStays
<1>3. Tip(pos)' = Tip(pos) /\ Tip(pos - 1)' = Tip(pos - 1) /\ log1' = log1
  BY DEF Quiet, Tip
<1>4. /\ pc \notin Down /\ pc # "idle" /\ pc # "block"
      /\ pc' \notin Down /\ pc' # "idle" /\ pc' # "block" /\ pc' # "aborted"
  BY DEF Batch, Built, Down
<1>5. UpInv'
  BY <1>2, <1>3, <1>4 DEF SysInv, UpInv, StoreSame
<1>6. BlockInv' /\ AbortInv'
  BY <1>4 DEF BlockInv, AbortInv
<1>7. BatchInv'
  BY <1>3 DEF SysInv, BatchInv, BatchLeft
<1>8. PoolInv'
  <2>1. ASSUME NEW P, PoolWalk(P), PoolNow(P)
        PROVE  PoolNow(P)'
    BY <1>4, <2>1 DEF PoolNow, StoreSame
  <2> QED BY <2>1, PoolStays
<1> QED BY <1>1, <1>2, <1>5, <1>6, <1>7, <1>8 DEF SysInv

\* Where a statement of a batch finds the tables.
LEMMA BatchFacts ==
    ASSUME SysInv, pc \in Batch
    PROVE  /\ db \in Tables /\ disk \in Tables /\ values \in Seq(Row) /\ expect \in Nat
           /\ pc \in {"insert", "begin"} => ~inTxn /\ db = disk
           /\ pc \notin {"insert", "begin"} => inTxn
           /\ BatchLeft
           /\ pc \in Built => BatchRows
<1>1. db \in Tables /\ disk \in Tables /\ values \in Seq(Row) /\ expect \in Nat
  BY DEF SysInv, BaseInv, TypeInv, TypeOK
<1>2. (inTxn <=> pc \in InBatch) /\ (~inTxn => db = disk)
  BY DEF SysInv, BaseInv, SyncAll, TxnInv
<1>3. BatchLeft
  BY DEF SysInv, BatchInv, BatchLeft
<1>4. pc \in Built => BatchRows
  BY DEF SysInv, BaseInv, RowsInv, Built
<1> QED BY <1>1, <1>2, <1>3, <1>4 DEF InBatch, Batch, Built

\* Rows go to the table with batch_id -1.
LEMMA TmpWritten ==
    ASSUME SysInv, Quiet, pc = "insert", NEW r \in Seq(Row),
           Write([db EXCEPT !.tmp = db.tmp \o r]), UNCHANGED kvVars
    PROVE  /\ StoreSame /\ db'.tmp = db.tmp \o r /\ db'.txlogs2 = disk'.txlogs2
           /\ db'.memrepo = db.memrepo
<1>1. pc \in Batch
  BY DEF Batch, Built
<1>2. db \in Tables /\ ~inTxn /\ db = disk
  BY <1>1, BatchFacts
<1>3. db' = [db EXCEPT !.tmp = db.tmp \o r] /\ disk' = db'
  BY <1>2 DEF Write
<1>4. db'.tmp = db.tmp \o r /\ db'.txlogs2 = db.txlogs2 /\ db'.memrepo = db.memrepo /\ db'.offset = db.offset
  BY <1>2, <1>3 DEF Tables
<1> QED BY <1>2, <1>3, <1>4 DEF StoreSame

\* multiInsert() keeps the invariant: the rows written and to be written stay
\* the batch.
LEMMA SysMultiInsert ==
    ASSUME SysInv, Quiet, BaseInv', MultiInsert
    PROVE  SysInv'
<1>1. pc = "insert" /\ pc \in Batch /\ pc \in Built
  BY DEF MultiInsert, Batch, Built
<1>2. PICK n \in 1..Len(values) :
         /\ Write([db EXCEPT !.tmp = db.tmp \o SubSeq(values, 1, n)])
         /\ values' = SubSeq(values, n + 1, Len(values))
         /\ Goto(IF n = Len(values) THEN "begin" ELSE "insert")
  BY DEF MultiInsert
<1>3. /\ UNCHANGED <<pos, cur, txs, unSyncInsert, expect, kvVars, repeats>>
      /\ pc' \in {"begin", "insert"}
  BY <1>2 DEF MultiInsert, Goto, memVars, boundVars
<1>4. /\ db \in Tables /\ values \in Seq(Row) /\ expect \in Nat /\ BuiltInv
      /\ unSyncInsert \cap db.memrepo = {}
  BY <1>1, BatchFacts DEF BatchLeft
<1>5. PICK q \in Seq(Row), r \in Seq(Row) : q = SubSeq(values, 1, n) /\ r = SubSeq(values, n + 1, Len(values))
  BY <1>4, SubRows
<1>6. q \o r = values
  BY <1>4, <1>5, RowsSplit
<1>7. /\ StoreSame /\ db'.tmp = db.tmp \o q /\ db'.txlogs2 = disk'.txlogs2
      /\ db'.memrepo = db.memrepo
  BY <1>1, <1>2, <1>3, <1>5, TmpWritten
<1>8. PICK d \in Seq(Row) : d = db.tmp
  BY <1>4 DEF Tables
<1>9. (d \o q) \o r = d \o values /\ Len(d \o q) + Len(r) = Len(d) + Len(values)
  <2>1. (d \o q) \o r = d \o (q \o r)
    BY RowsAssoc
  <2>2. Len(d \o q) = Len(d) + Len(q) /\ Len(q \o r) = Len(q) + Len(r)
    OBVIOUS
  <2> QED BY <1>6, <2>1, <2>2
<1>10. BuiltInv'
  <2>0. PICK w : w = db.tmp \o values
    OBVIOUS
  <2>1. db'.tmp \o values' = w /\ Len(db'.tmp) + Len(values') = Len(db.tmp) + Len(values)
    BY <1>2, <1>5, <1>7, <1>8, <1>9, <2>0
  <2>2. Len(db.tmp) + Len(values) = expect => Brings(w)'
    BY <1>3, <1>4, <1>7, <2>0, BringsStays DEF BuiltInv
  <2> QED BY <1>3, <1>4, <1>7, <2>1, <2>2 DEF BuiltInv
<1>11. BatchLeft' /\ pc' \in Batch
  BY <1>3, <1>4, <1>7, <1>10 DEF BatchLeft, Built, Batch
<1> QED BY <1>1, <1>3, <1>7, <1>11, BatchStays

\* An INSERT that ran twice makes the row count too high for good.
LEMMA SysRepeat ==
    ASSUME SysInv, Quiet, BaseInv', RepeatInsert
    PROVE  SysInv'
<1>1. pc = "insert" /\ pc \in Batch /\ pc \in Built
  BY DEF RepeatInsert, Batch, Built
<1>2. PICK n \in 1..Len(values) : Write([db EXCEPT !.tmp = db.tmp \o SubSeq(values, 1, n)])
  BY DEF RepeatInsert
<1>3. /\ UNCHANGED <<pos, cur, txs, unSyncInsert, expect, values, pc, kvVars>>
      /\ repeats' = repeats + 1
  BY DEF RepeatInsert, memVars, procVars
<1>4. /\ db \in Tables /\ values \in Seq(Row) /\ expect \in Nat /\ BatchRows
      /\ unSyncInsert \cap db.memrepo = {}
  BY <1>1, BatchFacts DEF BatchLeft
<1>5. PICK q \in Seq(Row) : q = SubSeq(values, 1, n)
  BY <1>4, SubRows
<1>6. Len(q) = n
  BY <1>4, <1>5
<1>7. /\ StoreSame /\ db'.tmp = db.tmp \o q /\ db'.txlogs2 = disk'.txlogs2
      /\ db'.memrepo = db.memrepo
  BY <1>1, <1>2, <1>3, <1>5, TmpWritten
<1>8. PICK d \in Seq(Row) : d = db.tmp
  BY <1>4 DEF Tables
<1>9. Len(db'.tmp) + Len(values') # expect'
  <2>1. Len(d \o q) = Len(d) + Len(q) /\ Len(d) + Len(values) >= expect
    BY <1>4, <1>8 DEF BatchRows
  <2>2. PICK x \in Nat, y \in Nat, e \in Nat : x = Len(d) /\ y = Len(values) /\ e = expect
    BY <1>4
  <2>3. x + n + y # e
    BY <1>6, <2>1, <2>2
  <2> QED BY <1>3, <1>6, <1>7, <1>8, <2>1, <2>2, <2>3
<1>10. repeats' # 0
  <2>1. repeats \in Nat
    BY DEF SysInv, BaseInv, TypeInv, TypeOK
  <2> QED BY <1>3, <2>1
<1>11. BuiltInv'
  BY <1>7, <1>9, <1>10 DEF BuiltInv
<1>12. BatchLeft' /\ pc' \in Batch
  BY <1>1, <1>3, <1>4, <1>7, <1>11 DEF BatchLeft, Built, Batch
<1> QED BY <1>1, <1>3, <1>7, <1>12, BatchStays

\* START TRANSACTION keeps the invariant.
LEMMA SysStart ==
    ASSUME SysInv, Quiet, BaseInv', StartTransaction
    PROVE  SysInv'
<1>1. pc = "begin" /\ pc \in Batch /\ pc \in Built
  BY DEF StartTransaction, Batch, Built
<1>2. /\ UNCHANGED <<pos, cur, txs, unSyncInsert, expect, values, db, disk, kvVars, repeats>>
      /\ pc' = "rows"
  BY DEF StartTransaction, Goto, memVars, boundVars
<1>3. StoreSame
  BY <1>2 DEF StoreSame
<1>4. BuiltInv /\ unSyncInsert \cap db.memrepo = {}
  BY <1>1, BatchFacts DEF BatchLeft
<1>5. BuiltInv'
  <2>1. PICK w : w = db.tmp \o values
    OBVIOUS
  <2>2. Brings(w) => Brings(w)'
    BY <1>2, <1>3, BringsStays
  <2> QED BY <1>2, <1>4, <2>1, <2>2 DEF BuiltInv
<1>6. BatchLeft' /\ pc' \in Batch
  BY <1>2, <1>4, <1>5 DEF BatchLeft, Built, Batch
<1> QED BY <1>1, <1>2, <1>3, <1>6, BatchStays

\* Inside the transaction the committed tables stay.
LEMMA InTxnWrite ==
    ASSUME SysInv, pc \in Batch, pc \notin {"insert", "begin"}, NEW d, Write(d), UNCHANGED kvVars
    PROVE  StoreSame /\ db' = d /\ disk' = disk
<1>1. inTxn
  BY BatchFacts
<1> QED BY <1>1 DEF Write, StoreSame

\* The rows get their batch id.
LEMMA RowsWritten ==
    ASSUME SysInv, Quiet, BaseInv', pc = "rows", NEW r \in Seq(Row), Brings(r),
           db'.txlogs2 = db.txlogs2 \o r, db'.memrepo = db.memrepo, StoreSame,
           UNCHANGED <<pos, cur, txs, unSyncInsert>>, pc' = "memInsert"
    PROVE  SysInv'
<1>1. pc \in Batch /\ pc \in Built /\ pc' \in Batch /\ pc' \notin Built
  BY DEF Batch, Built
<1>2. BuiltInv /\ unSyncInsert \cap db.memrepo = {}
  BY <1>1, BatchFacts DEF BatchLeft
<1>3. Brings(r)'
  BY BringsStays
<1>4. db'.txlogs2 = disk'.txlogs2 \o r
  BY <1>2 DEF BuiltInv, StoreSame
<1>5. WrittenInv'
  BY <1>3, <1>4 DEF WrittenInv
<1>6. BatchLeft'
  BY <1>1, <1>2, <1>5 DEF BatchLeft
<1> QED BY <1>1, <1>6, BatchStays

\* The one row of handleTxAccept() joins the table.
LEMMA SysInsertAccept ==
    ASSUME SysInv, Quiet, BaseInv', InsertAccept
    PROVE  SysInv'
<1>1. pc = "rows" /\ pc \in Batch /\ pc \in Built /\ pc \notin {"insert", "begin"} /\ values # <<>>
  BY DEF InsertAccept, Batch, Built
<1>2. /\ UNCHANGED <<pos, cur, txs, unSyncInsert, kvVars>> /\ pc' = "memInsert"
      /\ Write([db EXCEPT !.txlogs2 = db.txlogs2 \o values])
  BY DEF InsertAccept, Goto, memVars
<1>3. db \in Tables /\ values \in Seq(Row) /\ expect \in Nat /\ BuiltInv /\ BatchRows
  BY <1>1, BatchFacts DEF BatchLeft
<1>4. db.tmp = <<>> /\ Len(values) = expect
  BY <1>1, <1>3 DEF BatchRows
<1>5. Brings(values)
  <2>1. db.tmp \o values = values /\ Len(db.tmp) + Len(values) = expect
    BY <1>3, <1>4
  <2> QED BY <1>3, <2>1 DEF BuiltInv
<1>6. StoreSame /\ db' = [db EXCEPT !.txlogs2 = db.txlogs2 \o values]
  BY <1>1, <1>2, InTxnWrite
<1>7. db'.txlogs2 = db.txlogs2 \o values /\ db'.memrepo = db.memrepo
  BY <1>3, <1>6 DEF Tables
<1> QED BY <1>1, <1>2, <1>3, <1>5, <1>6, <1>7, RowsWritten

\* The rows of a batch, found complete, join the table.
LEMMA SysUpdate ==
    ASSUME SysInv, Quiet, BaseInv', UpdateBatchId
    PROVE  SysInv'
<1>1. pc = "rows" /\ pc \in Batch /\ pc \in Built /\ pc \notin {"insert", "begin"} /\ values = <<>>
  BY DEF UpdateBatchId, Batch, Built
<1>2. /\ UNCHANGED <<pos, cur, txs, unSyncInsert, kvVars>> /\ pc' = "memInsert"
      /\ Write([db EXCEPT !.txlogs2 = db.txlogs2 \o db.tmp, !.tmp = <<>>])
  BY DEF UpdateBatchId, Goto, memVars
<1>3. db \in Tables /\ expect \in Nat /\ BuiltInv /\ BatchRows
  BY <1>1, BatchFacts DEF BatchLeft
<1>4. PICK d \in Seq(Row) : d = db.tmp
  BY <1>3 DEF Tables
<1>5. Len(d) = expect
  <2>1. expect = 0 => d = <<>>
    BY <1>3, <1>4 DEF BatchRows
  <2>2. expect = 0 \/ Len(d) = expect
    BY <1>4 DEF UpdateBatchId, UpdateCountOK
  <2> QED BY <2>1, <2>2
<1>6. Brings(d)
  <2>1. db.tmp \o values = d /\ Len(db.tmp) + Len(values) = expect
    BY <1>1, <1>4, <1>5
  <2> QED BY <1>3, <2>1 DEF BuiltInv
<1>7. StoreSame /\ db' = [db EXCEPT !.txlogs2 = db.txlogs2 \o db.tmp, !.tmp = <<>>]
  BY <1>1, <1>2, InTxnWrite
<1>8. db'.txlogs2 = db.txlogs2 \o d /\ db'.memrepo = db.memrepo
  BY <1>3, <1>4, <1>7 DEF Tables
<1> QED BY <1>1, <1>2, <1>6, <1>7, <1>8, RowsWritten

\* The statements after the rows leave them alone.
LEMMA WrittenStays ==
    ASSUME SysInv, Quiet, StoreSame, UNCHANGED <<pos, cur, txs>>, pc \in Batch, pc \notin Built,
           db'.txlogs2 = db.txlogs2
    PROVE  WrittenInv'
<1>1. PICK r \in Seq(Row) : db.txlogs2 = disk.txlogs2 \o r /\ Brings(r)
  BY BatchFacts DEF BatchLeft, WrittenInv
<1>2. Brings(r)'
  BY <1>1, BringsStays
<1> QED BY <1>1, <1>2 DEF WrittenInv, StoreSame

\* The first statement of syncToDB() keeps the invariant, and the second will
\* find its rows.
LEMMA SysSyncInsert ==
    ASSUME SysInv, Quiet, BaseInv', SyncInsert
    PROVE  SysInv'
<1>1. pc = "memInsert" /\ pc \in Batch /\ pc \notin Built /\ pc \notin {"insert", "begin"}
  BY DEF SyncInsert, Batch, Built
<1>2. /\ UNCHANGED <<pos, cur, txs, unSyncDelete, kvVars>> /\ pc' = "memDelete"
      /\ unSyncInsert \cap db.memrepo = {}
      /\ Write([db EXCEPT !.memrepo = db.memrepo \cup unSyncInsert])
  BY DEF SyncInsert, Goto
<1>3. db \in Tables
  BY <1>1, BatchFacts
<1>4. StoreSame /\ db' = [db EXCEPT !.memrepo = db.memrepo \cup unSyncInsert]
  BY <1>1, <1>2, InTxnWrite
<1>5. db'.txlogs2 = db.txlogs2 /\ db'.memrepo = db.memrepo \cup unSyncInsert
  BY <1>3, <1>4 DEF Tables
<1>6. WrittenInv'
  BY <1>1, <1>2, <1>4, <1>5, WrittenStays
<1>7. unSyncDelete' \subseteq db'.memrepo
  <2>1. BuiltSync
    BY <1>1 DEF SysInv, BaseInv, SyncAll, SyncInv
  <2> QED BY <1>2, <1>5, <2>1 DEF BuiltSync
<1>8. BatchLeft' /\ pc' \in Batch
  BY <1>2, <1>6, <1>7 DEF BatchLeft, Batch, Built
<1> QED BY <1>1, <1>2, <1>4, <1>8, BatchStays

\* The second statement of syncToDB() keeps the invariant.
LEMMA SysSyncDelete ==
    ASSUME SysInv, Quiet, BaseInv', SyncDelete
    PROVE  SysInv'
<1>1. pc = "memDelete" /\ pc \in Batch /\ pc \notin Built /\ pc \notin {"insert", "begin"}
  BY DEF SyncDelete, Batch, Built
<1>2. /\ UNCHANGED <<pos, cur, txs, kvVars>> /\ pc' = "status"
      /\ Write([db EXCEPT !.memrepo = db.memrepo \ unSyncDelete])
  BY DEF SyncDelete, Goto
<1>3. db \in Tables
  BY <1>1, BatchFacts
<1>4. StoreSame /\ db' = [db EXCEPT !.memrepo = db.memrepo \ unSyncDelete]
  BY <1>1, <1>2, InTxnWrite
<1>5. db'.txlogs2 = db.txlogs2
  BY <1>3, <1>4 DEF Tables
<1>6. WrittenInv'
  BY <1>1, <1>2, <1>4, <1>5, WrittenStays
<1>7. BatchLeft' /\ pc' \in Batch
  BY <1>2, <1>6 DEF BatchLeft, Batch, Built
<1> QED BY <1>1, <1>2, <1>4, <1>7, BatchStays

\* Saving the offset keeps the invariant.
LEMMA SysStatus ==
    ASSUME SysInv, Quiet, BaseInv', UpdateLog1FileStatus
    PROVE  SysInv'
<1>1. pc = "status" /\ pc \in Batch /\ pc \notin Built /\ pc \notin {"insert", "begin"}
  BY DEF UpdateLog1FileStatus, Batch, Built
<1>2. /\ UNCHANGED <<pos, cur, txs, kvVars>> /\ pc' = "commit"
      /\ Write([db EXCEPT !.offset = pos])
  BY DEF UpdateLog1FileStatus, Goto, memVars
<1>3. db \in Tables
  BY <1>1, BatchFacts
<1>4. StoreSame /\ db' = [db EXCEPT !.offset = pos]
  BY <1>1, <1>2, InTxnWrite
<1>5. db'.txlogs2 = db.txlogs2 /\ db'.offset = pos
  BY <1>3, <1>4 DEF Tables
<1>6. WrittenInv'
  BY <1>1, <1>2, <1>4, <1>5, WrittenStays
<1>7. BatchLeft' /\ pc' \in Batch
  BY <1>2, <1>5, <1>6 DEF BatchLeft, Batch, Built
<1> QED BY <1>1, <1>2, <1>4, <1>7, BatchStays

\* COMMIT: the rows of the batch join those that tparser has yet to consume.
LEMMA SysCommit ==
    ASSUME SysInv, Quiet, BaseInv', Commit
    PROVE  SysInv'
<1>1. pc = "commit" /\ pc \in Batch /\ pc \notin Built /\ pc # "idle" /\ pc \notin Down
  BY DEF Commit, Batch, Built, Down
<1>2. /\ UNCHANGED <<pos, txs, unSyncDelete, consumed, kv, kvTip>> /\ pc' = "idle" /\ disk' = db
      /\ cur' = IF log1[pos].type = "block" THEN log1[pos].item ELSE cur
  BY DEF Commit, memVars, kvVars
<1>3. UNCHANGED <<log1, nodeTip, nodePool, forgot>>
  BY DEF Quiet
<1>4. PICK r \in Seq(Row) : db.txlogs2 = disk.txlogs2 \o r /\ Brings(r)
  BY <1>1, BatchFacts DEF BatchLeft, WrittenInv
<1>5. db.offset = pos /\ MemOK(Tip(pos), txs)
  BY <1>1 DEF SysInv, BatchInv, Built
<1>6. db.memrepo = txs
  BY <1>1 DEF SysInv, BaseInv, SyncAll, SyncInv, Synced
<1>7. pos \in 1..Len(log1)
  <2>1. pos > 0
    BY <1>1 DEF SysInv, BaseInv, TypeInv, LineInv
  <2> QED BY <2>1, SysTypes
<1>8. cur' = Tip(pos) /\ cur = Tip(disk.offset)
  <2>1. cur = Tip(pos - 1) /\ cur = Tip(disk.offset)
    BY <1>1 DEF SysInv, UpInv
  <2>2. Tip(pos) = TipAfter(Tip(pos - 1), log1[pos])
    BY <1>7, SysTypes
  <2> QED BY <1>2, <2>1, <2>2 DEF TipAfter
<1>9. Tip(pos)' = Tip(pos) /\ Tip(disk.offset)' = Tip(pos)
  BY <1>2, <1>3, <1>5 DEF Tip
<1>10. StoreInv'
  <2>1. PICK q \in Seq(Row) : q = disk.txlogs2
    BY SysTypes
  <2>2. /\ consumed <= Len(q) /\ (consumed = 0 => kvTip = Begin)
        /\ Leads(forgot, Abs, q, consumed, St(cur, disk.memrepo))
    BY <1>8, <2>1 DEF SysInv, StoreInv
  <2>3. consumed \in 0..Len(q)
    <3>1. consumed \in Nat
      BY DEF SysInv, BaseInv, TypeInv, TypeOK
    <3> QED BY <2>2, <3>1
  <2>4. Leads(forgot, St(cur, disk.memrepo), r, 0, St(Tip(pos), txs))
    BY <1>4 DEF Brings
  <2>5. Leads(forgot, Abs, q \o r, consumed, St(Tip(pos), txs))
    BY <2>2, <2>3, <2>4, LeadsThen
  <2>6. Len(q \o r) = Len(q) + Len(r) /\ Len(q) \in Nat /\ Len(r) \in Nat
    OBVIOUS
  <2>7. consumed <= Len(q \o r)
    BY <2>3, <2>6
  <2>8. Abs' = Abs
    BY <1>2 DEF Abs, LS, Held
  <2>9. disk'.txlogs2 = q \o r /\ disk'.memrepo = txs
    BY <1>2, <1>4, <1>6, <2>1
  <2>10. MemOK(Tip(disk.offset), disk.memrepo)'
    BY <1>5, <1>9, <2>9 DEF MemOK
  <2> QED BY <1>2, <1>3, <1>9, <2>2, <2>5, <2>7, <2>8, <2>9, <2>10 DEF StoreInv
<1>11. ParentsInv'
  <2>1. Abs' = Abs
    BY <1>2 DEF Abs, LS, Held
  <2> QED BY <1>3, <2>1 DEF SysInv, ParentsInv
<1>12. LinesInv' /\ Node!NodeTypeOK'
  BY LinesStay
<1>13. UpInv'
  <2>1. pos \in Nat
    BY <1>7, SysTypes
  <2> QED BY <1>2, <1>5, <1>8, <1>9, <2>1 DEF UpInv
<1>14. BlockInv' /\ AbortInv' /\ BatchInv'
  BY <1>2 DEF BlockInv, AbortInv, BatchInv, Batch, Built
<1>15. PoolInv'
  <2>1. ASSUME NEW P, PoolWalk(P), PoolNow(P)
        PROVE  PoolNow(P)'
    <3>1. P[pos] = txs
      BY <1>1, <2>1 DEF PoolNow
    <3>2. pc' \notin Batch /\ pc' # "block"
      BY <1>2 DEF Batch, Built
    <3> QED BY <1>2, <1>5, <1>6, <3>1, <3>2 DEF PoolNow
  <2> QED BY <2>1, PoolStays
<1> QED BY <1>10, <1>11, <1>12, <1>13, <1>14, <1>15 DEF SysInv

-----------------------------------------------------------------------------
(* Failures, crashes and restarts; tparser. *)

\* The process is gone; what is committed stays.
LEMMA SysExit ==
    ASSUME SysInv, Quiet, BaseInv', StoreSame, pc' \in Down, repeats' = repeats,
           pc' = "aborted" => repeats # 0
    PROVE  SysInv'
<1>1. LinesInv' /\ Node!NodeTypeOK'
  BY LinesStay
<1>2. StoreInv' /\ ParentsInv'
  BY StoreStays
<1>3. pc' \notin Batch /\ pc' # "block" /\ pc' # "idle"
  BY DEF Down, Batch, Built
<1>4. UpInv' /\ BlockInv' /\ BatchInv' /\ AbortInv'
  BY <1>3 DEF UpInv, BlockInv, BatchInv, AbortInv
<1>5. PoolInv'
  <2>1. ASSUME NEW P, PoolWalk(P), PoolNow(P)
        PROVE  PoolNow(P)'
    BY <1>3, <2>1 DEF PoolNow, StoreSame
  <2> QED BY <2>1, PoolStays
<1> QED BY <1>1, <1>2, <1>4, <1>5 DEF SysInv

\* Of the failures only that of a row count remains, after a repeated INSERT.
LEMMA SysFailure ==
    ASSUME SysInv, Quiet, BaseInv', Failure
    PROVE  SysInv'
<1>1. ~BlockFails
  BY BlockNeverFails
<1>2. ASSUME ClearFails PROVE FALSE
  <2>1. pc = "commit" /\ pc \in Batch /\ log1[pos].type = "clear" /\ db.memrepo # {}
    BY <1>2 DEF ClearFails, Batch
  <2>2. txs = {}
    BY <2>1 DEF SysInv, BatchInv
  <2>3. db.memrepo = txs
    BY <2>1 DEF SysInv, BaseInv, SyncAll, SyncInv, Synced
  <2> QED BY <2>1, <2>2, <2>3
<1>3. CASE StatementFails
  <2>1. /\ \/ pc = "rows" /\ values = <<>> /\ ~UpdateCountOK
           \/ pc = "memInsert" /\ unSyncInsert \cap db.memrepo # {}
           \/ pc = "memDelete" /\ ~(unSyncDelete \subseteq db.memrepo)
        /\ Die
    BY <1>3 DEF StatementFails
  <2>2. pc \in Batch
    BY <2>1 DEF Batch, Built
  <2>3. BatchLeft /\ db \in Tables /\ expect \in Nat
    BY <2>2, BatchFacts
  <2>4. pc = "rows" /\ values = <<>> /\ ~UpdateCountOK
    BY <2>1, <2>3 DEF BatchLeft, Built
  <2>5. repeats # 0
    <3>1. repeats = 0 => Len(db.tmp) + Len(values) = expect
      BY <2>3, <2>4 DEF BatchLeft, Built, BuiltInv
    <3>2. Len(db.tmp) \in Nat /\ Len(values) = 0
      BY <2>3, <2>4 DEF Tables
    <3> QED BY <2>3, <2>4, <3>1, <3>2 DEF UpdateCountOK
  <2>6. pc' = "aborted" /\ disk' = disk /\ UNCHANGED <<kvVars, repeats>>
    BY <2>1 DEF Die, Exit
  <2>7. StoreSame /\ pc' \in Down
    BY <2>6 DEF StoreSame, Down
  <2> QED BY <2>5, <2>6, <2>7, SysExit
<1> QED BY <1>1, <1>2, <1>3 DEF Failure

\* A crash keeps the invariant: what is committed is what a restart needs.
LEMMA SysCrash ==
    ASSUME SysInv, Quiet, BaseInv', Crash
    PROVE  SysInv'
<1>1. pc' = "down" /\ disk' = disk /\ UNCHANGED <<kvVars, repeats>>
  BY DEF Crash, Exit
<1>2. StoreSame /\ pc' \in Down /\ pc' # "aborted"
  BY <1>1 DEF StoreSame, Down
<1> QED BY <1>1, <1>2, SysExit

\* Once tparser has caught up, its store is what is committed.
LEMMA CaughtUp ==
    ASSUME SysInv, consumed = Len(disk.txlogs2)
    PROVE  /\ Abs = St(Tip(disk.offset), disk.memrepo) /\ kvTip = Tip(disk.offset)
           /\ Len(disk.txlogs2) = 0 => kvTip = Begin
<1>1. Leads(forgot, Abs, disk.txlogs2, Len(disk.txlogs2), St(Tip(disk.offset), disk.memrepo))
  BY DEF SysInv, StoreInv
<1>2. Abs = St(Tip(disk.offset), disk.memrepo)
  BY <1>1, SysTypes, LeadsEnd
<1>3. Abs.tip = kvTip
  BY AbsFacts DEF SysInv, BaseInv
<1>4. St(Tip(disk.offset), disk.memrepo).tip = Tip(disk.offset)
  BY DEF St, LS
<1>5. consumed = 0 => kvTip = Begin
  BY DEF SysInv, StoreInv
<1> QED BY <1>2, <1>3, <1>4, <1>5

\* initLog2() takes up where the committed tables are: tparser's tip is the tip
\* of the lines up to the stored offset.
LEMMA SysRestart ==
    ASSUME SysInv, Quiet, BaseInv', Restart
    PROVE  SysInv'
<1>1. ASSUME NEW next, DeleteTmp(next)
      PROVE  StoreSame /\ pc' = next /\ repeats' = repeats /\ disk'.memrepo = disk.memrepo
             /\ disk'.offset = disk.offset
  <2>1. disk' = [disk EXCEPT !.tmp = <<>>] /\ pc' = next /\ UNCHANGED <<kvVars, repeats>>
    BY <1>1 DEF DeleteTmp, boundVars
  <2>2. disk \in Tables
    BY DEF SysInv, BaseInv, TypeInv, TypeOK
  <2>3. disk'.txlogs2 = disk.txlogs2 /\ disk'.memrepo = disk.memrepo /\ disk'.offset = disk.offset
    BY <2>1, <2>2 DEF Tables
  <2> QED BY <2>1, <2>3 DEF StoreSame
<1>2. CASE InitWaits
  <2>1. DeleteTmp("down")
    BY <1>2 DEF InitWaits
  <2>2. pc' \in Down /\ pc' # "aborted"
    BY <1>1, <2>1 DEF Down
  <2> QED BY <1>1, <2>1, <2>2, SysExit
<1>3. CASE LoadFails
  BY <1>3 DEF LoadFails, SysInv, BaseInv, SyncAll
<1>4. CASE InitLog2
  <2>1. /\ DeleteTmp("idle") /\ consumed = Len(disk.txlogs2)
        /\ cur' = IF Len(disk.txlogs2) > 0 THEN kvTip ELSE Begin
        /\ pos' = disk.offset /\ txs' = disk.memrepo
    BY <1>4 DEF InitLog2
  <2>2. /\ StoreSame /\ pc' = "idle" /\ repeats' = repeats /\ disk'.memrepo = disk.memrepo
        /\ disk'.offset = disk.offset
    BY <1>1, <2>1
  <2>3. cur' = Tip(disk.offset)
    <3>1. Len(disk.txlogs2) \in Nat
      BY SysTypes
    <3> QED BY <2>1, <3>1, CaughtUp
  <2>4. LinesInv' /\ Node!NodeTypeOK'
    BY LinesStay
  <2>5. StoreInv' /\ ParentsInv' /\ Tip(disk.offset)' = Tip(disk.offset)
    BY <2>2, StoreStays
  <2>6. UpInv'
    <3>1. Tip(pos)' = Tip(disk.offset)'
      BY <2>1, <2>2 DEF Tip
    <3>2. disk'.offset <= pos'
      BY <2>1, <2>2, SysTypes
    <3> QED BY <2>2, <2>3, <2>5, <3>1, <3>2 DEF UpInv
  <2>7. pc' \notin Batch /\ pc' # "block" /\ pc' # "aborted"
    BY <2>2 DEF Batch, Built
  <2>8. BlockInv' /\ BatchInv' /\ AbortInv'
    BY <2>7 DEF BlockInv, BatchInv, AbortInv
  <2>9. PoolInv'
    <3>1. ASSUME NEW P, PoolWalk(P), PoolNow(P)
          PROVE  PoolNow(P)'
      BY <2>1, <2>2, <2>7, <3>1 DEF PoolNow
    <3> QED BY <3>1, PoolStays
  <2> QED BY <2>4, <2>5, <2>6, <2>8, <2>9 DEF SysInv
<1> QED BY <1>2, <1>3, <1>4 DEF Restart

\* Nothing but tparser moves.
LEMMA RestStays ==
    ASSUME SysInv, Quiet, UNCHANGED <<memVars, procVars, dbVars, boundVars>>
    PROVE  LinesInv' /\ Node!NodeTypeOK' /\ UpInv' /\ BlockInv' /\ BatchInv' /\ PoolInv' /\ AbortInv'
<1>1. /\ UNCHANGED <<txs, spentOutputs, unSyncInsert, unSyncDelete>>
      /\ UNCHANGED <<pc, pos, cur, vpos, rejects, confirms, values, expect>>
      /\ UNCHANGED <<db, disk, inTxn, crashes, drops, repeats>>
      /\ UNCHANGED <<log1, nodeTip, nodePool, forgot>>
  BY DEF Quiet, memVars, procVars, dbVars, boundVars
<1>2. LinesInv' /\ Node!NodeTypeOK'
  BY LinesStay
<1>3. UpInv'
  BY <1>1 DEF SysInv, UpInv, Tip
<1>4. BlockInv'
  BY <1>1 DEF SysInv, BlockInv, Confirming
<1>5. BatchInv'
  <2>1. \A r : Brings(r) => Brings(r)'
    BY <1>1 DEF Brings, Tip
  <2>2. BuiltInv => BuiltInv'
    BY <1>1, <2>1 DEF BuiltInv
  <2>3. WrittenInv => WrittenInv'
    BY <1>1, <2>1 DEF WrittenInv
  <2> QED BY <1>1, <2>2, <2>3 DEF SysInv, BatchInv, Tip
<1>6. AbortInv'
  BY <1>1 DEF SysInv, AbortInv
<1>7. PoolInv'
  <2>1. \A P : PoolNow(P) => PoolNow(P)'
    BY <1>1 DEF PoolNow
  <2> QED BY <2>1, PoolStays
<1> QED BY <1>2, <1>3, <1>4, <1>5, <1>6, <1>7

\* The row that tparser takes is the next one of a run of the ledger.
LEMMA NextRow ==
    ASSUME SysInv, HandleTxlog
    PROVE  \E r \in Row : /\ r = disk.txlogs2[consumed + 1] /\ RowOK(forgot, Abs, r)
                          /\ Leads(forgot, RowTo(Abs, r), disk.txlogs2, consumed + 1,
                                   St(Tip(disk.offset), disk.memrepo))
<1>1. PICK q \in Seq(Row) : q = disk.txlogs2
  BY SysTypes
<1>2. consumed \in Nat /\ consumed < Len(q)
  BY <1>1 DEF HandleTxlog, SysInv, BaseInv, TypeInv, TypeOK
<1>3. Leads(forgot, Abs, q, consumed, St(Tip(disk.offset), disk.memrepo))
  BY <1>1 DEF SysInv, StoreInv
<1>4. /\ RowOK(forgot, Abs, q[consumed + 1])
      /\ Leads(forgot, RowTo(Abs, q[consumed + 1]), q, consumed + 1, St(Tip(disk.offset), disk.memrepo))
  BY <1>2, <1>3, LeadsFirst
<1>5. q[consumed + 1] \in Row
  <2>1. consumed + 1 \in 1..Len(q)
    BY <1>2
  <2> QED BY <2>1
<1> QED BY <1>1, <1>4, <1>5

\* A row that tparser applies keeps the invariant.
LEMMA SysTxlog ==
    ASSUME SysInv, Quiet, BaseInv', HandleTxlog
    PROVE  SysInv'
<1>1. PICK r \in Row : /\ r = disk.txlogs2[consumed + 1] /\ RowOK(forgot, Abs, r)
                       /\ Leads(forgot, RowTo(Abs, r), disk.txlogs2, consumed + 1,
                                St(Tip(disk.offset), disk.memrepo))
  BY NextRow
<1>2. UNCHANGED <<memVars, procVars, dbVars, boundVars>> /\ consumed' = consumed + 1
      /\ consumed < Len(disk.txlogs2)
  BY DEF HandleTxlog
<1>3. TypeInv /\ TypeInv'
  BY DEF SysInv, BaseInv
<1>4. Abs' = RowTo(Abs, r) /\ Abs \in LState
  BY <1>1, <1>3, AbsStep, AbsFacts
<1>5. disk' = disk /\ log1' = log1 /\ forgot' = forgot /\ Tip(disk.offset)' = Tip(disk.offset)
  BY <1>2 DEF dbVars, Quiet, Tip
<1>6. StoreInv'
  <2>1. consumed + 1 <= Len(disk.txlogs2) /\ consumed + 1 # 0
    <3>1. consumed \in Nat
      BY <1>3 DEF TypeInv, TypeOK
    <3>2. Len(disk.txlogs2) \in Nat
      BY SysTypes
    <3> QED BY <1>2, <3>1, <3>2
  <2>2. MemOK(Tip(disk.offset), disk.memrepo)
    BY DEF SysInv, StoreInv
  <2> QED BY <1>1, <1>2, <1>4, <1>5, <2>1, <2>2 DEF StoreInv
<1>7. ParentsInv'
  <2>1. CASE forgot
    BY <1>5, <2>1 DEF ParentsInv
  <2>2. CASE ~forgot
    <3>1. forgot = FALSE
      BY <2>2 DEF SysInv, Node!NodeTypeOK
    <3>2. RowOK(FALSE, Abs, r)
      BY <1>1, <3>1
    <3>3. ParentsIn(Abs)
      BY <2>2 DEF SysInv, ParentsInv
    <3>4. ParentsIn(RowTo(Abs, r))
      BY <1>4, <3>2, <3>3, ParentsStay
    <3> QED BY <1>4, <3>4 DEF ParentsInv
  <2> QED BY <2>1, <2>2
<1>8. LinesInv' /\ Node!NodeTypeOK' /\ UpInv' /\ BlockInv' /\ BatchInv' /\ PoolInv' /\ AbortInv'
  BY <1>2, RestStays
<1> QED BY <1>6, <1>7, <1>8 DEF SysInv

\* Nothing happens.
LEMMA SysSame ==
    ASSUME SysInv, UNCHANGED sysVars
    PROVE  SysInv'
<1>1. /\ Quiet /\ UNCHANGED <<memVars, procVars, dbVars, kvVars, boundVars>> /\ log1' = log1
  BY DEF sysVars, vars, envVars, Quiet
<1>2. LogGrows
  <2>1. log1 \in Seq(Line) /\ Len(log1) \in Nat
    BY SysTypes DEF SysInv, BaseInv, TypeInv, TypeOK
  <2> QED BY <1>1, <2>1 DEF LogGrows
<1>3. BaseInv'
  BY <1>2, BaseGrows DEF SysInv
<1>4. StoreSame
  BY <1>1 DEF StoreSame, dbVars
<1>5. StoreInv' /\ ParentsInv'
  BY <1>1, <1>4, StoreStays
<1>6. LinesInv' /\ Node!NodeTypeOK' /\ UpInv' /\ BlockInv' /\ BatchInv' /\ PoolInv' /\ AbortInv'
  BY <1>1, RestStays
<1> QED BY <1>3, <1>5, <1>6 DEF SysInv

-----------------------------------------------------------------------------
(* The invariant holds. *)

\* The invariant holds at the start.
LEMMA SysInitInv == SysInit => SysInv
<1> SUFFICES ASSUME SysInit PROVE SysInv
  OBVIOUS
<1>1. /\ txs = {} /\ log1 = <<>> /\ pc = "idle" /\ pos = 0 /\ cur = Begin
      /\ disk = EmptyTables /\ consumed = 0 /\ kv = [x \in Tx \cup Block |-> "absent"] /\ kvTip = Begin
      /\ nodeTip = Begin /\ nodePool = {} /\ forgot = FALSE
  BY DEF SysInit, Init, MemInit, Node!NodeInit
<1>2. BaseInv
  BY BaseInit DEF SysInit
<1>3. disk.offset = 0 /\ disk.memrepo = {} /\ disk.txlogs2 = <<>>
  BY <1>1 DEF EmptyTables
<1>4. Len(log1) = 0 /\ Len(disk.txlogs2) = 0
  BY <1>1, <1>3
<1>5. Tip(0) = Begin
  BY TipZero DEF Tip
<1>6. LinesInv /\ Node!NodeTypeOK
  <2>1. LinesOK(log1)
    BY <1>1 DEF LinesOK
  <2> QED BY <1>1, <1>4, <1>5, <2>1 DEF LinesInv, Node!NodeTypeOK
<1>7. Held("confirmed") = {} /\ Held("unconfirmed") = {} /\ Solid(Begin) = {}
  BY <1>1, SolidFacts DEF Held
<1>8. Abs = St(Begin, {})
  BY <1>1, <1>7 DEF Abs, St
<1>9. StoreInv
  <2>1. MemOK(Begin, {})
    BY DEF MemOK
  <2>2. Abs \in LState
    BY <1>2, AbsFacts DEF BaseInv
  <2>3. PICK e \in Seq(Row) : e = disk.txlogs2
    BY <1>2, <1>3, NoRows
  <2>4. Leads(forgot, Abs, e, Len(e), Abs)
    BY <2>2, LeadsNone
  <2> QED BY <1>1, <1>3, <1>4, <1>5, <1>8, <2>1, <2>3, <2>4 DEF StoreInv
<1>10. UpInv
  BY <1>1, <1>3, <1>5 DEF UpInv
<1>11. BlockInv /\ BatchInv /\ AbortInv
  BY <1>1 DEF BlockInv, BatchInv, AbortInv, Batch, Built
<1>12. PoolInv
  <2> DEFINE P == [i \in 0..0 |-> {}]
  <2>1. P \in [0..Len(log1) -> SUBSET Tx] /\ P[0] = {}
    BY <1>4
  <2>2. PoolWalk(P)
    BY <1>4, <2>1 DEF PoolWalk
  <2>3. PoolNow(P)
    BY <1>1, <1>3, <2>1 DEF PoolNow, Batch, Built
  <2> QED BY <1>1, <1>4, <2>1, <2>2, <2>3 DEF PoolInv
<1>13. ParentsInv
  <2>1. All(Abs) = {}
    BY <1>7 DEF All, Abs, LS
  <2> QED BY <2>1 DEF ParentsInv, ParentsIn
<1> QED BY <1>2, <1>6, <1>9, <1>10, <1>11, <1>12, <1>13 DEF SysInv

\* Every step of log2producer and of tparser keeps the invariant.
LEMMA SysProducer ==
    ASSUME MaxDrop = 0, SysInv, ProducerStep
    PROVE  SysInv'
<1>1. ProducerNext /\ drops = 0 /\ BaseInv
  BY DEF ProducerStep, SysInv, BaseInv
<1>2. BaseInv' /\ ~ConnectionLost
  BY <1>1, BaseProducer, NoDrops
<1>3. Quiet
  <2>1. UNCHANGED <<nodeTip, nodePool, forgot>>
    BY DEF ProducerStep
  <2>2. ASSUME Handler PROVE log1' = log1
    BY <2>2 DEF Handler, HandleTxAccept, HandleTxReject, ClearMempoolTxs, HandleBlockAccept,
                BlockTx, BlockTxsDone, HandleBlockRollback, NextLine, envVars
  <2>3. ASSUME Statement PROVE log1' = log1
    BY <2>3 DEF Statement, MultiInsert, StartTransaction, InsertAccept, UpdateBatchId, SyncInsert,
                SyncDelete, UpdateLog1FileStatus, Commit, Goto, envVars
  <2>4. ASSUME Failure \/ RepeatInsert \/ Crash \/ Restart \/ HandleTxlog PROVE log1' = log1
    BY <2>4 DEF Failure, BlockFails, StatementFails, ClearFails, Die, Exit, RepeatInsert, Crash,
                Restart, InitLog2, InitWaits, LoadFails, DeleteTmp, HandleTxlog, envVars
  <2> QED BY <1>1, <1>2, <2>1, <2>2, <2>3, <2>4 DEF ProducerNext, Quiet
<1>4. CASE Handler
  BY <1>2, <1>3, <1>4, SysTxAccept, SysTxReject, SysClear, SysBlockAccept, SysBlockTx, SysBlockDone,
     SysRollback DEF Handler
<1>5. CASE Statement
  BY <1>2, <1>3, <1>5, SysMultiInsert, SysStart, SysInsertAccept, SysUpdate, SysSyncInsert,
     SysSyncDelete, SysStatus, SysCommit DEF Statement
<1>6. CASE Failure
  BY <1>2, <1>3, <1>6, SysFailure
<1>7. CASE RepeatInsert
  BY <1>2, <1>3, <1>7, SysRepeat
<1>8. CASE Crash
  BY <1>2, <1>3, <1>8, SysCrash
<1>9. CASE Restart
  BY <1>2, <1>3, <1>9, SysRestart
<1>10. CASE HandleTxlog
  BY <1>2, <1>3, <1>10, SysTxlog
<1> QED BY <1>1, <1>2, <1>4, <1>5, <1>6, <1>7, <1>8, <1>9, <1>10 DEF ProducerNext

\* Every step does.
LEMMA SysStep ==
    ASSUME MaxDrop = 0, SysInv, [SysNext]_sysVars
    PROVE  SysInv'
BY SysNode, SysProducer, SysSame DEF SysNext

\* The inductive invariant of node, log2producer and tparser holds in every run
\* without a connection lost inside a transaction.
THEOREM SysInvHolds ==
    ASSUME MaxDrop = 0
    PROVE  SysSpec => []SysInv
<1>1. SysInv /\ [SysNext]_sysVars => SysInv'
  BY SysStep
<1> QED BY <1>1, SysInitInv, PTL DEF SysSpec

-----------------------------------------------------------------------------
(* What follows from it. *)

\* No assert, exception or row-count check of log2producer fires on lines that
\* a node writes, wherever it crashes, unless MySQL ran an INSERT twice
\* (handleBlock(), handleBlockRollback(), removeTxs(), commitBatch(),
\* syncToDB(), clearMempoolTxs(), initLog2()).
THEOREM SystemNeverAborts ==
    ASSUME MaxDrop = 0
    PROVE  SysSpec => []NeverAborts
<1>1. SysInv => NeverAborts
  <2> SUFFICES ASSUME SysInv PROVE NeverAborts
    OBVIOUS
  <2>1. repeats = 0 => pc # "aborted"
    BY DEF SysInv, AbortInv
  <2>2. ASSUME pc = "block", vpos > Len(Vtx[log1[pos].item])
        PROVE  BlockTxsOK
    <3>1. PICK b : b = log1[pos].item
      OBVIOUS
    <3>2. InBlock(b)
      BY <2>2, <3>1, BlockFacts
    <3>3. b \in Block /\ vpos = Len(Vtx[b]) + 1 /\ First(b, vpos) \subseteq txs
      BY <2>2, <3>1, <3>2 DEF InBlock
    <3>4. BlockTxs(b) \subseteq txs
      BY <3>3, FirstEnds
    <3>5. \A i, j \in 1..Len(rejects) : i # j => rejects[i] # rejects[j]
      BY <2>2 DEF SysInv, BlockInv
    <3> QED BY <3>1, <3>4, <3>5 DEF BlockTxsOK
  <2> QED BY <2>1, <2>2 DEF NeverAborts
<1> QED BY <1>1, SysInvHolds, PTL

\* Between two lines, once tparser has caught up, its store holds the chain up
\* to log2producer's tip as confirmed and the memory repository as unconfirmed.
THEOREM StoreHoldsRepo ==
    ASSUME MaxDrop = 0
    PROVE  SysSpec => []StoreMatchesRepo
<1>1. SysInv => StoreMatchesRepo
  <2> SUFFICES ASSUME SysInv, pc = "idle", consumed = Len(disk.txlogs2)
               PROVE  /\ kvTip = cur
                      /\ {t \in Tx : kv[t] = "confirmed"} = ChainTxs(cur)
                      /\ {t \in Tx : kv[t] = "unconfirmed"} = txs
    BY DEF StoreMatchesRepo
  <2>1. cur = Tip(disk.offset) /\ disk.memrepo = txs
    BY IdleFacts
  <2>2. Abs = St(cur, txs) /\ kvTip = cur
    BY <2>1, CaughtUp
  <2>3. cur \in Block \cup {Begin} /\ txs \in SUBSET Tx
    BY SysTypes
  <2>4. Abs.conf = Solid(cur) /\ Abs.unc = txs
    BY <2>2, <2>3, StFacts
  <2>5. Solid(cur) \cap Tx = ChainTxs(cur)
    BY <2>3, SolidFacts
  <2>6. \A t \in Tx : (t \in Abs.conf <=> kv[t] = "confirmed") /\ (t \in Abs.unc <=> kv[t] = "unconfirmed")
    BY AbsFacts DEF SysInv, BaseInv
  <2> QED BY <2>2, <2>3, <2>4, <2>5, <2>6
<1> QED BY <1>1, SysInvHolds, PTL

\* Once every line is handled, log2producer is at the node's tip, with the
\* node's pool unless the node did not take back the transactions of an undone
\* block.
THEOREM RepoFollowsNode ==
    ASSUME MaxDrop = 0
    PROVE  SysSpec => []RepoMatchesNode
<1>1. SysInv => RepoMatchesNode
  <2> SUFFICES ASSUME SysInv, pc = "idle", pos = Len(log1)
               PROVE  cur = nodeTip /\ (forgot \/ txs = nodePool)
    BY DEF RepoMatchesNode
  <2>1. cur = nodeTip
    BY IdleFacts DEF SysInv, LinesInv
  <2>2. ASSUME ~forgot PROVE txs = nodePool
    <3>1. PICK P : P[Len(log1)] = nodePool /\ PoolNow(P)
      BY <2>2 DEF SysInv, PoolInv
    <3> QED BY <3>1 DEF PoolNow
  <2> QED BY <2>1, <2>2
<1> QED BY <1>1, SysInvHolds, PTL

\* tparser finds the outputs that a present transaction spends, unless the node
\* did not take back the transactions of an undone block.
THEOREM ParentsArePresent ==
    ASSUME MaxDrop = 0
    PROVE  SysSpec => []ParentsPresent
<1>1. SysInv => ParentsPresent
  <2> SUFFICES ASSUME SysInv, ~forgot, NEW c \in Tx, kv[c] # "absent", NEW p \in Parents(c)
               PROVE  kv[p] # "absent"
    BY DEF ParentsPresent
  <2>1. \A x \in Tx \cup Block : x \in All(Abs) <=> kv[x] # "absent"
    BY AbsFacts DEF SysInv, BaseInv
  <2>2. ParentsIn(Abs)
    BY DEF SysInv, ParentsInv
  <2>3. p \in Tx
    BY DEF Parents
  <2> QED BY <2>1, <2>2, <2>3 DEF ParentsIn
<1> QED BY <1>1, SysInvHolds, PTL

\* log2producer, the tables and tparser implement TxLedger: whatever the node
\* does and wherever log2producer crashes, the rows tparser consumes are a
\* legal history of every transaction and block.
THEOREM RowsRunLedger ==
    ASSUME MaxDrop = 0
    PROVE  SysSpec => RowsFollowLedger
<1>1. SysInit => Ledger!LedgerInit
  BY DEF SysInit, Init, Ledger!LedgerInit
<1>2. ASSUME SysInv, SysInv', [SysNext]_sysVars
      PROVE  [Ledger!LedgerNext]_(Ledger!ledgerVars)
  <2>1. CASE HandleTxlog
    <3>1. PICK r \in Row : r = disk.txlogs2[consumed + 1] /\ RowOK(forgot, Abs, r)
      BY <1>2, <2>1, NextRow
    <3>2. TypeInv /\ TypeInv'
      BY <1>2 DEF SysInv, BaseInv
    <3>3. CASE r.tx \in Tx /\ TxOK(forgot, Abs, r)
      BY <2>1, <3>1, <3>2, <3>3, LedgerTx
    <3>4. CASE r.tx \in Block /\ CoinbaseOK(Abs, r)
      BY <2>1, <3>1, <3>2, <3>4, LedgerCoinbase
    <3> QED BY <3>1, <3>3, <3>4 DEF RowOK
  <2>2. CASE ~HandleTxlog
    <3>1. ASSUME Handler PROVE UNCHANGED kvVars
      BY <3>1 DEF Handler, HandleTxAccept, HandleTxReject, ClearMempoolTxs, HandleBlockAccept,
                  BlockTx, BlockTxsDone, HandleBlockRollback, NextLine
    <3>2. ASSUME Statement PROVE UNCHANGED kvVars
      BY <3>2 DEF Statement, MultiInsert, StartTransaction, InsertAccept, UpdateBatchId, SyncInsert,
                  SyncDelete, UpdateLog1FileStatus, Commit, Goto
    <3>3. ASSUME Failure \/ ConnectionLost \/ RepeatInsert \/ Crash \/ Restart PROVE UNCHANGED kvVars
      BY <3>3 DEF Failure, BlockFails, StatementFails, ClearFails, Die, Exit, ConnectionLost,
                  RepeatInsert, Crash, Restart, InitLog2, InitWaits, LoadFails, DeleteTmp
    <3>4. UNCHANGED kvVars
      BY <1>2, <2>2, <3>1, <3>2, <3>3
         DEF SysNext, NodeStep, ProducerStep, ProducerNext, sysVars, vars
    <3> QED BY <3>4 DEF kvVars, Ledger!ledgerVars
  <2> QED BY <2>1, <2>2
<1> QED BY <1>1, <1>2, SysInvHolds, PTL DEF SysSpec, RowsFollowLedger, Ledger!LedgerSpec
=============================================================================
