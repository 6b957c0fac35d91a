------------------------- MODULE AddressIndexProofs -------------------------
(***************************************************************************)
(* AddressIndex for every graph, every payment of addresses and every      *)
(* bound: the invariant of AddressInvariants is inductive, and what it     *)
(* says of the cache, the ledger, the lists with their order and totals,   *)
(* the keys, and the unspent outputs.                                      *)
(*                                                                         *)
(* Of the cache, the lemmas on phases show that "flush" is never jumped    *)
(* over while it has something to do.                                      *)
(***************************************************************************)
EXTENDS AddressInvariants, FiniteSetTheorems, TLAPS

-----------------------------------------------------------------------------
(* The phases of the handlers. *)

\* In program P of length n, "list" has number l and "flush" number f, between
\* them and on "flush" are the phases L, "save" is last, and no phase occurs twice.
ProgramOK(P, n, l, f, L) ==
    /\ n \in 1..9 /\ l \in 1..n /\ f \in 1..n /\ l < f /\ f + 2 <= n
    /\ P[n] = "save" /\ P[l] = "list" /\ P[f] = "flush"
    /\ \A i \in 1..n : /\ P[i] \in Phases
                       /\ P[i] \in BeforeFlush <=> i < f
                       /\ P[i] \in L <=> (l < i /\ i <= f)
    /\ \A i, j \in 1..n : P[i] = P[j] => i = j

\* The programs of the four handlers have that shape.
LEMMA ProgramFacts ==
    /\ DOMAIN Program = Types
    /\ \A t \in Types :
        ProgramOK(Program[t], Len(Program[t]), ListNo(t), FlushNo(t), Listed(t))
<1>1. DOMAIN Program = Types
  BY DEF Program, Types
<1>2. ASSUME NEW t \in Types
      PROVE  ProgramOK(Program[t], Len(Program[t]), ListNo(t), FlushNo(t), Listed(t))
  <2> DEFINE P == Program[t]
  <2>1. CASE t = "accept"
    <3>1. P = <<"outputs", "object", "inputs", "spends", "list", "mempool",
                  "flush", "pool", "save">>
      BY <2>1 DEF Program
    <3>2. ListNo(t) = 5 /\ FlushNo(t) = 7 /\ Listed(t) = {"mempool", "flush"}
      BY <2>1 DEF ListNo, FlushNo, Listed
    <3>3. /\ P[1] = "outputs" /\ P[2] = "object" /\ P[3] = "inputs" /\ P[4] = "spends"
          /\ P[5] = "list" /\ P[6] = "mempool" /\ P[7] = "flush" /\ P[8] = "pool" /\ P[9] = "save"
      BY <3>1
    <3>4. Len(P) = 9
      BY <3>1
    <3> HIDE DEF P
    <3>5. ProgramOK(P, 9, 5, 7, {"mempool", "flush"})
      BY <3>3 DEF ProgramOK, BeforeFlush, Phases
    <3> QED BY <3>2, <3>4, <3>5 DEF P
  <2>2. CASE t = "confirm" \/ t = "unconfirm"
    <3>1. P = <<"list", "object", "flush", "pool", "save">>
      BY <2>2 DEF Program
    <3>2. ListNo(t) = 1 /\ FlushNo(t) = 3 /\ Listed(t) = {"object", "flush"}
      BY <2>2 DEF ListNo, FlushNo, Listed
    <3>3. P[1] = "list" /\ P[2] = "object" /\ P[3] = "flush" /\ P[4] = "pool" /\ P[5] = "save"
      BY <3>1
    <3>4. Len(P) = 5
      BY <3>1
    <3> HIDE DEF P
    <3>5. ProgramOK(P, 5, 1, 3, {"object", "flush"})
      BY <3>3 DEF ProgramOK, BeforeFlush, Phases
    <3> QED BY <3>2, <3>4, <3>5 DEF P
  <2>3. CASE t = "reject"
    <3>1. P = <<"spends", "inputs", "outputs", "object", "list", "flush", "pool", "save">>
      BY <2>3 DEF Program
    <3>2. ListNo(t) = 5 /\ FlushNo(t) = 6 /\ Listed(t) = {"flush"}
      BY <2>3 DEF ListNo, FlushNo, Listed
    <3>3. /\ P[1] = "spends" /\ P[2] = "inputs" /\ P[3] = "outputs" /\ P[4] = "object"
          /\ P[5] = "list" /\ P[6] = "flush" /\ P[7] = "pool" /\ P[8] = "save"
      BY <3>1
    <3>4. Len(P) = 8
      BY <3>1
    <3> HIDE DEF P
    <3>5. ProgramOK(P, 8, 5, 6, {"flush"})
      BY <3>3 DEF ProgramOK, BeforeFlush, Phases
    <3> QED BY <3>2, <3>4, <3>5 DEF P
  <2> QED BY <2>1, <2>2, <2>3 DEF Types
<1> QED BY <1>1, <1>2

\* A number between 1 and 9 of a set of such numbers is the least.
LEMMA LeastExists ==
    ASSUME NEW S, S \subseteq 1..9, S # {}
    PROVE  Min(S) \in S /\ \A y \in S : Min(S) <= y
<1>1. \E x \in S : \A y \in S : x <= y
  <2>1. PICK z \in S : TRUE
    OBVIOUS
  <2> QED BY <2>1
<1> QED BY <1>1 DEF Min

\* Where a handler goes: to the first phase from i on with work.
LEMMA GotoFacts ==
    ASSUME NEW r \in Rows, NEW i \in 1..Len(Program[r.type]), GotoPhase(r, i)
    PROVE  \E k \in i..Len(Program[r.type]) :
            /\ pc' = Program[r.type][k]
            /\ todo' = Work(pc', r.tx) /\ todo' # {}
            /\ \A j \in i..(k - 1) : Work(Program[r.type][j], r.tx) = {}
<1> PICK P : P = Program[r.type]
  OBVIOUS
<1> PICK n : n = Len(Program[r.type])
  OBVIOUS
<1> DEFINE S == {j \in i..n : Work(P[j], r.tx) # {}}
<1>1. n \in 1..9 /\ P[n] = "save"
  BY ProgramFacts DEF Rows, ProgramOK
<1>2. i \in 1..n
  OBVIOUS
<1>3. Work(P[n], r.tx) # {}
  BY <1>1 DEF Work
<1>4. n \in S
  <2>1. n \in i..n
    BY <1>1, <1>2
  <2> QED BY <1>3, <2>1
<1>5. S \subseteq 1..9
  <2>1. i..n \subseteq 1..9
    BY ONLY <1>1, <1>2
  <2> QED BY <2>1
<1>6. PICK k : k = Min(S)
  OBVIOUS
<1>7. k \in S /\ \A y \in S : k <= y
  BY <1>4, <1>5, <1>6, LeastExists
<1>8. pc' = P[k] /\ todo' = Work(P[k], r.tx)
  BY <1>6 DEF GotoPhase
<1>9. k \in i..n /\ Work(P[k], r.tx) # {}
  BY <1>7
<1>10. ASSUME NEW j \in i..(k - 1) PROVE Work(P[j], r.tx) = {}
  <2>1. j \in i..n /\ ~(k <= j)
    BY <1>1, <1>2, <1>9
  <2>2. j \notin S
    BY <1>7, <2>1
  <2> QED BY <2>1, <2>2
<1> QED BY <1>8, <1>9, <1>10

-----------------------------------------------------------------------------
(* Where the handler of a row is. *)

\* A row is not "no row".
LEMMA NoRowFacts == NoRow \notin Rows /\ \A r \in Rows : r.type \in Types /\ r.tx \in Item
<1>1. "none" \notin DOMAIN Program
  BY ProgramFacts DEF Types
<1>2. NoRow.type = "none"
  BY DEF NoRow
<1> QED BY <1>1, <1>2, ProgramFacts DEF Rows

\* The phases "list" and "flush" go through the addresses of the transaction.
LEMMA WorkFacts ==
    ASSUME NEW x
    PROVE  Work("list", x) = Affected(x) /\ Work("flush", x) = Affected(x)
BY DEF Work

\* The number of the phase that a handler is in.
LEMMA PhaseNoFacts ==
    ASSUME InPhase
    PROVE  /\ PhaseNo \in 1..Len(Program[row.type]) /\ Program[row.type][PhaseNo] = pc
           /\ pc # "save" => PhaseNo + 1 \in 1..Len(Program[row.type])
<1>1. PhaseNo \in 1..Len(Program[row.type]) /\ Program[row.type][PhaseNo] = pc
  BY DEF InPhase, PhaseOf, PhaseNo
<1>2. PICK n : n = Len(Program[row.type])
  OBVIOUS
<1>3. PICK k : k = PhaseNo
  OBVIOUS
<1>4. n \in 1..9 /\ Program[row.type][n] = "save"
  BY <1>2, ProgramFacts DEF InPhase, Rows, ProgramOK
<1>5. ASSUME pc # "save" PROVE k # n
  BY <1>1, <1>3, <1>4, <1>5
<1>6. ASSUME pc # "save" PROVE k + 1 \in 1..n
  BY <1>1, <1>2, <1>3, <1>4, <1>5, <1>6
<1> QED BY <1>1, <1>2, <1>3, <1>6

\* After a jump the handler is in a phase, and no address that counts as
\* recorded is left out: the phases that were jumped over had nothing to do.
LEMMA Arrive ==
    ASSUME NEW r \in Rows, NEW i \in 1..Len(Program[r.type]), GotoPhase(r, i), row' = r
    PROVE  /\ pc' \in Phases /\ InPhase'
           /\ todo' = Work(pc', r.tx)
           /\ pc' \in BeforeFlush => i < FlushNo(r.type)
           /\ \A a \in Affected(r.tx) :
                /\ i <= FlushNo(r.type) => Unflushed(a)'
                /\ i > FlushNo(r.type) => ~Unflushed(a)' /\ ~Recorded(a)'
                /\ i <= ListNo(r.type) => ~Recorded(a)'
<1> PICK P : P = Program[r.type]
  OBVIOUS
<1> PICK n : n = Len(Program[r.type])
  OBVIOUS
<1> PICK l : l = ListNo(r.type)
  OBVIOUS
<1> PICK f : f = FlushNo(r.type)
  OBVIOUS
<1> PICK L : L = Listed(r.type)
  OBVIOUS
<1>1. PICK k \in i..n :
         /\ pc' = P[k] /\ todo' = Work(pc', r.tx) /\ todo' # {}
         /\ \A j \in i..(k - 1) : Work(P[j], r.tx) = {}
  BY GotoFacts
<1>2. ProgramOK(P, n, l, f, L)
  BY ProgramFacts DEF Rows
<1>3. i \in 1..n /\ k \in 1..n
  BY <1>1, <1>2 DEF ProgramOK
<1>4. pc' \in Phases
  BY <1>1, <1>2, <1>3 DEF ProgramOK
<1>5. PhaseOf(r, pc')
  BY <1>1, <1>3 DEF PhaseOf
<1>6. InPhase'
  BY <1>1, <1>5 DEF InPhase
<1>7. ASSUME NEW a \in Affected(r.tx)
      PROVE  /\ i <= f => Unflushed(a)'
             /\ i > f => ~Unflushed(a)' /\ ~Recorded(a)'
             /\ i <= l => ~Recorded(a)'
  <2>1. Work(P[l], r.tx) = Affected(r.tx) /\ Work(P[f], r.tx) = Affected(r.tx)
    <3>1. P[l] = "list" /\ P[f] = "flush"
      BY <1>2 DEF ProgramOK
    <3> QED BY <3>1 DEF Work
  <2>2. l \in 1..n /\ f \in 1..n /\ n \in 1..9
    BY <1>2 DEF ProgramOK
  <2>3. ASSUME i <= f PROVE k <= f
    <3>1. SUFFICES ASSUME f \in i..(k - 1) PROVE FALSE
      BY <1>1, <1>3, <2>2, <2>3
    <3> QED BY <1>1, <2>1, <3>1
  <2>4. ASSUME i <= l PROVE k <= l
    <3>1. SUFFICES ASSUME l \in i..(k - 1) PROVE FALSE
      BY <1>1, <1>3, <2>2, <2>4
    <3> QED BY <1>1, <2>1, <3>1
  <2>5. pc' \in BeforeFlush <=> k < f
    BY <1>1, <1>2, <1>3 DEF ProgramOK
  <2>6. pc' = "flush" <=> k = f
    BY <1>1, <1>2, <1>3 DEF ProgramOK
  <2>7. pc' \in L <=> (l < k /\ k <= f)
    BY <1>1, <1>2, <1>3 DEF ProgramOK
  <2>8. ASSUME i <= f PROVE Unflushed(a)'
    <3>1. k < f \/ k = f
      BY <1>3, <2>2, <2>3, <2>8
    <3>2. pc' = "flush" => a \in todo'
      BY <1>1, <2>1, <2>6
    <3> QED BY <2>5, <2>6, <3>1, <3>2 DEF Unflushed
  <2>9. ASSUME i > f PROVE ~Unflushed(a)' /\ ~Recorded(a)'
    <3>1. ~(k < f) /\ k # f /\ ~(k <= f)
      BY <1>1, <1>3, <2>2, <2>9
    <3>2. pc' # "list"
      BY <2>5, <3>1 DEF BeforeFlush
    <3> QED BY <2>5, <2>6, <2>7, <3>1, <3>2 DEF Unflushed, Recorded
  <2>10. ASSUME i <= l PROVE ~Recorded(a)'
    <3>1. ~(l < k)
      BY <1>3, <2>2, <2>4, <2>10
    <3>2. pc' = "list" => a \in todo'
      BY <1>1, <2>1 DEF Work
    <3> QED BY <2>7, <3>1, <3>2 DEF Recorded
  <2> QED BY <2>8, <2>9, <2>10
<1>8. ASSUME pc' \in BeforeFlush PROVE i < f
  <2>1. k < f
    BY <1>1, <1>2, <1>3, <1>8 DEF ProgramOK
  <2>2. f \in 1..n /\ n \in 1..9
    BY <1>2 DEF ProgramOK
  <2> QED BY <1>1, <1>3, <2>1, <2>2
<1> QED BY <1>1, <1>4, <1>6, <1>7, <1>8

\* The end of a round: the handler stays in a phase, an address counts as
\* flushed after its round of "flush" and as recorded after its round of "list".
LEMMA Advance ==
    ASSUME InPhase, pc \in Phases, pc # "save", NEW e \in todo, Done(e)
    PROVE  /\ pc' \in Phases /\ InPhase' /\ row' = row
           /\ pc' \in BeforeFlush => pc \in BeforeFlush
           /\ \A a \in Affected(row.tx) :
                /\ Unflushed(a)' <=> (Unflushed(a) /\ (pc = "flush" => a # e))
                /\ Recorded(a)' => (Recorded(a) \/ (pc = "list" /\ a = e))
<1>1. row' = row /\ row \in Rows
  BY DEF Done, InPhase
<1>2. CASE todo # {e}
  <2>1. pc' = pc /\ todo' = todo \ {e}
    BY <1>2 DEF Done
  <2>2. todo' # {} /\ todo' \subseteq Work(pc, row.tx)
    BY <1>2, <2>1 DEF InPhase
  <2>3. InPhase'
    BY <1>1, <2>1, <2>2 DEF InPhase
  <2>4. ASSUME NEW a \in Affected(row.tx)
        PROVE  /\ Unflushed(a)' <=> (Unflushed(a) /\ (pc = "flush" => a # e))
               /\ Recorded(a)' => (Recorded(a) \/ (pc = "list" /\ a = e))
    <3>1. pc = "flush" => pc \notin BeforeFlush
      BY DEF BeforeFlush
    <3> QED BY <1>1, <2>1, <3>1 DEF Unflushed, Recorded
  <2> QED BY <1>1, <2>1, <2>3, <2>4
<1>3. CASE todo = {e}
  <2>1. GotoPhase(row, PhaseNo + 1)
    BY <1>3 DEF Done
  <2> PICK m : m = PhaseNo
    OBVIOUS
  <2> PICK n : n = Len(Program[row.type])
    OBVIOUS
  <2> PICK l : l = ListNo(row.type)
    OBVIOUS
  <2> PICK f : f = FlushNo(row.type)
    OBVIOUS
  <2> PICK P : P = Program[row.type]
    OBVIOUS
  <2> PICK i : i = m + 1
    OBVIOUS
  <2>2. m \in 1..n /\ P[m] = pc /\ i \in 1..n
    BY PhaseNoFacts
  <2>3. /\ pc' \in Phases /\ InPhase'
        /\ pc' \in BeforeFlush => i < f
        /\ \A a \in Affected(row.tx) :
             /\ i <= f => Unflushed(a)'
             /\ i > f => ~Unflushed(a)' /\ ~Recorded(a)'
             /\ i <= l => ~Recorded(a)'
    <3>1. i \in 1..Len(Program[row.type]) /\ GotoPhase(row, i)
      BY <2>1, <2>2
    <3> QED BY <1>1, <3>1, Arrive
  <2>4. ProgramOK(P, n, l, f, Listed(row.type))
    BY <1>1, ProgramFacts DEF Rows
  <2>5. n \in 1..9 /\ l \in 1..n /\ f \in 1..n /\ l < f
    BY <2>4 DEF ProgramOK
  <2>6. /\ pc \in BeforeFlush <=> m < f
        /\ pc = "flush" <=> m = f
        /\ pc = "list" <=> m = l
        /\ pc \in Listed(row.type) <=> (l < m /\ m <= f)
    BY <2>2, <2>4 DEF ProgramOK
  <2>7. ASSUME NEW a \in Affected(row.tx)
        PROVE  /\ Unflushed(a)' <=> (Unflushed(a) /\ (pc = "flush" => a # e))
               /\ Recorded(a)' => (Recorded(a) \/ (pc = "list" /\ a = e))
    <3>1. m < f <=> i <= f
      BY <2>2, <2>5
    <3>2. ~(i <= f) <=> i > f
      BY <2>2, <2>5
    <3>3. Unflushed(a)' <=> m < f
      BY <2>3, <3>1, <3>2
    <3>4. Unflushed(a) /\ (pc = "flush" => a # e) <=> m < f
      <4>1. m < f => m # f
        BY <2>2, <2>5
      <4> QED BY <1>3, <2>6, <4>1 DEF Unflushed
    <3>5. ASSUME Recorded(a)' PROVE Recorded(a) \/ (pc = "list" /\ a = e)
      <4>1. ~(i <= l) /\ ~(i > f)
        BY <2>3, <3>5
      <4>2. m = l \/ (l < m /\ m <= f)
        BY <2>2, <2>5, <4>1
      <4> QED BY <1>3, <2>6, <4>2 DEF Recorded
    <3> QED BY <3>3, <3>4, <3>5
  <2>8. i < f => m < f
    BY <2>2, <2>5
  <2> QED BY <1>1, <2>3, <2>6, <2>7, <2>8
<1> QED BY <1>2, <1>3

-----------------------------------------------------------------------------
(* The addresses of a transaction. *)

\* The entries of outputs: an output and a position in its addresses.
LEMMA EntryFacts ==
    ASSUME NEW O \in SUBSET Outpoint, NEW e \in Entries(O)
    PROVE  e[1] \in O /\ e = <<e[1], e[2]>> /\ AddressOf(e) \in Address
<1>1. PICK o \in O : \E j \in 1..Len(PayTo[o]) : e = <<o, j>>
  BY DEF Entries
<1>2. PICK j \in 1..Len(PayTo[o]) : e = <<o, j>>
  BY <1>1
<1>3. PayTo[o] \in Seq(Address)
  BY AddressAssumption
<1>4. PayTo[o][j] \in Address
  BY <1>2, <1>3
<1>5. e[1] = o /\ e[2] = j
  BY <1>2
<1> QED BY <1>2, <1>4, <1>5 DEF AddressOf

\* The addresses of an item, and those of the rounds of its phases.
LEMMA AffectedFacts ==
    ASSUME NEW x \in Item
    PROVE  /\ Outs(x) \in SUBSET Outpoint /\ Ins(x) \in SUBSET Outpoint
           /\ Affected(x) \subseteq Address
           /\ \A e \in Entries(Outs(x)) \cup Entries(Ins(x)) :
                AddressOf(e) \in Affected(x) /\ e[1] \in Outpoint
<1>1. Outs(x) \in SUBSET Outpoint /\ Ins(x) \in SUBSET Outpoint
  BY AddressAssumption, TxGraphAssumption DEF Outs, Ins, Item
<1>2. Ins(x) \cup Outs(x) \in SUBSET Outpoint
  BY <1>1
<1>3. \A e \in Entries(Ins(x) \cup Outs(x)) : AddressOf(e) \in Address /\ e[1] \in Outpoint
  BY <1>2, EntryFacts
<1>4. Entries(Outs(x)) \cup Entries(Ins(x)) \subseteq Entries(Ins(x) \cup Outs(x))
  BY DEF Entries
<1>5. Affected(x) \subseteq Address
  BY <1>3 DEF Affected
<1>6. \A e \in Entries(Ins(x) \cup Outs(x)) : AddressOf(e) \in Affected(x)
  BY DEF Affected
<1> QED BY <1>1, <1>3, <1>4, <1>5, <1>6

-----------------------------------------------------------------------------
(* The types of the store and of the cache. *)

\* One round's change of an address object from c to d.
Touched(t, c, d) ==
    /\ t = "accept" =>
        \/ d.unspentTxIndex = c.unspentTxIndex + 1 /\ d.txCount = c.txCount
        \/ d.unspentTxIndex = c.unspentTxIndex /\ d.txCount = c.txCount + 1
        \/ /\ d.unspentTxIndex = c.unspentTxIndex /\ d.txCount = c.txCount
           /\ d.unspentTxCount = c.unspentTxCount - 1
    /\ t = "confirm" => d.unconfirmedTxCount = c.unconfirmedTxCount - 1
    /\ t = "unconfirm" => d.unconfirmedTxCount = c.unconfirmedTxCount + 1
    /\ t = "reject" =>
        \/ d.unspentTxIndex = c.unspentTxIndex + 1 /\ d.txCount = c.txCount
        \/ d.unspentTxIndex = c.unspentTxIndex /\ d.txCount = c.txCount - 1

\* Changes of one row add up to a change.
LEMMA TouchedChanges ==
    ASSUME NEW t \in Types, NEW s, NEW c, NEW d, InfoOK(s), InfoOK(c), InfoOK(d),
           c = s \/ Changed(t, c, s), Touched(t, c, d)
    PROVE  Changed(t, d, s)
<1>1. CASE c = s
  BY <1>1 DEF Changed, Touched, InfoOK, Types
<1>2. CASE Changed(t, c, s)
  BY <1>2 DEF Changed, Touched, InfoOK, Types
<1> QED BY <1>1, <1>2

\* A changed object is another one.
LEMMA ChangedDiffers ==
    ASSUME NEW t \in Types, NEW s, InfoOK(s)
    PROVE  ~Changed(t, s, s)
BY DEF Changed, InfoOK, Types

\* What Put does: the object of a is info, other objects stay or are dropped,
\* and an object is dropped only when a was not cached.
LEMMA PutFacts ==
    ASSUME NEW a, NEW info, Put(a, info)
    PROVE  /\ a \in DOMAIN cache' /\ DOMAIN cache' \subseteq DOMAIN cache \cup {a}
           /\ cache'[a] = info
           /\ \A b \in DOMAIN cache' \ {a} : cache'[b] = cache[b]
           /\ loaded \subseteq loaded' /\ loaded' \subseteq loaded \cup {a}
           /\ a \in DOMAIN cache => loaded' = loaded
           /\ \A b \in DOMAIN cache \ DOMAIN cache' :
                a \notin DOMAIN cache /\ b \in Droppable
<1>1. PICK gone \in IF a \in DOMAIN cache \/ evicts = MaxEvict THEN {{}} ELSE SUBSET Droppable :
        /\ cache' = With([b \in DOMAIN cache \ gone |-> cache[b]], a, info)
        /\ loaded' = IF a \in DOMAIN cache THEN loaded ELSE loaded \cup {a}
  BY DEF Put
<1>2. DOMAIN cache' = (DOMAIN cache \ gone) \cup {a}
  BY <1>1 DEF With
<1>3. cache'[a] = info /\ \A b \in DOMAIN cache' \ {a} : cache'[b] = cache[b]
  BY <1>1, <1>2 DEF With
<1>4. \A b \in DOMAIN cache \ DOMAIN cache' : a \notin DOMAIN cache /\ b \in Droppable
  <2>1. \A b \in DOMAIN cache \ DOMAIN cache' : b \in gone
    BY <1>2
  <2>2. gone # {} => a \notin DOMAIN cache /\ gone \subseteq Droppable
    BY <1>1
  <2> QED BY <2>1, <2>2
<1>5. /\ loaded \subseteq loaded' /\ loaded' \subseteq loaded \cup {a}
      /\ a \in DOMAIN cache => loaded' = loaded
  BY <1>1
<1> QED BY <1>2, <1>3, <1>4, <1>5

-----------------------------------------------------------------------------
(* The invariant of the cache. *)

\* A cleaning keeps what the row has changed, when it drops only unchanged objects.
LEMMA ChangedStays ==
    ASSUME CacheTyped, StoreOK(store), ~EvictDirty, NEW t \in Types,
           NEW b \in DOMAIN cache, Changed(t, cache[b], store.addr[b])
    PROVE  b \notin Droppable
<1>1. b \in Address /\ InfoOK(store.addr[b])
  BY DEF CacheTyped, StoreOK
<1>2. cache[b] # store.addr[b]
  BY <1>1, ChangedDiffers
<1> QED BY <1>2 DEF Droppable

\* A round that changes the object of an address in the cache.
LEMMA TouchStep ==
    ASSUME CacheInv, pc \in BeforeFlush, NEW e \in todo, Done(e),
           NEW a \in Affected(row.tx), pc = "list" => a = e,
           NEW info, Put(a, info), InfoOK(info),
           Touched(row.type, GetAddressInfo(a), info),
           StoreOK(store'), store'.addr = store.addr, store'.pool = store.pool, count' = count
    PROVE  CacheInv'
<1> USE DEF CacheInv
<1>1. /\ pc \in Phases /\ pc # "flush" /\ pc # "save" /\ pc # "down" /\ InPhase
      /\ row \in Rows /\ row.type \in Types /\ row.tx \in Item
  <2>1. pc \in Phases /\ pc # "flush" /\ pc # "save" /\ pc # "down"
    BY DEF BeforeFlush, Phases
  <2> QED BY <2>1, NoRowFacts DEF Control, InPhase
<1>2. a \in Address /\ Affected(row.tx) \subseteq Address
  BY <1>1, AffectedFacts
<1>3. /\ pc' \in Phases /\ InPhase' /\ row' = row
      /\ \A b \in Affected(row.tx) :
            /\ Unflushed(b)' <=> (Unflushed(b) /\ (pc = "flush" => b # e))
            /\ Recorded(b)' => (Recorded(b) \/ (pc = "list" /\ b = e))
  BY <1>1, Advance
<1>4. \A b \in Affected(row.tx) : Unflushed(b) /\ Unflushed(b)'
  BY <1>1, <1>3 DEF Unflushed
<1>5. /\ a \in DOMAIN cache' /\ DOMAIN cache' \subseteq DOMAIN cache \cup {a}
      /\ cache'[a] = info
      /\ \A b \in DOMAIN cache' \ {a} : cache'[b] = cache[b]
      /\ loaded \subseteq loaded' /\ loaded' \subseteq loaded \cup {a}
      /\ \A b \in DOMAIN cache \ DOMAIN cache' : b \in Droppable
  BY PutFacts
<1>6. Changed(row.type, info, store.addr[a])
  <2>1. InfoOK(store.addr[a])
    BY <1>2 DEF StoreOK
  <2>2. /\ InfoOK(GetAddressInfo(a))
        /\ GetAddressInfo(a) = store.addr[a] \/ Changed(row.type, GetAddressInfo(a), store.addr[a])
    BY <1>1, <2>1 DEF GetAddressInfo, CacheTyped, CacheExplained, Explained
  <2> QED BY <1>1, <2>1, <2>2, TouchedChanges
<1>7. Control'
  BY <1>3, <1>1, NoRowFacts DEF Control, InPhase, Phases
<1>8. CacheTyped'
  <2>1. ASSUME NEW b \in DOMAIN cache' PROVE b \in Address /\ InfoOK(cache'[b])
    BY <1>2, <1>5 DEF CacheTyped
  <2> QED BY <2>1 DEF CacheTyped
<1>9. CacheExplained'
  <2>1. ASSUME NEW b \in DOMAIN cache' PROVE Explained(b)'
    <3>1. CASE b = a
      BY <1>3, <1>4, <1>5, <1>6, <3>1 DEF Explained
    <3>2. CASE b # a
      <4>1. b \in DOMAIN cache /\ cache'[b] = cache[b] /\ Explained(b)
        BY <1>1, <1>5, <3>2 DEF CacheExplained
      <4>2. Unflushed(b) => Unflushed(b)'
        BY <1>4 DEF Unflushed
      <4> QED BY <1>3, <4>1, <4>2 DEF Explained
    <3> QED BY <3>1, <3>2
  <2> QED BY <2>1 DEF CacheExplained
<1>10. LoadedKept'
  <2>1. ASSUME NEW b \in loaded PROVE b \in DOMAIN cache'
    <3>1. b \in DOMAIN cache /\ Changed(row.type, cache[b], store.addr[b])
      BY DEF LoadedKept
    <3>2. b \notin Droppable
      <4>1. CASE EvictDirty
        BY <4>1 DEF Droppable
      <4>2. CASE ~EvictDirty
        BY <1>1, <3>1, <4>2, ChangedStays
      <4> QED BY <4>1, <4>2
    <3> QED BY <1>5, <3>1, <3>2
  <2>2. loaded' \subseteq DOMAIN cache'
    BY <1>5, <2>1
  <2>3. ASSUME NEW b \in loaded' PROVE Changed(row.type, cache'[b], store'.addr[b])
    <3>1. CASE b = a
      BY <1>5, <1>6, <3>1
    <3>2. CASE b # a
      BY <1>5, <2>2, <3>2 DEF LoadedKept
    <3> QED BY <3>1, <3>2
  <2> QED BY <1>3, <2>2, <2>3 DEF LoadedKept
<1>11. RecordedKept'
  <2>1. ASSUME ~EvictDirty, NEW b \in Affected(row.tx), Recorded(b)'
        PROVE  b \in DOMAIN cache' /\ Changed(row.type, cache'[b], store'.addr[b])
    <3>1. CASE b = a
      BY <1>5, <1>6, <3>1
    <3>2. CASE b # a
      <4>1. Recorded(b)
        BY <1>3, <2>1, <3>2
      <4>2. b \in DOMAIN cache /\ Changed(row.type, cache[b], store.addr[b])
        BY <1>1, <1>4, <2>1, <4>1 DEF RecordedKept
      <4>3. b \notin Droppable
        BY <1>1, <2>1, <4>2, ChangedStays
      <4> QED BY <1>5, <3>2, <4>2, <4>3
    <3> QED BY <3>1, <3>2
  <2> QED BY <1>3, <2>1 DEF RecordedKept
<1>12. CountSaved'
  BY <1>1, <1>3 DEF CountSaved, Phases
<1> QED BY <1>7, <1>8, <1>9, <1>10, <1>11, <1>12

\* A round that leaves the cache alone.
LEMMA KeepStep ==
    ASSUME CacheInv, pc \in Phases, pc \notin {"list", "flush", "save"},
           NEW e \in todo, Done(e), KeepCache,
           StoreOK(store'), store'.addr = store.addr, count' = store'.pool
    PROVE  CacheInv'
<1> USE DEF CacheInv
<1>1. InPhase /\ row \in Rows
  BY DEF Control, InPhase
<1>2. /\ pc' \in Phases /\ InPhase' /\ row' = row
      /\ pc' \in BeforeFlush => pc \in BeforeFlush
      /\ \A b \in Affected(row.tx) :
            /\ Unflushed(b)' <=> (Unflushed(b) /\ (pc = "flush" => b # e))
            /\ Recorded(b)' => (Recorded(b) \/ (pc = "list" /\ b = e))
  BY <1>1, Advance
<1>3. \A b : /\ Unflushed(b)' <=> Unflushed(b)
             /\ Recorded(b)' => Recorded(b)
  <2>1. \A b : (Unflushed(b) \/ Unflushed(b)' \/ Recorded(b)') => b \in Affected(row.tx)
    BY <1>2 DEF Unflushed, Recorded
  <2> QED BY <1>2, <2>1
<1>4. cache' = cache /\ loaded' = loaded
  BY DEF KeepCache
<1>5. Control'
  BY <1>2, <1>1, NoRowFacts DEF Control, InPhase, Phases
<1>6. CacheTyped'
  BY <1>4 DEF CacheTyped
<1>7. CacheExplained'
  BY <1>2, <1>3, <1>4 DEF CacheExplained, Explained
<1>8. LoadedKept'
  BY <1>2, <1>4 DEF LoadedKept
<1>9. RecordedKept'
  BY <1>2, <1>3, <1>4 DEF RecordedKept
<1>10. CountSaved'
  BY <1>2 DEF CountSaved, Phases
<1> QED BY <1>5, <1>6, <1>7, <1>8, <1>9, <1>10

-----------------------------------------------------------------------------
(* The steps. *)

\* The round of a phase is one of the rounds left.
LEMMA RoundFacts ==
    ASSUME InPhase
    PROVE  Round \in todo /\ Round \in Work(pc, row.tx)
BY DEF InPhase, Round

\* The address objects that the row reads are objects.
LEMMA GetFacts ==
    ASSUME CacheTyped, StoreOK(store), NEW a \in Address
    PROVE  InfoOK(GetAddressInfo(a))
BY DEF CacheTyped, StoreOK, GetAddressInfo

\* A new node of unspent outputs: the address object is that of the round's
\* address, with the next index.
LEMMA InsertFacts ==
    ASSUME CacheTyped, StoreOK(store), NEW e, AddressOf(e) \in Address, InsertAddressUnspent(e)
    PROVE  /\ StoreOK(store') /\ store'.addr = store.addr /\ store'.pool = store.pool
           /\ \E info : /\ Put(AddressOf(e), info) /\ InfoOK(info)
                        /\ info.unspentTxIndex = GetAddressInfo(AddressOf(e)).unspentTxIndex + 1
                        /\ info.txCount = GetAddressInfo(AddressOf(e)).txCount
<1> PICK a : a = AddressOf(e)
  OBVIOUS
<1> PICK old : old = GetAddressInfo(a)
  OBVIOUS
<1>1. PICK info : info = [old EXCEPT !.unspentTxIndex = @ + 1, !.unspentTxCount = @ + 1]
  OBVIOUS
<1>2. PICK n : n = info.unspentTxIndex
  OBVIOUS
<1>3. /\ store' = [store EXCEPT !.unspentIdx[a][e[1]] = n,
                                !.unspent[a] = With(@, n, e[1])]
      /\ Put(a, info)
  BY <1>1, <1>2 DEF InsertAddressUnspent
<1>4. InfoOK(old)
  BY GetFacts
<1>5. InfoOK(info) /\ info.unspentTxIndex = old.unspentTxIndex + 1 /\ info.txCount = old.txCount
  BY <1>1, <1>4 DEF InfoOK
<1>6. n \in Nat
  BY <1>2, <1>4, <1>5 DEF InfoOK
<1>7. /\ DOMAIN store' = DOMAIN store
      /\ store'.addr = store.addr /\ store'.list = store.list /\ store'.pool = store.pool
      /\ store'.unspent = [store.unspent EXCEPT ![a] = With(@, n, e[1])]
  BY <1>3 DEF StoreOK
<1>8. \A b \in Address : DOMAIN store'.unspent[b] \subseteq Nat
  BY <1>6, <1>7 DEF StoreOK, With
<1>9. StoreOK(store')
  BY <1>7, <1>8 DEF StoreOK
<1> QED BY <1>3, <1>5, <1>7, <1>9

\* The deletion of a node of unspent outputs.
LEMMA DeleteFacts ==
    ASSUME StoreOK(store), NEW e, AddressOf(e) \in Address, DeleteUnspent(e)
    PROVE  StoreOK(store') /\ store'.addr = store.addr /\ store'.pool = store.pool
<1> PICK a : a = AddressOf(e)
  OBVIOUS
<1>1. PICK n : n = store.unspentIdx[a][e[1]]
  OBVIOUS
<1>2. store' = [store EXCEPT !.unspent[a] = Without(@, n), !.unspentIdx[a][e[1]] = -1]
  BY <1>1 DEF DeleteUnspent
<1>3. /\ DOMAIN store' = DOMAIN store
      /\ store'.addr = store.addr /\ store'.list = store.list /\ store'.pool = store.pool
      /\ store'.unspent = [store.unspent EXCEPT ![a] = Without(@, n)]
  BY <1>2 DEF StoreOK
<1>4. \A b \in Address : DOMAIN store'.unspent[b] \subseteq Nat
  BY <1>3 DEF StoreOK, Without
<1> QED BY <1>3, <1>4 DEF StoreOK

\* One write of an exchange: node n of the list of a in store s becomes u, or the
\* index of transaction y becomes m.
Others(s, q) ==
    /\ DOMAIN q = DOMAIN s /\ q.unspent = s.unspent /\ q.unspentIdx = s.unspentIdx
    /\ q.tx = s.tx /\ q.spentBy = s.spentBy /\ q.unconfirmed = s.unconfirmed
    /\ q.pool = s.pool /\ q.addr = s.addr
NodeWritten(s, q, a, n, u) == q = [s EXCEPT !.list[a][n] = u]
IndexWritten(s, q, a, y, m) == q = [s EXCEPT !.idx[a][y] = m]

OnlyNode(s, q, a, n, u) ==
    Others(s, q) /\ q.list = [s.list EXCEPT ![a][n] = u] /\ q.idx = s.idx
OnlyIndex(s, q, a, y, m) ==
    Others(s, q) /\ q.idx = [s.idx EXCEPT ![a][y] = m] /\ q.list = s.list

\* It leaves everything else alone.
LEMMA NodeWrittenFacts ==
    ASSUME NEW s, StoreOK(s), NEW q, NEW a, NEW n, NEW u, NodeWritten(s, q, a, n, u)
    PROVE  OnlyNode(s, q, a, n, u)
BY DEF StoreOK, NodeWritten, Others, OnlyNode

\* So does the other one.
LEMMA IndexWrittenFacts ==
    ASSUME NEW s, StoreOK(s), NEW q, NEW a, NEW y, NEW m, IndexWritten(s, q, a, y, m)
    PROVE  OnlyIndex(s, q, a, y, m)
BY DEF StoreOK, IndexWritten, Others, OnlyIndex

\* A step of an exchange is one of them, and changes nothing outside the store.
LEMMA SwitchWrites ==
    ASSUME SwitchTxNode
    PROVE  /\ \/ \E n, u : NodeWritten(store, store', Round, n, u)
              \/ \E y, m : IndexWritten(store, store', Round, y, m)
           /\ state' = state /\ tip' = tip /\ row' = row /\ pc' = pc /\ todo' = todo
           /\ cache' = cache /\ loaded' = loaded /\ count' = count /\ torn' = torn
<1>1. PICK st : Switching(st)
  BY DEF SwitchTxNode, SwitchFirstNode, SwitchSecondNode, SwitchFirstIndex, SwitchSecondIndex
<1>2. /\ state' = state /\ tip' = tip /\ row' = row /\ pc' = pc /\ todo' = todo
      /\ cache' = cache /\ loaded' = loaded /\ count' = count /\ torn' = torn
  BY <1>1 DEF Switching, ledger
<1>3. CASE SwitchFirstNode
  <2> PICK u : u = store.list[Round][store.idx[Round][row.tx]]
    OBVIOUS
  <2>1. store' = [store EXCEPT !.list[Round][Place(Round)] = u]
    BY <1>3 DEF SwitchFirstNode, Switching
  <2> QED BY <1>2, <2>1 DEF NodeWritten
<1>4. CASE SwitchSecondNode
  BY <1>2, <1>4 DEF SwitchSecondNode, Switching, NodeWritten
<1>5. CASE SwitchFirstIndex
  BY <1>2, <1>5 DEF SwitchFirstIndex, Switching, IndexWritten
<1>6. CASE SwitchSecondIndex
  BY <1>2, <1>6 DEF SwitchSecondIndex, Switching, IndexWritten
<1> QED BY <1>3, <1>4, <1>5, <1>6 DEF SwitchTxNode

\* The lists keep their places.
LEMMA SwitchStores ==
    ASSUME StoreOK(store), SwitchTxNode
    PROVE  /\ StoreOK(store') /\ Others(store, store')
           /\ \A b : DOMAIN store'.list[b] = DOMAIN store.list[b]
           /\ \A b : b # Round => store'.list[b] = store.list[b] /\ store'.idx[b] = store.idx[b]
<1>1. CASE \E n, u : NodeWritten(store, store', Round, n, u)
  <2>1. PICK n, u : NodeWritten(store, store', Round, n, u)
    BY <1>1
  <2> PICK a : a = Round
    OBVIOUS
  <2> PICK f : f = store.list
    OBVIOUS
  <2>0. NodeWritten(store, store', a, n, u)
    BY <2>1
  <2>2. /\ Others(store, store') /\ store'.idx = store.idx
        /\ store'.list = [f EXCEPT ![a][n] = u]
    <3>1. OnlyNode(store, store', a, n, u)
      BY ONLY <2>0, StoreOK(store), NodeWrittenFacts
    <3> QED BY ONLY <3>1, f = store.list DEF OnlyNode
  <2>3. /\ DOMAIN store'.list = DOMAIN f /\ \A b : DOMAIN store'.list[b] = DOMAIN f[b]
        /\ \A b : b # a => store'.list[b] = f[b]
    BY ONLY <2>2
  <2>4. StoreOK(store')
    BY <2>2, <2>3 DEF StoreOK, Others
  <2> QED BY <2>2, <2>3, <2>4
<1>2. CASE \E y, m : IndexWritten(store, store', Round, y, m)
  <2>1. PICK y, m : IndexWritten(store, store', Round, y, m)
    BY <1>2
  <2> PICK a : a = Round
    OBVIOUS
  <2> PICK f : f = store.idx
    OBVIOUS
  <2>0. IndexWritten(store, store', a, y, m)
    BY <2>1
  <2>2. /\ Others(store, store') /\ store'.list = store.list
        /\ store'.idx = [f EXCEPT ![a][y] = m]
    <3>1. OnlyIndex(store, store', a, y, m)
      BY ONLY <2>0, StoreOK(store), IndexWrittenFacts
    <3> QED BY ONLY <3>1, f = store.idx DEF OnlyIndex
  <2>3. \A b : b # a => store'.idx[b] = f[b]
    BY ONLY <2>2
  <2>4. StoreOK(store')
    BY <2>2 DEF StoreOK, Others
  <2> QED BY <2>2, <2>3, <2>4
<1> QED BY <1>1, <1>2, SwitchWrites

\* A handler in a phase: what it works on.
LEMMA AtPhase ==
    ASSUME CacheInv, pc \in Phases
    PROVE  /\ InPhase /\ row \in Rows /\ row.type \in Types /\ row.tx \in Item
           /\ Round \in todo /\ Round \in Work(pc, row.tx)
           /\ Affected(row.tx) \subseteq Address
           /\ pc # "down" => count = store.pool
<1>1. InPhase /\ row \in Rows
  BY DEF CacheInv, Control, InPhase
<1>2. row.type \in Types /\ row.tx \in Item
  BY <1>1, NoRowFacts
<1> QED BY <1>1, <1>2, RoundFacts, AffectedFacts DEF CacheInv, CountSaved

\* An unspent output more.
LEMMA InsertStep ==
    ASSUME CacheInv, row.type \in {"accept", "reject"}, pc \in BeforeFlush, pc # "list",
           Round \in todo, AddressOf(Round) \in Affected(row.tx), AddressOf(Round) \in Address,
           InsertAddressUnspent(Round), Done(Round), count' = count
    PROVE  CacheInv'
<1>1. CacheTyped /\ StoreOK(store)
  BY DEF CacheInv
<1>2. /\ StoreOK(store') /\ store'.addr = store.addr /\ store'.pool = store.pool
      /\ \E info : /\ Put(AddressOf(Round), info) /\ InfoOK(info)
                   /\ info.unspentTxIndex = GetAddressInfo(AddressOf(Round)).unspentTxIndex + 1
                   /\ info.txCount = GetAddressInfo(AddressOf(Round)).txCount
  BY <1>1, InsertFacts
<1>3. PICK info : /\ Put(AddressOf(Round), info) /\ InfoOK(info)
                  /\ info.unspentTxIndex = GetAddressInfo(AddressOf(Round)).unspentTxIndex + 1
                  /\ info.txCount = GetAddressInfo(AddressOf(Round)).txCount
  BY <1>2
<1>4. Touched(row.type, GetAddressInfo(AddressOf(Round)), info)
  BY <1>3 DEF Touched
<1> QED BY <1>2, <1>3, <1>4, TouchStep

\* acceptTx(): an output.
LEMMA AcceptOutputStep == CacheInv /\ AcceptOutput => CacheInv'
<1> SUFFICES ASSUME CacheInv, AcceptOutput PROVE CacheInv'
  OBVIOUS
<1>1. /\ pc = "outputs" /\ row.type = "accept" /\ pc \in BeforeFlush /\ pc \in Phases
      /\ InsertAddressUnspent(Round) /\ Done(Round) /\ count' = count
  BY DEF AcceptOutput, In, BeforeFlush, Phases
<1>2. Round \in todo /\ Round \in Entries(Outs(row.tx)) /\ row.tx \in Item
  BY <1>1, AtPhase DEF Work
<1>3. AddressOf(Round) \in Affected(row.tx) /\ AddressOf(Round) \in Address
  BY <1>2, AffectedFacts
<1> QED BY <1>1, <1>2, <1>3, InsertStep

\* rejectTx(): an output that is unspent again.
LEMMA RejectInputStep == CacheInv /\ RejectInput => CacheInv'
<1> SUFFICES ASSUME CacheInv, RejectInput PROVE CacheInv'
  OBVIOUS
<1>1. /\ pc = "inputs" /\ row.type = "reject" /\ pc \in BeforeFlush /\ pc \in Phases
      /\ InsertAddressUnspent(Round) /\ Done(Round) /\ count' = count
  BY DEF RejectInput, In, BeforeFlush, Phases
<1>2. Round \in todo /\ Round \in Entries(Ins(row.tx)) /\ row.tx \in Item
  BY <1>1, AtPhase DEF Work
<1>3. AddressOf(Round) \in Affected(row.tx) /\ AddressOf(Round) \in Address
  BY <1>2, AffectedFacts
<1> QED BY <1>1, <1>2, <1>3, InsertStep

\* acceptTx(): an output that it spends.
LEMMA AcceptInputStep == CacheInv /\ AcceptInput => CacheInv'
<1> SUFFICES ASSUME CacheInv, AcceptInput PROVE CacheInv'
  OBVIOUS
<1>1. pc = "inputs" /\ row.type = "accept" /\ pc \in BeforeFlush /\ pc \in Phases
  BY DEF AcceptInput, In, BeforeFlush, Phases
<1>2. Round \in todo /\ Round \in Entries(Ins(row.tx)) /\ row.tx \in Item
  BY <1>1, AtPhase DEF Work
<1> PICK a : a = AddressOf(Round)
  OBVIOUS
<1> PICK old : old = GetAddressInfo(a)
  OBVIOUS
<1>3. a \in Affected(row.tx) /\ a \in Address
  BY <1>2, AffectedFacts
<1>4. PICK info : info = [old EXCEPT !.unspentTxCount = @ - 1]
  OBVIOUS
<1>5. DeleteUnspent(Round) /\ Put(a, info) /\ Done(Round) /\ count' = count
  BY <1>4 DEF AcceptInput
<1>6. StoreOK(store') /\ store'.addr = store.addr /\ store'.pool = store.pool
  BY <1>3, <1>5, DeleteFacts DEF CacheInv
<1>7. InfoOK(old)
  BY <1>3, GetFacts DEF CacheInv
<1>8. InfoOK(info) /\ Touched(row.type, old, info)
  BY <1>1, <1>4, <1>7 DEF InfoOK, Touched
<1>9. pc # "list"
  BY <1>1
<1> QED BY <1>1, <1>2, <1>3, <1>5, <1>6, <1>8, <1>9, TouchStep

\* rejectTx(): an own output.
LEMMA RejectOutputStep == CacheInv /\ RejectOutput => CacheInv'
<1> SUFFICES ASSUME CacheInv, RejectOutput PROVE CacheInv'
  OBVIOUS
<1>1. pc = "outputs" /\ pc \in Phases /\ pc \notin {"list", "flush", "save"}
  BY DEF RejectOutput, In, Phases
<1>2. Round \in todo /\ Round \in Entries(Outs(row.tx)) /\ row.tx \in Item /\ count = store.pool
  BY <1>1, AtPhase DEF Work
<1>3. AddressOf(Round) \in Address
  BY <1>2, AffectedFacts
<1>4. DeleteUnspent(Round) /\ KeepCache /\ Done(Round) /\ count' = count
  BY DEF RejectOutput
<1>5. StoreOK(store') /\ store'.addr = store.addr /\ store'.pool = store.pool
  BY <1>3, <1>4, DeleteFacts DEF CacheInv
<1>6. count' = store'.pool
  BY <1>2, <1>4, <1>5
<1> QED BY <1>1, <1>2, <1>4, <1>5, <1>6, KeepStep

\* A phase of one round.
LEMMA SingleRound ==
    ASSUME CacheInv, pc \in {"spends", "object", "mempool", "pool"}
    PROVE  /\ pc \in Phases /\ pc \notin {"list", "flush", "save"}
           /\ row.tx \in todo /\ todo = {row.tx} /\ count = store.pool /\ StoreOK(store)
           /\ row.type \in Types /\ row.tx \in Item
<1>1. pc \in Phases /\ pc \notin {"list", "flush", "save"} /\ pc # "down"
  BY DEF Phases
<1>2. Work(pc, row.tx) = {row.tx}
  BY DEF Work
<1>3. todo # {} /\ todo \subseteq {row.tx}
  BY <1>1, <1>2, AtPhase DEF InPhase
<1>4. todo = {row.tx}
  BY <1>3
<1> QED BY <1>1, <1>4, AtPhase DEF CacheInv

\* The 02_ keys.
LEMMA SetSpendsStep == CacheInv /\ SetSpends => CacheInv'
<1> SUFFICES ASSUME CacheInv, SetSpends PROVE CacheInv'
  OBVIOUS
<1>1. pc \in {"spends", "object", "mempool", "pool"}
  BY DEF SetSpends, In
<1>2. PICK f : store' = [store EXCEPT !.spentBy = f]
  BY DEF SetSpends
<1>3. StoreOK(store') /\ store'.addr = store.addr /\ store'.pool = store.pool
  BY <1>2 DEF CacheInv, StoreOK
<1>4. KeepCache /\ Done(row.tx) /\ count' = count
  BY DEF SetSpends
<1>5. count' = store'.pool
  BY <1>1, <1>3, <1>4, SingleRound
<1>6. pc \in Phases /\ pc \notin {"list", "flush", "save"} /\ row.tx \in todo
  BY <1>1, SingleRound
<1> QED BY <1>3, <1>4, <1>5, <1>6, KeepStep

\* The 01_ object.
LEMMA SetObjectStep == CacheInv /\ SetObject => CacheInv'
<1> SUFFICES ASSUME CacheInv, SetObject PROVE CacheInv'
  OBVIOUS
<1>1. pc \in {"spends", "object", "mempool", "pool"}
  BY DEF SetObject
<1>2. row.type \in Types /\ StoreOK(store)
  BY <1>1, SingleRound
<1>3. StoreOK(store') /\ store'.addr = store.addr /\ store'.pool = store.pool
  <2> PICK x : x = row.tx
    OBVIOUS
  <2>1. CASE row.type = "accept"
    <3>1. store' = [store EXCEPT !.tx[x] = [height |-> -1, doubleSpend |-> FALSE]]
      BY <2>1 DEF SetObject
    <3> QED BY <1>2, <3>1 DEF StoreOK
  <2>2. CASE row.type = "confirm"
    <3>1. store' = [store EXCEPT !.tx[x].height = Height[tip], !.unconfirmed = @ \ {x}]
      BY <2>2 DEF SetObject
    <3> QED BY <1>2, <3>1 DEF StoreOK
  <2>3. CASE row.type = "unconfirm"
    <3>1. store' = [store EXCEPT !.tx[x].height = -1, !.unconfirmed = @ \cup {x}]
      BY <2>3 DEF SetObject
    <3> QED BY <1>2, <3>1 DEF StoreOK
  <2>4. CASE row.type = "reject"
    <3>1. store' = [store EXCEPT !.tx[x].doubleSpend = TRUE, !.unconfirmed = @ \ {x}]
      BY <2>4 DEF SetObject
    <3> QED BY <1>2, <3>1 DEF StoreOK
  <2> QED BY <1>2, <2>1, <2>2, <2>3, <2>4 DEF Types
<1>4. KeepCache /\ Done(row.tx) /\ count' = count
  BY DEF SetObject
<1>5. count' = store'.pool
  BY <1>1, <1>3, <1>4, SingleRound
<1>6. pc \in Phases /\ pc \notin {"list", "flush", "save"} /\ row.tx \in todo
  BY <1>1, SingleRound
<1> QED BY <1>3, <1>4, <1>5, <1>6, KeepStep

\* The 03_ key.
LEMMA SetUnconfirmedStep == CacheInv /\ SetUnconfirmed => CacheInv'
<1> SUFFICES ASSUME CacheInv, SetUnconfirmed PROVE CacheInv'
  OBVIOUS
<1>1. pc \in {"spends", "object", "mempool", "pool"}
  BY DEF SetUnconfirmed
<1>2. store' = [store EXCEPT !.unconfirmed = @ \cup {row.tx}]
  BY DEF SetUnconfirmed
<1>3. StoreOK(store') /\ store'.addr = store.addr /\ store'.pool = store.pool
  BY <1>2 DEF CacheInv, StoreOK
<1>4. KeepCache /\ Done(row.tx) /\ count' = count
  BY DEF SetUnconfirmed
<1>5. count' = store'.pool
  BY <1>1, <1>3, <1>4, SingleRound
<1>6. pc \in Phases /\ pc \notin {"list", "flush", "save"} /\ row.tx \in todo
  BY <1>1, SingleRound
<1> QED BY <1>3, <1>4, <1>5, <1>6, KeepStep

\* The counter of unconfirmed transactions.
LEMMA CountUnconfirmedStep == CacheInv /\ CountUnconfirmed => CacheInv'
<1> SUFFICES ASSUME CacheInv, CountUnconfirmed PROVE CacheInv'
  OBVIOUS
<1>1. pc \in {"spends", "object", "mempool", "pool"}
  BY DEF CountUnconfirmed
<1>2. store' = [store EXCEPT !.pool = count']
  BY DEF CountUnconfirmed
<1>3. StoreOK(store') /\ store'.addr = store.addr /\ count' = store'.pool
  BY <1>2 DEF CacheInv, StoreOK
<1>4. KeepCache /\ Done(row.tx)
  BY DEF CountUnconfirmed
<1>5. pc \in Phases /\ pc \notin {"list", "flush", "save"} /\ row.tx \in todo
  BY <1>1, SingleRound
<1> QED BY <1>3, <1>4, <1>5, KeepStep

\* A round of the phase "list": its address.
LEMMA AtList ==
    ASSUME CacheInv, pc = "list"
    PROVE  /\ pc \in BeforeFlush /\ Round \in todo /\ Round \in Affected(row.tx)
           /\ Round \in Address /\ StoreOK(store) /\ InfoOK(GetAddressInfo(Round))
           /\ row.type \in Types
<1>1. pc \in BeforeFlush /\ pc \in Phases
  BY DEF BeforeFlush, Phases
<1>2. Round \in todo /\ Round \in Affected(row.tx) /\ Round \in Address /\ row.type \in Types
  BY <1>1, AtPhase, WorkFacts
<1> QED BY <1>1, <1>2, GetFacts DEF CacheInv

\* acceptTx(): a node behind the last one.
LEMMA AcceptListStep == CacheInv /\ AcceptList => CacheInv'
<1> SUFFICES ASSUME CacheInv, AcceptList PROVE CacheInv'
  OBVIOUS
<1>1. pc = "list" /\ row.type = "accept"
  BY DEF AcceptList, In
<1> PICK a : a = Round
  OBVIOUS
<1> PICK old : old = GetAddressInfo(a)
  OBVIOUS
<1>2. PICK info : info = [old EXCEPT !.received = @ + Received(row.tx, a),
                  !.sent = @ + Sent(row.tx, a),
                  !.unconfirmedReceived = @ + Received(row.tx, a),
                  !.unconfirmedSent = @ + Sent(row.tx, a),
                  !.unconfirmedTxCount = @ + 1, !.txCount = @ + 1]
  OBVIOUS
<1>3. PICK node : node = [tx |-> row.tx, height |-> -1]
  OBVIOUS
<1>4. /\ store' = [store EXCEPT !.list[a] = With(@, old.txCount, node),
                                !.idx[a][row.tx] = old.txCount]
      /\ Put(a, info) /\ Done(a) /\ count' = count
  BY <1>2, <1>3 DEF AcceptList
<1>5. a \in todo /\ a \in Affected(row.tx) /\ a \in Address /\ StoreOK(store) /\ InfoOK(old)
      /\ pc \in BeforeFlush
  BY <1>1, AtList
<1>6. InfoOK(info) /\ Touched(row.type, old, info)
  BY <1>1, <1>2, <1>5 DEF InfoOK, Touched
<1>7. /\ DOMAIN store' = DOMAIN store
      /\ store'.addr = store.addr /\ store'.unspent = store.unspent /\ store'.pool = store.pool
      /\ store'.list = [store.list EXCEPT ![a] = With(@, old.txCount, node)]
  BY <1>4, <1>5 DEF StoreOK
<1>8. old.txCount \in Nat
  BY <1>5 DEF InfoOK
<1>9. \A b \in Address : DOMAIN store'.list[b] \subseteq Nat
  BY <1>5, <1>7, <1>8 DEF StoreOK, With
<1>10. StoreOK(store')
  BY <1>5, <1>7, <1>9 DEF StoreOK
<1> QED BY <1>4, <1>5, <1>6, <1>7, <1>10, TouchStep

\* A write of an exchange.
LEMMA SwitchStep == CacheInv /\ SwitchTxNode => CacheInv'
<1> SUFFICES ASSUME CacheInv, SwitchTxNode PROVE CacheInv'
  OBVIOUS
<1>1. StoreOK(store') /\ store'.addr = store.addr /\ store'.pool = store.pool
  BY SwitchStores DEF CacheInv, Others
<1>2. /\ row' = row /\ pc' = pc /\ todo' = todo
      /\ cache' = cache /\ loaded' = loaded /\ count' = count
  BY SwitchWrites
<1>3. Control' /\ CacheTyped'
  BY <1>2 DEF CacheInv, Control, CacheTyped, InPhase
<1>4. CacheExplained' /\ LoadedKept'
  BY <1>1, <1>2 DEF CacheInv, CacheExplained, LoadedKept, Explained, Unflushed
<1>5. RecordedKept' /\ CountSaved'
  BY <1>1, <1>2 DEF CacheInv, RecordedKept, CountSaved, Recorded, Unflushed
<1> QED BY <1>1, <1>3, <1>4, <1>5 DEF CacheInv

\* confirmTx(): the node next to the last confirmed one.
LEMMA ConfirmListStep == CacheInv /\ ConfirmList => CacheInv'
<1> SUFFICES ASSUME CacheInv, ConfirmList PROVE CacheInv'
  OBVIOUS
<1>1. pc = "list" /\ row.type = "confirm"
  BY DEF ConfirmList, AtNode, In
<1> PICK a : a = Round
  OBVIOUS
<1> PICK old, y : old = GetAddressInfo(a) /\ y = NodeTx(a)
  OBVIOUS
<1> PICK n : n = store.idx[a][row.tx]
  OBVIOUS
<1>2. PICK info : info = [old EXCEPT
                  !.unconfirmedReceived = @ - Received(y, a),
                  !.unconfirmedSent = @ - Sent(y, a),
                  !.unconfirmedTxCount = @ - 1, !.lastConfirmedTxIdx = n]
  OBVIOUS
<1>3. /\ store' = [store EXCEPT !.list[a][n].height = Height[tip]]
      /\ Put(a, info) /\ Done(a) /\ count' = count
      /\ n = old.lastConfirmedTxIdx + 1
  BY <1>1, <1>2 DEF ConfirmList, AtPlace, Place, ConfirmPlace
<1>4. a \in todo /\ a \in Affected(row.tx) /\ a \in Address /\ StoreOK(store) /\ InfoOK(old)
      /\ pc \in BeforeFlush
  BY <1>1, AtList
<1>5. n \in Int
  BY <1>3, <1>4 DEF InfoOK
<1>6. InfoOK(info) /\ Touched(row.type, old, info)
  BY <1>1, <1>2, <1>4, <1>5 DEF InfoOK, Touched
<1>7. StoreOK(store') /\ store'.addr = store.addr /\ store'.pool = store.pool
  BY <1>3, <1>4 DEF StoreOK
<1> QED BY <1>3, <1>4, <1>6, <1>7, TouchStep

\* unconfirmTx(): the last confirmed node.
LEMMA UnconfirmListStep == CacheInv /\ UnconfirmList => CacheInv'
<1> SUFFICES ASSUME CacheInv, UnconfirmList PROVE CacheInv'
  OBVIOUS
<1>1. pc = "list" /\ row.type = "unconfirm"
  BY DEF UnconfirmList, In
<1> PICK a : a = Round
  OBVIOUS
<1> PICK old, y : old = GetAddressInfo(a) /\ y = NodeTx(a)
  OBVIOUS
<1> PICK n : n = store.idx[a][row.tx]
  OBVIOUS
<1>2. PICK info : info = [old EXCEPT
                  !.unconfirmedReceived = @ + Received(y, a),
                  !.unconfirmedSent = @ + Sent(y, a),
                  !.unconfirmedTxCount = @ + 1, !.lastConfirmedTxIdx = @ - 1]
  OBVIOUS
<1>3. /\ store' = [store EXCEPT !.list[a][n].height = -1]
      /\ Put(a, info) /\ Done(a) /\ count' = count
  BY <1>2 DEF UnconfirmList
<1>4. a \in todo /\ a \in Affected(row.tx) /\ a \in Address /\ StoreOK(store) /\ InfoOK(old)
      /\ pc \in BeforeFlush
  BY <1>1, AtList
<1>5. InfoOK(info) /\ Touched(row.type, old, info)
  BY <1>1, <1>2, <1>4 DEF InfoOK, Touched
<1>6. StoreOK(store') /\ store'.addr = store.addr /\ store'.pool = store.pool
  BY <1>3, <1>4 DEF StoreOK
<1> QED BY <1>3, <1>4, <1>5, <1>6, TouchStep

\* rejectTx(): the node at the end of the list is removed.
LEMMA RejectListStep == CacheInv /\ RejectList => CacheInv'
<1> SUFFICES ASSUME CacheInv, RejectList PROVE CacheInv'
  OBVIOUS
<1>1. pc = "list" /\ row.type = "reject"
  BY DEF RejectList, AtNode, In
<1> PICK a : a = Round
  OBVIOUS
<1> PICK old, y : old = GetAddressInfo(a) /\ y = NodeTx(a)
  OBVIOUS
<1> PICK n : n = RejectPlace(a)
  OBVIOUS
<1>2. PICK info : info = RemoveAddressTxNode(old, y, a)
  OBVIOUS
<1>3. /\ store' = [store EXCEPT !.list[a] = Without(@, n)]
      /\ Put(a, info) /\ Done(a) /\ count' = count
      /\ n \in DOMAIN store.list[a]
  BY <1>1, <1>2 DEF RejectList, AtNode, NodeFound, Place
<1>4. a \in todo /\ a \in Affected(row.tx) /\ a \in Address /\ StoreOK(store) /\ InfoOK(old)
      /\ pc \in BeforeFlush
  BY <1>1, AtList
<1>5. old.txCount - 1 \in Nat
  BY <1>3, <1>4 DEF RejectPlace, StoreOK
<1>6. InfoOK(info) /\ Touched(row.type, old, info)
  BY <1>1, <1>2, <1>4, <1>5 DEF InfoOK, Touched, RemoveAddressTxNode
<1>7. StoreOK(store') /\ store'.addr = store.addr /\ store'.pool = store.pool
  <2>1. /\ DOMAIN store' = DOMAIN store
        /\ store'.addr = store.addr /\ store'.unspent = store.unspent /\ store'.pool = store.pool
        /\ store'.list = [store.list EXCEPT ![a] = Without(@, n)]
    BY <1>3, <1>4 DEF StoreOK
  <2>2. \A b \in Address : DOMAIN store'.list[b] \subseteq Nat
    BY <1>4, <2>1 DEF StoreOK, Without
  <2> QED BY <1>4, <2>1, <2>2 DEF StoreOK
<1> QED BY <1>3, <1>4, <1>6, <1>7, TouchStep

\* flushAddressInfo(): the object of the store becomes that of the cache.
LEMMA FlushStep == CacheInv /\ FlushAddressInfo => CacheInv'
<1> SUFFICES ASSUME CacheInv, FlushAddressInfo PROVE CacheInv'
  OBVIOUS
<1> USE DEF CacheInv
<1>1. pc = "flush" /\ pc \in Phases /\ pc # "save" /\ pc # "down" /\ pc \notin BeforeFlush
  BY DEF FlushAddressInfo, Phases, BeforeFlush
<1> PICK a : a = Round
  OBVIOUS
<1>2. /\ InPhase /\ row \in Rows /\ row.type \in Types /\ a \in todo
      /\ a \in Affected(row.tx) /\ a \in Address /\ count = store.pool
  BY <1>1, AtPhase, WorkFacts
<1> PICK info : info = GetAddressInfo(a)
  OBVIOUS
<1>3. store' = [store EXCEPT !.addr[a] = info] /\ Put(a, info) /\ Done(a) /\ count' = count
  BY DEF FlushAddressInfo
<1>4. InfoOK(info)
  BY <1>2, GetFacts
<1>5. /\ DOMAIN store' = DOMAIN store
      /\ store'.addr = [store.addr EXCEPT ![a] = info]
      /\ store'.list = store.list /\ store'.unspent = store.unspent /\ store'.pool = store.pool
  BY <1>3 DEF StoreOK
<1>6. \A b \in Address : store'.addr[b] = IF b = a THEN info ELSE store.addr[b]
  BY <1>5 DEF StoreOK
<1>7. StoreOK(store')
  BY <1>4, <1>5, <1>6 DEF StoreOK
<1>8. /\ pc' \in Phases /\ InPhase' /\ row' = row
      /\ pc' \in BeforeFlush => pc \in BeforeFlush
      /\ \A b \in Affected(row.tx) :
            /\ Unflushed(b)' <=> (Unflushed(b) /\ (pc = "flush" => b # a))
            /\ Recorded(b)' => (Recorded(b) \/ (pc = "list" /\ b = a))
  BY <1>1, <1>2, <1>3, Advance
<1>9. /\ a \in DOMAIN cache' /\ DOMAIN cache' \subseteq DOMAIN cache \cup {a}
      /\ cache'[a] = info
      /\ \A b \in DOMAIN cache' \ {a} : cache'[b] = cache[b]
      /\ loaded \subseteq loaded' /\ loaded' \subseteq loaded \cup {a}
      /\ \A b \in DOMAIN cache \ DOMAIN cache' : a \notin DOMAIN cache /\ b \in Droppable
  BY <1>3, PutFacts
<1>10. ~EvictDirty => a \in DOMAIN cache
  <2>1. Recorded(a)
    BY <1>1, <1>2 DEF Recorded, Listed, Types
  <2> QED BY <1>1, <1>2, <2>1 DEF RecordedKept
<1>11. Control'
  BY <1>8, <1>2, NoRowFacts DEF Control, InPhase, Phases
<1>12. CacheTyped'
  <2>1. ASSUME NEW b \in DOMAIN cache' PROVE b \in Address /\ InfoOK(cache'[b])
    BY <1>2, <1>4, <1>9 DEF CacheTyped
  <2> QED BY <2>1 DEF CacheTyped
<1>13. CacheExplained'
  <2>1. ASSUME NEW b \in DOMAIN cache' PROVE Explained(b)'
    <3>1. CASE b = a
      BY <1>2, <1>6, <1>9, <3>1 DEF Explained
    <3>2. CASE b # a
      <4>1. b \in DOMAIN cache /\ cache'[b] = cache[b] /\ Explained(b) /\ b \in Address
        BY <1>1, <1>9, <3>2 DEF CacheExplained, CacheTyped
      <4>2. Unflushed(b) => Unflushed(b)'
        <5>1. Unflushed(b) => b \in Affected(row.tx)
          BY DEF Unflushed
        <5> QED BY <1>8, <3>2, <5>1
      <4>3. store'.addr[b] = store.addr[b]
        BY <1>6, <3>2, <4>1
      <4> QED BY <1>8, <4>1, <4>2, <4>3 DEF Explained
    <3> QED BY <3>1, <3>2
  <2> QED BY <2>1 DEF CacheExplained
<1>14. LoadedKept'
  <2>1. ASSUME NEW b \in loaded PROVE b \in DOMAIN cache'
    <3>1. b \in DOMAIN cache
      BY DEF LoadedKept
    <3>2. CASE EvictDirty
      <4>1. b \notin Droppable
        BY <3>2 DEF Droppable
      <4> QED BY <1>9, <3>1, <4>1
    <3>3. CASE ~EvictDirty
      BY <1>9, <1>10, <3>1, <3>3
    <3> QED BY <3>2, <3>3
  <2> QED BY <1>1, <1>8, <1>9, <2>1 DEF LoadedKept
<1>15. RecordedKept'
  <2>1. ASSUME ~EvictDirty, NEW b \in Affected(row.tx), Recorded(b)'
        PROVE  /\ b \in DOMAIN cache'
               /\ Unflushed(b)' => Changed(row.type, cache'[b], store'.addr[b])
    <3>1. Recorded(b)
      BY <1>1, <1>8, <2>1
    <3>2. /\ b \in DOMAIN cache
          /\ Unflushed(b) => Changed(row.type, cache[b], store.addr[b])
      BY <1>1, <2>1, <3>1 DEF RecordedKept
    <3>3. b \in DOMAIN cache' /\ b \in Address
      BY <1>9, <1>10, <2>1, <3>2 DEF CacheTyped
    <3>4. ASSUME Unflushed(b)' PROVE Changed(row.type, cache'[b], store'.addr[b])
      <4>1. b # a /\ Unflushed(b)
        BY <1>1, <1>8, <3>4
      <4> QED BY <1>6, <1>9, <3>2, <3>3, <4>1
    <3> QED BY <3>3, <3>4
  <2> QED BY <1>8, <2>1 DEF RecordedKept
<1>16. CountSaved'
  BY <1>2, <1>3, <1>5, <1>8 DEF CountSaved, Phases
<1> QED BY <1>7, <1>11, <1>12, <1>13, <1>14, <1>15, <1>16

\* The id of the row is saved.
LEMMA SaveStep == CacheInv /\ SaveId => CacheInv'
<1> SUFFICES ASSUME CacheInv, SaveId PROVE CacheInv'
  OBVIOUS
<1> USE DEF CacheInv
<1>1. /\ pc = "save" /\ pc' = "idle" /\ row' = NoRow /\ loaded' = {}
      /\ store' = store /\ cache' = cache /\ count' = count
  BY DEF SaveId
<1>2. \A a \in DOMAIN cache : cache[a] = store.addr[a]
  <2>1. \A a : ~Unflushed(a)
    BY <1>1 DEF Unflushed, BeforeFlush
  <2> QED BY <1>1, <2>1 DEF CacheExplained, Explained, Phases
<1>3. Control'
  BY <1>1 DEF Control, Phases
<1>4. CacheTyped' /\ CacheExplained'
  BY <1>1, <1>2 DEF CacheTyped, CacheExplained, Explained
<1>5. LoadedKept' /\ RecordedKept'
  BY <1>1 DEF LoadedKept, RecordedKept, Phases
<1>6. CountSaved'
  BY <1>1 DEF CountSaved
<1> QED BY <1>1, <1>3, <1>4, <1>5, <1>6

\* The process ends on an exception.
LEMMA FailStep == CacheInv /\ (UnspentMissing \/ ListFails) => CacheInv'
<1> SUFFICES ASSUME CacheInv, UnspentMissing \/ ListFails PROVE CacheInv'
  OBVIOUS
<1> USE DEF CacheInv
<1>1. Fail /\ pc \in Phases
  BY DEF UnspentMissing, ListFails, AtNode, In, Phases
<1>2. /\ pc' = "aborted" /\ row' = row /\ todo' = todo
      /\ store' = store /\ cache' = cache /\ count' = count /\ loaded' = loaded
  BY <1>1 DEF Fail, bounds, ledger
<1>3. row \in Rows /\ pc # "down"
  BY <1>1 DEF Control, InPhase, Phases
<1>4. Control'
  BY <1>2, <1>3 DEF Control, Phases
<1>5. CacheTyped' /\ CacheExplained'
  BY <1>2 DEF CacheTyped, CacheExplained, Phases
<1>6. LoadedKept' /\ RecordedKept'
  BY <1>2 DEF LoadedKept, RecordedKept, Phases, BeforeFlush
<1>7. CountSaved'
  BY <1>2, <1>3 DEF CountSaved
<1> QED BY <1>2, <1>4, <1>5, <1>6, <1>7

\* The process is killed.
LEMMA CrashStep == CacheInv /\ Crash => CacheInv'
<1> SUFFICES ASSUME CacheInv, Crash PROVE CacheInv'
  OBVIOUS
<1> USE DEF CacheInv
<1>1. /\ pc' = "down" /\ row' = row /\ store' = store
      /\ cache' = <<>> /\ loaded' = {}
  BY DEF Crash
<1>2. DOMAIN cache' = {}
  BY <1>1
<1>3. Control'
  BY <1>1 DEF Control, Phases
<1>4. CacheTyped' /\ CacheExplained'
  BY <1>2 DEF CacheTyped, CacheExplained
<1>5. LoadedKept' /\ RecordedKept'
  BY <1>1 DEF LoadedKept, RecordedKept, Phases
<1>6. CountSaved'
  BY <1>1, <1>2 DEF CountSaved
<1> QED BY <1>1, <1>3, <1>4, <1>5, <1>6

\* The handler of a row begins: the cache agrees with the store.
LEMMA BeginStep ==
    ASSUME CacheInv, NEW r \in Rows, row' = r, GotoPhase(r, 1),
           \A a \in DOMAIN cache : cache[a] = store.addr[a],
           store' = store, cache' = cache, loaded' = {}, count' = store.pool
    PROVE  CacheInv'
<1> USE DEF CacheInv
<1>1. 1 \in 1..Len(Program[r.type]) /\ 1 <= ListNo(r.type)
  <2> PICK n : n = Len(Program[r.type])
    OBVIOUS
  <2>1. n \in 1..9 /\ ListNo(r.type) \in 1..n
    BY NoRowFacts, ProgramFacts DEF ProgramOK
  <2> QED BY <2>1
<1>2. /\ pc' \in Phases /\ InPhase'
      /\ \A a \in Affected(r.tx) : ~Recorded(a)'
  BY <1>1, Arrive
<1>3. Control'
  BY <1>2 DEF Control, Phases
<1>4. CacheTyped' /\ CacheExplained'
  BY DEF CacheTyped, CacheExplained, Explained
<1>5. LoadedKept' /\ RecordedKept'
  BY <1>2 DEF LoadedKept, RecordedKept
<1>6. CountSaved'
  BY <1>2 DEF CountSaved, Phases
<1> QED BY <1>3, <1>4, <1>5, <1>6

\* tparser starts again.
LEMMA RestartStep == CacheInv /\ Restart => CacheInv'
<1> SUFFICES ASSUME CacheInv, Restart PROVE CacheInv'
  OBVIOUS
<1>1. /\ pc = "down" /\ row' = row /\ store' = store /\ cache' = cache /\ loaded' = loaded
      /\ count' = store.pool
      /\ IF row = NoRow THEN pc' = "idle" /\ todo' = {} ELSE GotoPhase(row, 1)
  BY DEF Restart, bounds, ledger
<1>2. DOMAIN cache = {} /\ loaded = {} /\ row \in Rows \cup {NoRow}
  BY <1>1 DEF CacheInv, CountSaved, Control
<1>3. CASE row = NoRow
  <2> USE DEF CacheInv
  <2>1. pc' = "idle"
    BY <1>1, <1>3
  <2>2. Control'
    BY <1>1, <1>3, <2>1 DEF Control, Phases
  <2>3. CacheTyped' /\ CacheExplained'
    BY <1>1, <1>2 DEF CacheTyped, CacheExplained
  <2>4. LoadedKept' /\ RecordedKept'
    BY <1>1, <1>2, <2>1 DEF LoadedKept, RecordedKept, Phases
  <2>5. CountSaved'
    BY <1>1, <2>1 DEF CountSaved
  <2> QED BY <1>1, <2>2, <2>3, <2>4, <2>5
<1>4. CASE row # NoRow
  <2>1. row \in Rows /\ GotoPhase(row, 1) /\ loaded' = {}
    BY <1>1, <1>2, <1>4
  <2> QED BY <1>1, <1>2, <2>1, BeginStep
<1> QED BY <1>3, <1>4

\* The next row.
LEMMA TakeStep ==
    ASSUME CacheInv, CanTake, NEW type \in Types, NEW x \in Item, TakeRow(type, x)
    PROVE  CacheInv'
<1>1. pc = "idle"
  BY DEF CanTake
<1>2. PICK r : r = [type |-> type, tx |-> x]
  OBVIOUS
<1>3. r \in Rows
  BY <1>2, ProgramFacts DEF Rows
<1>4. /\ row' = r /\ GotoPhase(r, 1) /\ loaded' = {}
      /\ store' = store /\ cache' = cache /\ count' = count
  BY <1>2 DEF TakeRow, GotoPhase
<1>5. \A a \in DOMAIN cache : cache[a] = store.addr[a]
  <2>1. \A a : ~Unflushed(a)
    BY <1>1 DEF Unflushed, BeforeFlush
  <2> QED BY <1>1, <2>1 DEF CacheInv, CacheExplained, Explained
<1>6. count = store.pool
  BY <1>1 DEF CacheInv, CountSaved
<1> QED BY <1>3, <1>4, <1>5, <1>6, BeginStep

\* The initial load.
LEMMA InitCache == Init => CacheInv
<1> SUFFICES ASSUME Init PROVE CacheInv
  OBVIOUS
<1>1. /\ row = NoRow /\ pc = "idle" /\ todo = {} /\ store = InitStore
      /\ cache = <<>> /\ loaded = {} /\ count = 0
  BY DEF Init
<1>2. ASSUME NEW a \in Address PROVE Cardinality(OldEntries(a)) \in Nat
  <2>1. OldEntries(a) \subseteq Outpoint /\ IsFiniteSet(Outpoint)
    BY AddressAssumption DEF OldEntries
  <2>2. IsFiniteSet(OldEntries(a))
    BY <2>1, FS_Subset
  <2> QED BY <2>2, FS_CardinalityType
<1>3. DOMAIN store = {"tx", "spentBy", "unconfirmed", "addr", "list", "idx", "unspent",
                    "unspentIdx", "pool"}
  BY <1>1 DEF InitStore
<1>4. DOMAIN store.addr = Address /\ DOMAIN store.list = Address /\ DOMAIN store.unspent = Address
  BY <1>1 DEF InitStore
<1>5. ASSUME NEW a \in Address PROVE InfoOK(store.addr[a])
  <2> PICK c : c = Cardinality(OldEntries(a))
    OBVIOUS
  <2>1. store.addr[a] = [NewInfo EXCEPT !.unspentTxCount = c, !.unspentTxIndex = c - 1]
    BY <1>1 DEF InitStore
  <2>2. c \in Nat
    BY <1>2
  <2> QED BY <2>1, <2>2 DEF InfoOK, NewInfo
<1>6. ASSUME NEW a \in Address PROVE DOMAIN store.list[a] \subseteq Nat
  <2>1. store.list[a] = <<>>
    BY <1>1 DEF InitStore
  <2>2. DOMAIN store.list[a] = {}
    BY <2>1
  <2> QED BY <2>2
<1>7. ASSUME NEW a \in Address PROVE DOMAIN store.unspent[a] \subseteq Nat
  <2> PICK c : c = Cardinality(OldEntries(a))
    OBVIOUS
  <2>1. DOMAIN store.unspent[a] = 0..(c - 1)
    BY <1>1 DEF InitStore
  <2>2. c \in Nat
    BY <1>2
  <2> QED BY <2>1, <2>2
<1>8. StoreOK(store)
  BY <1>3, <1>4, <1>5, <1>6, <1>7 DEF StoreOK
<1>9. store.pool = 0
  BY <1>1 DEF InitStore
<1>10. DOMAIN cache = {}
  BY <1>1
<1>11. Control
  BY <1>1 DEF Control, Phases
<1>12. CacheTyped /\ CacheExplained
  BY <1>10 DEF CacheTyped, CacheExplained
<1>13. LoadedKept /\ RecordedKept
  BY <1>1 DEF LoadedKept, RecordedKept, Phases
<1>14. CountSaved
  BY <1>1, <1>9 DEF CountSaved
<1> QED BY <1>8, <1>11, <1>12, <1>13, <1>14 DEF CacheInv

\* Every step keeps the invariant of the cache.
LEMMA NextCache == CacheInv /\ [Next]_vars => CacheInv'
<1> SUFFICES ASSUME CacheInv, [Next]_vars PROVE CacheInv'
  OBVIOUS
<1>1. CASE UNCHANGED vars
  <2>1. /\ row' = row /\ pc' = pc /\ todo' = todo /\ store' = store
        /\ cache' = cache /\ loaded' = loaded /\ count' = count
    BY <1>1 DEF vars
  <2>2. Control' /\ CacheTyped'
    BY <2>1 DEF CacheInv, Control, CacheTyped, InPhase
  <2>3. CacheExplained' /\ LoadedKept'
    BY <2>1 DEF CacheInv, CacheExplained, LoadedKept, Explained, Unflushed
  <2>4. RecordedKept' /\ CountSaved'
    BY <2>1 DEF CacheInv, RecordedKept, CountSaved, Recorded, Unflushed
  <2> QED BY <2>1, <2>2, <2>3, <2>4 DEF CacheInv
<1>2. ASSUME NEW t \in Tx, TakeTx(t) PROVE CacheInv'
  <2>1. CanTake /\ \E type \in Types : TakeRow(type, t)
    BY <1>2 DEF TakeTx, Types
  <2>2. t \in Item
    BY DEF Item
  <2> QED BY <2>1, <2>2, TakeStep
<1>3. ASSUME NEW b \in Block, TakeCoinbase(b) PROVE CacheInv'
  <2>1. CanTake /\ \E type \in Types : TakeRow(type, b)
    BY <1>3 DEF TakeCoinbase, Types
  <2>2. b \in Item
    BY DEF Item
  <2> QED BY <2>1, <2>2, TakeStep
<1>4. CASE AcceptOutput \/ AcceptInput \/ RejectInput \/ RejectOutput \/ UnspentMissing
  BY <1>4, AcceptOutputStep, AcceptInputStep, RejectInputStep, RejectOutputStep, FailStep
<1>5. CASE SetSpends \/ SetObject \/ SetUnconfirmed \/ CountUnconfirmed
  BY <1>5, SetSpendsStep, SetObjectStep, SetUnconfirmedStep, CountUnconfirmedStep
<1>6. CASE AcceptList \/ SwitchTxNode \/ ConfirmList \/ UnconfirmList \/ RejectList \/ ListFails
  BY <1>6, AcceptListStep, SwitchStep, ConfirmListStep, UnconfirmListStep, RejectListStep, FailStep
<1>7. CASE FlushAddressInfo \/ SaveId \/ Crash \/ Restart
  BY <1>7, FlushStep, SaveStep, CrashStep, RestartStep
<1> QED BY <1>1, <1>2, <1>3, <1>4, <1>5, <1>6, <1>7 DEF Next

\* The invariant of the cache holds, whatever crashes and whatever the cache drops.
THEOREM CacheInvHolds == Spec => []CacheInv
BY InitCache, NextCache, PTL DEF Spec

\* A round that is not one of an exchange, where none is under way.
LEMMA RestTyped ==
    ASSUME MoveTyped, moving' = moving, moving = NoMove PROVE MoveTyped'
BY DEF MoveTyped

\* Every step keeps that.
LEMMA NextMove ==
    ASSUME CacheInv, MoveTyped, [Next]_vars PROVE MoveTyped'
<1>1. CASE UNCHANGED vars
  BY <1>1 DEF vars, MoveTyped
<1>2. CASE \/ \E t \in Tx : TakeTx(t)
           \/ \E b \in Block : TakeCoinbase(b)
  <2>1. PICK type, x : CanTake /\ TakeRow(type, x)
    BY <1>2 DEF TakeTx, TakeCoinbase
  <2>2. moving' = moving /\ moving = NoMove
    BY <2>1 DEF CanTake, TakeRow, MoveTyped
  <2> QED BY <2>2, RestTyped
<1>3. CASE \/ AcceptOutput \/ AcceptInput \/ RejectInput \/ RejectOutput \/ UnspentMissing
           \/ SetSpends \/ SetObject \/ SetUnconfirmed \/ CountUnconfirmed
           \/ FlushAddressInfo \/ SaveId
  <2>1. moving' = moving
    BY <1>3 DEF AcceptOutput, AcceptInput, RejectInput, RejectOutput, UnspentMissing, SetSpends,
                SetObject, SetUnconfirmed, CountUnconfirmed, FlushAddressInfo, SaveId, Done, Fail
  <2>2. pc # "list"
    BY <1>3 DEF AcceptOutput, AcceptInput, RejectInput, RejectOutput, UnspentMissing, SetSpends,
                SetObject, SetUnconfirmed, CountUnconfirmed, FlushAddressInfo, SaveId, In
  <2>3. moving = NoMove
    BY <2>2 DEF MoveTyped
  <2> QED BY <2>1, <2>3, RestTyped
<1>4. CASE AcceptList \/ ConfirmList \/ UnconfirmList \/ RejectList \/ ListFails
  <2>1. moving' = moving
    BY <1>4 DEF AcceptList, ConfirmList, UnconfirmList, RejectList, ListFails, Done, Fail
  <2>2. row.type \notin {"confirm", "reject"} \/ moving = NoMove
    BY <1>4 DEF AcceptList, ConfirmList, UnconfirmList, RejectList, ListFails, AtNode, In
  <2>3. moving = NoMove
    BY <2>2 DEF MoveTyped
  <2> QED BY <2>1, <2>3, RestTyped
<1>5. CASE SwitchFirstNode
  <2>1. pc = "list" /\ row.type \in {"confirm", "reject"} /\ pc' = pc /\ row' = row
    BY <1>5 DEF SwitchFirstNode, AtNode, In, Switching
  <2>2. moving'.step = 1 /\ DOMAIN moving' = {"step", "place", "from", "first", "second"}
    BY <1>5 DEF SwitchFirstNode
  <2> QED BY <2>1, <2>2 DEF MoveTyped
<1>6. CASE SwitchSecondNode \/ SwitchFirstIndex
  <2>1. PICK k \in {2, 3} : moving' = [moving EXCEPT !.step = k]
    BY <1>6 DEF SwitchSecondNode, SwitchFirstIndex
  <2>2. moving.step \in {1, 2} /\ pc' = pc /\ row' = row
    BY <1>6 DEF SwitchSecondNode, SwitchFirstIndex, Switching
  <2>3. DOMAIN moving = {"step", "place", "from", "first", "second"}
    BY DEF MoveTyped
  <2>4. moving'.step = k /\ DOMAIN moving' = DOMAIN moving
    BY <2>1, <2>3
  <2>5. moving # NoMove
    BY <2>2 DEF NoMove
  <2> QED BY <2>2, <2>3, <2>4, <2>5 DEF MoveTyped
<1>7. CASE SwitchSecondIndex \/ Crash
  <2>1. moving' = NoMove
    BY <1>7 DEF SwitchSecondIndex, Crash
  <2> QED BY <2>1 DEF MoveTyped, NoMove
<1>8. CASE Restart
  <2>1. moving' = moving /\ pc = "down"
    BY <1>8 DEF Restart
  <2> QED BY <2>1, RestTyped DEF MoveTyped
<1> QED BY <1>1, <1>2, <1>3, <1>4, <1>5, <1>6, <1>7, <1>8 DEF Next, SwitchTxNode

\* It holds at the beginning, and so always.
LEMMA MoveTypedHolds == Spec => []MoveTyped
<1>1. Init => MoveTyped
  BY DEF Init, MoveTyped, NoMove
<1> QED BY <1>1, NextMove, CacheInvHolds, PTL DEF Spec

\* Type correctness: rows, cache, the indices of the lists, and the exchange.
THEOREM TypeCorrect == Spec => []TypeOK
<1>1. ASSUME CacheInv, MoveTyped PROVE TypeOK
  <2>1. row \in Rows \cup {NoRow}
    BY <1>1 DEF CacheInv, Control
  <2>2. DOMAIN cache \subseteq Address /\ loaded \subseteq DOMAIN cache
    BY <1>1 DEF CacheInv, CacheTyped, LoadedKept
  <2>3. \A a \in Address : DOMAIN store.list[a] \subseteq Nat /\ DOMAIN store.unspent[a] \subseteq Nat
    BY <1>1 DEF CacheInv, StoreOK
  <2>4. row = NoRow => pc \in {"idle", "down"}
    <3>1. row = NoRow => pc \notin Phases /\ pc # "aborted"
      BY <1>1, NoRowFacts DEF CacheInv, Control, InPhase
    <3> QED BY <1>1, <3>1 DEF CacheInv, Control
  <2>5. moving.step \in 0..3 /\ (moving # NoMove => In("list", {"confirm", "reject"}))
    BY <1>1 DEF MoveTyped, In
  <2> QED BY <2>1, <2>2, <2>3, <2>4, <2>5 DEF TypeOK, Rows
<1> QED BY <1>1, CacheInvHolds, MoveTypedHolds, PTL

\* Between two rows the cache of _getAddressInfo() holds what the 20_ keys hold,
\* and the counter in memory is the one in the store, although a row changes the
\* cache first, may be interrupted by crashes and by cleanings of the cache, and
\* flushes address by address.
THEOREM CacheFollowsStore == Spec => []CacheMatchesStore
<1>1. ASSUME CacheInv PROVE CacheMatchesStore
  <2>1. SUFFICES ASSUME pc = "idle"
                 PROVE  (\A a \in DOMAIN cache : cache[a] = store.addr[a]) /\ count = store.pool
    BY DEF CacheMatchesStore, AtRest
  <2>2. \A a : ~Unflushed(a)
    BY <2>1 DEF Unflushed, BeforeFlush
  <2> QED BY <1>1, <2>1, <2>2 DEF CacheInv, CacheExplained, Explained, CountSaved
<1> QED BY <1>1, CacheInvHolds, PTL

-----------------------------------------------------------------------------
(* What a row has still to do. *)

\* Behind a phase, by the numbers of the phases.
LEMMA AheadFacts ==
    ASSUME row \in Rows, NEW k \in 1..Len(Program[row.type]),
           NEW j \in 1..Len(Program[row.type])
    PROVE  /\ Ahead(Program[row.type][k], Program[row.type][j]) <=> k < j
           /\ Program[row.type][k] = Program[row.type][j] <=> k = j
<1> PICK P : P = Program[row.type]
  OBVIOUS
<1> PICK n : n = Len(P)
  OBVIOUS
<1>1. n \in 1..9 /\ \A a, b \in 1..n : P[a] = P[b] => a = b
  BY ProgramFacts DEF Rows, ProgramOK
<1>2. Ahead(P[k], P[j]) => k < j
  BY <1>1 DEF Ahead
<1>3. k < j => Ahead(P[k], P[j])
  BY DEF Ahead
<1> QED BY <1>1, <1>2, <1>3

\* A jump: nothing of the phases behind it is lost, and nothing before it left.
LEMMA RestJump ==
    ASSUME NEW r \in Rows, NEW i \in 1..Len(Program[r.type]), GotoPhase(r, i), row' = r
    PROVE  \A j \in 1..Len(Program[r.type]) :
             Rest(Program[r.type][j])' = IF j < i THEN {} ELSE Work(Program[r.type][j], r.tx)
<1> PICK P : P = Program[r.type]
  OBVIOUS
<1> PICK n : n = Len(P)
  OBVIOUS
<1>1. PICK k \in i..n :
         /\ pc' = P[k] /\ todo' = Work(pc', r.tx)
         /\ \A j \in i..(k - 1) : Work(P[j], r.tx) = {}
  BY GotoFacts
<1>2. n \in 1..9 /\ (\A a \in 1..n : P[a] \in Phases) /\ \A a, b \in 1..n : P[a] = P[b] => a = b
  BY ProgramFacts DEF Rows, ProgramOK
<1>3. k \in 1..n /\ i \in 1..n /\ i <= k
  BY <1>1, <1>2
<1>4. pc' \in Phases /\ pc' # "down"
  BY <1>1, <1>2, <1>3 DEF Phases
<1>5. ASSUME NEW j \in 1..n
      PROVE  Rest(P[j])' = IF j < i THEN {} ELSE Work(P[j], r.tx)
  <2> PICK p : p = P[j]
    OBVIOUS
  <2>1. pc' = p <=> k = j
    BY <1>1, <1>2, <1>3
  <2>2. Ahead(pc, p)' <=> k < j
    <3>1. Ahead(pc, p)' => k < j
      BY <1>1, <1>2, <1>3 DEF Ahead
    <3>2. k < j => Ahead(pc, p)'
      BY <1>1, <1>2, <1>3 DEF Ahead
    <3> QED BY <3>1, <3>2
  <2>3. Rest(p)' = IF k = j THEN todo' ELSE IF k < j THEN Work(p, r.tx) ELSE {}
    BY <1>4, <2>1, <2>2 DEF Rest
  <2>4. CASE k = j
    <3>1. ~(j < i)
      BY <1>3, <1>2, <2>4
    <3> QED BY <1>1, <2>3, <2>4, <3>1
  <2>5. CASE k < j
    <3>1. ~(j < i) /\ k # j
      BY <1>3, <1>2, <2>5
    <3> QED BY <2>3, <2>5, <3>1
  <2>6. CASE j < k
    <3>1. k # j /\ ~(k < j)
      BY <1>2, <1>3, <2>6
    <3>2. ~(j < i) => Work(P[j], r.tx) = {}
      <4>1. ~(j < i) => j \in i..(k - 1)
        BY <1>2, <1>3, <2>6
      <4> QED BY <1>1, <4>1
    <3> QED BY <2>3, <3>1, <3>2
  <2>7. k = j \/ k < j \/ j < k
    BY <1>2, <1>3
  <2> QED BY <2>4, <2>5, <2>6, <2>7
<1> QED BY <1>5

\* A phase that the program does not have has no rounds.
LEMMA RestForeign ==
    ASSUME row \in Rows, pc \in Phases => PhaseOf(row, pc), NEW p, ~PhaseOf(row, p)
    PROVE  Rest(p) = {} /\ Full(p) = {}
BY DEF Rest, Full, PhaseOf, Ahead

\* A program has a first phase.
LEMMA FirstPhase ==
    ASSUME NEW r \in Rows
    PROVE  1 \in 1..Len(Program[r.type])
<1> PICK n : n = Len(Program[r.type])
  OBVIOUS
<1>1. n \in 1..9
  BY ProgramFacts DEF Rows, ProgramOK
<1>2. \A m \in 1..9 : 1 \in 1..m
  OBVIOUS
<1> QED BY <1>1, <1>2

\* The beginning of a row: everything is to be done.
LEMMA RestBegin ==
    ASSUME NEW r \in Rows, GotoPhase(r, 1), row' = r, NEW p
    PROVE  Rest(p)' = Full(p)'
<1> PICK P : P = Program[r.type]
  OBVIOUS
<1> PICK n : n = Len(P)
  OBVIOUS
<1>1. n \in 1..9
  BY ProgramFacts DEF Rows, ProgramOK
<1>2. 1 \in 1..n
  BY FirstPhase
<1>3. pc' \in Phases /\ InPhase'
  BY <1>2, Arrive
<1>4. CASE PhaseOf(r, p)
  <2>1. PICK j \in 1..n : p = P[j]
    BY <1>4 DEF PhaseOf
  <2>2. \A i \in 1..n : Rest(P[i])' = IF i < 1 THEN {} ELSE Work(P[i], r.tx)
    BY <1>2, RestJump
  <2>3. ~(j < 1)
    BY <1>1
  <2>4. Rest(p)' = Work(p, r.tx)
    BY <2>1, <2>2, <2>3
  <2> QED BY <1>4, <2>4, NoRowFacts DEF Full
<1>5. CASE ~PhaseOf(r, p)
  <2>1. ~Ahead(pc, p)' /\ pc' # p
    BY <1>3, <1>5 DEF Ahead, PhaseOf, InPhase
  <2>2. Rest(p)' = {}
    BY <1>3, <2>1 DEF Rest, Phases
  <2> QED BY <1>5, <2>2 DEF Full
<1> QED BY <1>4, <1>5

\* The end of a round: one round less in its phase, all the others as before.
LEMMA RestStep ==
    ASSUME InPhase, pc \in Phases, pc # "save", NEW e \in todo, Done(e), NEW p
    PROVE  Rest(p)' = IF p = pc THEN Rest(p) \ {e} ELSE Rest(p)
<1> PICK P : P = Program[row.type]
  OBVIOUS
<1> PICK n : n = Len(P)
  OBVIOUS
<1>0. row' = row /\ row \in Rows /\ pc # "down"
  BY DEF Done, InPhase, Phases
<1>1. n \in 1..9
  BY <1>0, ProgramFacts DEF Rows, ProgramOK
<1>2. CASE todo # {e}
  <2>1. pc' = pc /\ todo' = todo \ {e}
    BY <1>2 DEF Done
  <2> QED BY <1>0, <2>1 DEF Rest, Ahead
<1>3. CASE todo = {e}
  <2> PICK m : m = PhaseNo
    OBVIOUS
  <2> PICK i : i = m + 1
    OBVIOUS
  <2>1. GotoPhase(row, i)
    BY <1>3 DEF Done
  <2>2. m \in 1..n /\ P[m] = pc /\ i \in 1..n
    BY PhaseNoFacts
  <2>3. CASE PhaseOf(row, p)
    <3>1. PICK j \in 1..n : p = P[j]
      BY <2>3 DEF PhaseOf
    <3>2. \A l \in 1..n : Rest(P[l])' = IF l < i THEN {} ELSE Work(P[l], row.tx)
      BY <1>0, <2>1, <2>2, RestJump
    <3>3. Rest(p)' = IF j < i THEN {} ELSE Work(p, row.tx)
      BY <3>1, <3>2
    <3>4. j < i <=> j < m \/ j = m
      BY <1>1, <2>2
    <3>5. (p = pc <=> m = j) /\ (Ahead(pc, p) <=> m < j)
      BY <1>0, <2>2, <3>1, AheadFacts
    <3>6. CASE m = j
      BY <1>0, <1>3, <3>3, <3>4, <3>5, <3>6 DEF Rest
    <3>7. CASE m < j
      <4>1. ~(j < i) /\ m # j
        BY <1>1, <2>2, <3>7
      <4> QED BY <1>0, <3>3, <3>5, <3>7, <4>1 DEF Rest
    <3>8. CASE j < m
      <4>1. j < i /\ m # j /\ ~(m < j)
        BY <1>1, <2>2, <3>8
      <4> QED BY <1>0, <3>3, <3>5, <4>1 DEF Rest
    <3>9. m = j \/ m < j \/ j < m
      BY <1>1, <2>2
    <3> QED BY <3>6, <3>7, <3>8, <3>9
  <2>4. CASE ~PhaseOf(row, p)
    <3>1. pc' \in Phases /\ InPhase' /\ pc' # "down"
      BY Advance DEF Phases
    <3>2. Rest(p) = {} /\ p # pc
      BY <1>0, <2>4, RestForeign DEF InPhase
    <3>3. pc' # p /\ ~Ahead(pc, p)'
      BY <1>0, <2>4, <3>1 DEF InPhase, Ahead, PhaseOf
    <3> QED BY <3>1, <3>2, <3>3 DEF Rest
  <2> QED BY <2>3, <2>4
<1> QED BY <1>2, <1>3

\* What is left is a part of the whole.
LEMMA RestInFull ==
    ASSUME Control, NEW p
    PROVE  Rest(p) \subseteq Full(p) /\ Full(p) \subseteq Work(p, row.tx)
<1>1. CASE pc \in Phases
  <2>1. InPhase /\ row # NoRow /\ pc # "down"
    BY <1>1, NoRowFacts DEF Control, InPhase, Phases
  <2>2. pc = p => PhaseOf(row, p) /\ todo \subseteq Work(p, row.tx)
    BY <2>1 DEF InPhase
  <2>3. Ahead(pc, p) => PhaseOf(row, p)
    BY DEF Ahead, PhaseOf
  <2> QED BY <1>1, <2>1, <2>2, <2>3 DEF Rest, Full
<1>2. CASE pc \notin Phases
  BY <1>2 DEF Rest, Full
<1> QED BY <1>1, <1>2

\* The first three phases of the handlers.
LEMMA FirstPhases ==
    /\ Program["accept"][1] = "outputs" /\ Program["accept"][2] = "object"
    /\ Program["accept"][3] = "inputs"
    /\ Program["reject"][1] = "spends" /\ Program["reject"][2] = "inputs"
    /\ Program["reject"][3] = "outputs"
    /\ Program["confirm"][1] = "list" /\ Program["confirm"][2] = "object"
    /\ Program["confirm"][3] = "flush"
    /\ Program["unconfirm"][1] = "list" /\ Program["unconfirm"][2] = "object"
    /\ Program["unconfirm"][3] = "flush"
    /\ \A t \in Types : Len(Program[t]) > 3
<1>1. /\ Program["accept"] = <<"outputs", "object", "inputs", "spends", "list", "mempool",
                  "flush", "pool", "save">>
      /\ Program["confirm"] = <<"list", "object", "flush", "pool", "save">>
      /\ Program["unconfirm"] = <<"list", "object", "flush", "pool", "save">>
      /\ Program["reject"] = <<"spends", "inputs", "outputs", "object", "list", "flush",
                               "pool", "save">>
  BY DEF Program
<1>2. /\ Program["accept"][1] = "outputs" /\ Program["accept"][2] = "object"
      /\ Program["accept"][3] = "inputs" /\ Len(Program["accept"]) = 9
  BY <1>1
<1>3. /\ Program["reject"][1] = "spends" /\ Program["reject"][2] = "inputs"
      /\ Program["reject"][3] = "outputs" /\ Len(Program["reject"]) = 8
  BY <1>1
<1>4. /\ Program["confirm"][1] = "list" /\ Program["confirm"][2] = "object"
      /\ Program["confirm"][3] = "flush" /\ Len(Program["confirm"]) = 5
  BY <1>1
<1>5. /\ Program["unconfirm"][1] = "list" /\ Program["unconfirm"][2] = "object"
      /\ Program["unconfirm"][3] = "flush" /\ Len(Program["unconfirm"]) = 5
  BY <1>1
<1>6. ASSUME NEW t \in Types PROVE Len(Program[t]) > 3
  <2>1. Len(Program[t]) \in {9, 8, 5}
    BY <1>2, <1>3, <1>4, <1>5 DEF Types
  <2>2. \A n \in {9, 8, 5} : n > 3
    OBVIOUS
  <2> QED BY <2>1, <2>2
<1> QED BY <1>2, <1>3, <1>4, <1>5, <1>6

\* In the middle of an exchange nothing is repeatable.
LEMMA RepeatableResumes ==
    /\ Repeatable => Resumable
    /\ Repeatable /\ row.type = "confirm" /\ pc = "list" => moving.step # 1
BY DEF Repeatable, Resumable, HalfMoved

\* A row can be resumed as long as its handler is not beyond the beginning of the
\* third phase.
LEMMA ResumableNo ==
    ASSUME InPhase, pc \in Phases
    PROVE  Resumable <=> PhaseNo <= 2 \/ (PhaseNo = 3 /\ todo = Work(pc, row.tx))
<1> PICK P : P = Program[row.type]
  OBVIOUS
<1> PICK n : n = Len(P)
  OBVIOUS
<1> PICK m : m = PhaseNo
  OBVIOUS
<1>1. row.type \in Types /\ n \in 1..9 /\ n > 3 /\ \A i, j \in 1..n : P[i] = P[j] => i = j
  BY NoRowFacts, ProgramFacts, FirstPhases DEF InPhase, ProgramOK
<1>2. m \in 1..n /\ P[m] = pc
  BY PhaseNoFacts
<1>3. 1 \in 1..n /\ 2 \in 1..n /\ 3 \in 1..n
  BY <1>1
<1>4. (pc = P[1] <=> m = 1) /\ (pc = P[2] <=> m = 2) /\ (pc = P[3] <=> m = 3)
  BY <1>1, <1>2, <1>3
<1>5. m <= 2 <=> pc \in {P[1], P[2]}
  BY <1>1, <1>2, <1>4
<1>6. pc # "idle"
  BY DEF Phases
<1>7. Resumable <=> pc \in {P[1], P[2]} \/ (pc = P[3] /\ todo = Work(pc, row.tx))
  <2>1. CASE row.type = "accept"
    <3>1. P[1] = "outputs" /\ P[2] = "object" /\ P[3] = "inputs"
      BY <2>1, FirstPhases
    <3> QED BY <1>6, <2>1, <3>1 DEF Resumable
  <2>2. CASE row.type = "reject"
    <3>1. P[1] = "spends" /\ P[2] = "inputs" /\ P[3] = "outputs"
      BY <2>2, FirstPhases
    <3> QED BY <1>6, <2>2, <3>1 DEF Resumable
  <2>3. CASE row.type \in {"confirm", "unconfirm"}
    <3>1. P[1] = "list" /\ P[2] = "object" /\ P[3] = "flush"
      BY <2>3, FirstPhases
    <3> QED BY <1>6, <2>3, <3>1 DEF Resumable
  <2> QED BY <1>1, <2>1, <2>2, <2>3 DEF Types
<1> QED BY <1>4, <1>5, <1>7

\* A round after which the row can still be repeated is one of the first two phases.
LEMMA ResumableStep ==
    ASSUME InPhase, pc \in Phases, pc # "save", NEW e \in todo, Done(e), Resumable'
    PROVE  /\ Resumable /\ pc \in {Program[row.type][1], Program[row.type][2]}
           /\ pc # "flush" /\ pc # "pool"
<1> PICK P : P = Program[row.type]
  OBVIOUS
<1> PICK n : n = Len(P)
  OBVIOUS
<1> PICK m : m = PhaseNo
  OBVIOUS
<1> PICK k : k = PhaseNo'
  OBVIOUS
<1>1. row' = row /\ row \in Rows /\ pc' \in Phases /\ InPhase'
  BY Advance DEF Done, InPhase
<1>2. n \in 1..9 /\ \A i, j \in 1..n : P[i] = P[j] => i = j
  BY <1>1, ProgramFacts DEF Rows, ProgramOK
<1>3. m \in 1..n /\ P[m] = pc /\ m + 1 \in 1..n
  BY PhaseNoFacts
<1>4. k \in 1..n /\ P[k] = pc'
  BY <1>1 DEF InPhase, PhaseOf, PhaseNo
<1>5. k <= 2 \/ (k = 3 /\ todo' = Work(pc', row.tx))
  <2>1. (InPhase /\ pc \in Phases)' =>
           (Resumable <=> PhaseNo <= 2 \/ (PhaseNo = 3 /\ todo = Work(pc, row.tx)))'
    BY ResumableNo, PTL
  <2> QED BY <1>1, <2>1
<1>6. m <= 2
  <2>1. CASE todo # {e}
    <3>1. pc' = pc /\ todo' = todo \ {e}
      BY <2>1 DEF Done
    <3>2. k = m
      BY <1>2, <1>3, <1>4, <3>1
    <3>3. e \in Work(pc, row.tx)
      BY DEF InPhase
    <3>4. todo' # Work(pc', row.tx)
      BY <3>1, <3>3
    <3> QED BY <1>5, <3>2, <3>4
  <2>2. CASE todo = {e}
    <3>1. GotoPhase(row, m + 1)
      BY <2>2 DEF Done
    <3> PICK i : i = m + 1
      OBVIOUS
    <3>2. \E j \in i..n : pc' = P[j]
      <4>1. i \in 1..Len(Program[row.type]) /\ GotoPhase(row, i)
        BY <1>3, <3>1
      <4> QED BY <1>1, <4>1, GotoFacts
    <3>3. PICK j \in i..n : pc' = P[j]
      BY <3>2
    <3>4. j \in 1..n /\ m < j
      BY <1>2, <1>3, <3>3
    <3>5. j = k
      BY <1>2, <1>4, <3>3, <3>4
    <3>6. k <= 3
      BY <1>2, <1>4, <1>5
    <3> QED BY <1>2, <1>3, <1>4, <3>4, <3>5, <3>6
  <2> QED BY <2>1, <2>2
<1>7. Resumable
  BY <1>6, ResumableNo
<1>8. pc = P[1] \/ pc = P[2]
  <2>1. m = 1 \/ m = 2
    BY <1>2, <1>3, <1>6
  <2> QED BY <1>3, <2>1
<1>9. P[1] \notin {"flush", "pool"} /\ P[2] \notin {"flush", "pool"}
  BY <1>1, FirstPhases, NoRowFacts DEF Types
<1> QED BY <1>7, <1>8, <1>9

\* While a row can be repeated, its phase "pool" is still to come.
LEMMA PoolAhead ==
    ASSUME InPhase, pc \in Phases, Resumable
    PROVE  Rest("pool") = {row.tx} /\ Full("pool") = {row.tx}
<1> PICK P : P = Program[row.type]
  OBVIOUS
<1> PICK n : n = Len(P)
  OBVIOUS
<1> PICK m : m = PhaseNo
  OBVIOUS
<1>0. row \in Rows /\ row.type \in Types /\ row # NoRow /\ pc # "down"
  BY NoRowFacts DEF InPhase, Phases
<1>1. PICK j \in 4..n : P[j] = "pool"
  <2>1. /\ Program["accept"][8] = "pool" /\ Len(Program["accept"]) = 9
        /\ Program["reject"][7] = "pool" /\ Len(Program["reject"]) = 8
        /\ Program["confirm"][4] = "pool" /\ Len(Program["confirm"]) = 5
        /\ Program["unconfirm"][4] = "pool" /\ Len(Program["unconfirm"]) = 5
    <3>1. /\ Program["accept"] = <<"outputs", "object", "inputs", "spends", "list", "mempool",
                  "flush", "pool", "save">>
          /\ Program["confirm"] = <<"list", "object", "flush", "pool", "save">>
          /\ Program["unconfirm"] = <<"list", "object", "flush", "pool", "save">>
          /\ Program["reject"] = <<"spends", "inputs", "outputs", "object", "list", "flush",
                               "pool", "save">>
      BY DEF Program
    <3> QED BY <3>1
  <2>2. 8 \in 4..9 /\ 7 \in 4..8 /\ 4 \in 4..5
    OBVIOUS
  <2> QED BY <1>0, <2>1, <2>2 DEF Types
<1>2. n \in 1..9
  BY <1>0, ProgramFacts DEF Rows, ProgramOK
<1>3. m \in 1..n /\ P[m] = pc
  BY PhaseNoFacts
<1>4. m <= 3
  <2>1. m <= 2 \/ m = 3
    BY ResumableNo
  <2> QED BY <1>2, <1>3, <2>1
<1>5. j \in 1..n /\ m < j
  BY <1>1, <1>2, <1>3, <1>4
<1>6. Ahead(pc, "pool") /\ pc # "pool"
  <2>1. j # m
    BY <1>2, <1>3, <1>5
  <2> QED BY <1>0, <1>1, <1>3, <1>5, <2>1, AheadFacts
<1>7. PhaseOf(row, "pool")
  BY <1>1, <1>5 DEF PhaseOf
<1>8. Work("pool", row.tx) = {row.tx}
  BY DEF Work
<1> QED BY <1>0, <1>6, <1>7, <1>8 DEF Rest, Full

-----------------------------------------------------------------------------
(* The address objects that the handlers see. *)

\* What a cleaning drops is then in the 20_ keys.
LEMMA DropsSaved ==
    ASSUME StillWhole, NEW a, NEW info, Put(a, info), NEW b \in DOMAIN cache \ DOMAIN cache'
    PROVE  cache[b] = store.addr[b]
<1>1. PICK gone \in IF a \in DOMAIN cache \/ evicts = MaxEvict THEN {{}} ELSE SUBSET Droppable :
        /\ cache' = With([c \in DOMAIN cache \ gone |-> cache[c]], a, info)
        /\ evicts' = IF gone = {} THEN evicts ELSE evicts + 1
  BY DEF Put
<1>2. b \in gone
  BY <1>1 DEF With
<1>3. gone \subseteq Droppable
  BY <1>1, <1>2
<1>4. ~EvictDirty
  <2>1. evicts' = evicts + 1
    BY <1>1, <1>2
  <2> QED BY <2>1 DEF StillWhole, Whole
<1> QED BY <1>2, <1>3, <1>4 DEF Droppable

\* Changing the object of one address changes what is seen of that address only,
\* as long as no change is lost.
LEMMA PutInfo ==
    ASSUME StillWhole, NEW a \in Address, NEW info, Put(a, info),
           \A b \in Address \ {a} : store'.addr[b] = store.addr[b]
    PROVE  \A b \in Address : GetAddressInfo(b)' = IF b = a THEN info ELSE GetAddressInfo(b)
<1>1. /\ a \in DOMAIN cache' /\ DOMAIN cache' \subseteq DOMAIN cache \cup {a}
      /\ cache'[a] = info
      /\ \A b \in DOMAIN cache' \ {a} : cache'[b] = cache[b]
  BY PutFacts
<1>2. GetAddressInfo(a)' = info
  BY <1>1 DEF GetAddressInfo
<1>3. ASSUME NEW b \in Address, b # a PROVE GetAddressInfo(b)' = GetAddressInfo(b)
  <2>1. CASE b \in DOMAIN cache'
    BY <1>1, <1>3, <2>1 DEF GetAddressInfo
  <2>2. CASE b \notin DOMAIN cache' /\ b \in DOMAIN cache
    <3>1. cache[b] = store.addr[b]
      BY <2>2, DropsSaved
    <3> QED BY <1>3, <2>2, <3>1 DEF GetAddressInfo
  <2>3. CASE b \notin DOMAIN cache' /\ b \notin DOMAIN cache
    BY <1>3, <2>3 DEF GetAddressInfo
  <2> QED BY <2>1, <2>2, <2>3
<1> QED BY <1>2, <1>3

\* A step that leaves cache and 20_ keys alone.
LEMMA KeepInfo ==
    ASSUME cache' = cache, store'.addr = store.addr
    PROVE  \A b \in Address : GetAddressInfo(b)' = GetAddressInfo(b)
BY DEF GetAddressInfo

\* Between two rows and after a crash the objects are those of the store.
LEMMA IdleInfo ==
    ASSUME CacheInv, pc \in {"idle", "down"}
    PROVE  \A b \in Address : GetAddressInfo(b) = store.addr[b]
<1>1. CASE pc = "idle"
  <2>1. \A a : ~Unflushed(a)
    BY <1>1 DEF Unflushed, BeforeFlush
  <2> QED BY <1>1, <2>1 DEF CacheInv, CacheExplained, Explained, GetAddressInfo
<1>2. CASE pc = "down"
  BY <1>2 DEF CacheInv, CountSaved, GetAddressInfo
<1> QED BY <1>1, <1>2

-----------------------------------------------------------------------------
(* The chain, and the place of a transaction in it. *)

\* A chain has a transaction in one block.
LEMMA TxOnce ==
    ASSUME NEW b \in Block \cup {Begin}, NEW c \in On(b), NEW d \in On(b),
           NEW t, t \in BlockTxs(c), t \in BlockTxs(d)
    PROVE  c = d
<1> DEFINE X == {x \in Block \cup {Begin} :
                    \A e, f \in On(x) : e # f => BlockTxs(e) \cap BlockTxs(f) = {}}
<1>1. Begin \in X
  BY OnFacts
<1>2. ASSUME NEW x \in Block, Prev[x] \in X PROVE x \in X
  <2>1. On(x) = {x} \cup On(Prev[x]) /\ Prev[x] \in Block \cup {Begin}
    BY OnFacts
  <2>2. ASSUME NEW e \in On(Prev[x]) PROVE BlockTxs(x) \cap BlockTxs(e) = {}
    <3>1. e \in {Chain[Prev[x]][i] : i \in 2..Len(Chain[Prev[x]])}
      BY <2>1, <2>2, ChainBlocks
    <3>2. BlockTxs(e) \subseteq ChainTxs(Prev[x])
      BY <3>1 DEF ChainTxs
    <3> QED BY <3>2, ChainAssumption
  <2> QED BY <1>2, <2>1, <2>2
<1> HIDE DEF X
<1>3. b \in X
  BY <1>1, <1>2, TreeInduction
<1> QED BY <1>3 DEF X

\* A confirmed transaction of a chain is not in the block behind the chain.
LEMMA TxNotAbove ==
    ASSUME NEW b \in Block, NEW c \in On(Prev[b]), NEW t, t \in BlockTxs(c)
    PROVE  t \notin BlockTxs(b)
<1>1. c \in On(b) /\ b \in On(b) /\ b # c
  BY OnFacts
<1> QED BY <1>1, TxOnce

\* ChainPos, which the model reads off Chain, is Pos of the tip.
LEMMA ChainPosFacts ==
    ASSUME tip \in Block \cup {Begin}, NEW x
    PROVE  ChainPos(x) = Pos(tip, x)
<1>1. {Chain[tip][i] : i \in 2..Len(Chain[tip])} = On(tip)
  BY ChainBlocks
<1>2. (CHOOSE c \in {Chain[tip][i] : i \in 2..Len(Chain[tip])} : x \in BlockTxs(c))
        = (CHOOSE c \in On(tip) : x \in BlockTxs(c))
  BY <1>1
<1>3. PICK d : d = CHOOSE c \in {Chain[tip][i] : i \in 2..Len(Chain[tip])} : x \in BlockTxs(c)
  OBVIOUS
<1>4. ChainPos(x) = IF x \in Block THEN <<Height[x], 0>>
                    ELSE <<Height[d], CHOOSE i \in 1..Len(Vtx[d]) : Vtx[d][i] = x>>
  BY <1>3 DEF ChainPos
<1>5. Pos(tip, x) = IF x \in Block THEN <<Height[x], 0>>
                    ELSE <<Height[d], CHOOSE i \in 1..Len(Vtx[d]) : Vtx[d][i] = x>>
  <2>1. d = CHOOSE c \in On(tip) : x \in BlockTxs(c)
    BY <1>2, <1>3
  <2> QED BY <2>1 DEF Pos
<1> QED BY <1>4, <1>5

\* The place of a transaction is its index in the one block of the chain that has it.
LEMMA PosOfTx ==
    ASSUME NEW b \in Block \cup {Begin}, NEW c \in On(b), NEW i \in 1..Len(Vtx[c])
    PROVE  Pos(b, Vtx[c][i]) = <<Height[c], i>> /\ Vtx[c][i] \in Tx
<1> PICK t : t = Vtx[c][i]
  OBVIOUS
<1>0. c \in Block
  BY OnFacts
<1>1. t \in Tx /\ t \notin Block
  <2>1. Vtx[c] \in Seq(Tx)
    BY <1>0, TxGraphAssumption
  <2>2. t \in Tx
    BY <2>1
  <2> QED BY <2>2, TxGraphAssumption
<1>2. t \in BlockTxs(c)
  BY DEF BlockTxs
<1>3. PICK d : d = CHOOSE e \in On(b) : t \in BlockTxs(e)
  OBVIOUS
<1>4. d \in On(b) /\ t \in BlockTxs(d)
  BY <1>2, <1>3
<1>5. d = c
  BY <1>2, <1>4, TxOnce
<1>6. (CHOOSE j \in 1..Len(Vtx[c]) : Vtx[c][j] = t) = i
  <2>1. \A j \in 1..Len(Vtx[c]) : Vtx[c][j] = t => j = i
    BY <1>0, BlockAssumption
  <2> QED BY <2>1
<1> QED BY <1>1, <1>3, <1>5, <1>6 DEF Pos

-----------------------------------------------------------------------------
(* The ledger: what holds of the states s of the transactions and the tip b.   *)

\* From s to r the state of x becomes v.
Moves(s, r, x, v) == r \in [Item -> States] /\ r[x] = v /\ \A y \in Item : y # x => r[y] = s[y]

\* A move keeps the type of the ledger.
LEMMA MoveFacts ==
    ASSUME NEW s, NEW b, LedgerTyped(s, b), NEW x \in Item, NEW v, NEW r, Moves(s, r, x, v)
    PROVE  LedgerTyped(r, b)
<1>1. r \in [Item -> States] /\ r[x] = v /\ \A y \in Item : y # x => r[y] = s[y]
  BY DEF Moves
<1>2. PresentIn(r) \subseteq PresentIn(s) \cup {x}
  BY <1>1 DEF PresentIn
<1>3. IsFiniteSet(PresentIn(s) \cup {x})
  BY FS_AddElement DEF LedgerTyped
<1>4. IsFiniteSet(PresentIn(r))
  BY <1>2, <1>3, FS_Subset
<1> QED BY <1>1, <1>4 DEF LedgerTyped

\* Where a confirmed transaction is: in a confirmed block of the chain.
LEMMA ConfirmedPlace ==
    ASSUME NEW s, NEW b, LedgerOK(s, b), NEW c \in Item, s[c] = "confirmed"
    PROVE  \E d \in On(b) : \E i \in 0..Len(Vtx[d]) :
             /\ Pos(b, c) = <<Height[d], i>> /\ s[d] = "confirmed"
             /\ i = 0 => c = d
             /\ i > 0 => i \in 1..Len(Vtx[d]) /\ c = Vtx[d][i]
<1>0. b \in Block \cup {Begin}
  BY DEF LedgerOK, LedgerTyped
<1>1. CASE c \in Block
  <2>1. c \in On(b)
    BY <1>1 DEF LedgerOK, BlocksOnChain
  <2>2. Pos(b, c) = <<Height[c], 0>>
    BY <1>1 DEF Pos
  <2>3. 0 \in 0..Len(Vtx[c])
    <3>1. Vtx[c] \in Seq(Tx)
      BY <1>1, TxGraphAssumption
    <3>2. Len(Vtx[c]) \in Nat
      BY <3>1
    <3> QED BY <3>2
  <2> QED BY <2>1, <2>2, <2>3
<1>2. CASE c \in Tx
  <2>1. PICK d \in On(b) : c \in BlockTxs(d)
    BY <1>2 DEF LedgerOK, TxsOnChain
  <2>2. PICK i \in 1..Len(Vtx[d]) : c = Vtx[d][i]
    BY <2>1 DEF BlockTxs
  <2>3. Pos(b, c) = <<Height[d], i>>
    BY <1>0, <2>2, PosOfTx
  <2>4. s[d] = "confirmed"
    BY <2>1 DEF LedgerOK, BlockFirst
  <2>5. i \in 0..Len(Vtx[d]) /\ i > 0
    <3>1. d \in Block
      BY <1>0, OnFacts
    <3>2. Vtx[d] \in Seq(Tx)
      BY <3>1, TxGraphAssumption
    <3>3. Len(Vtx[d]) \in Nat
      BY <3>2
    <3> QED BY <3>3
  <2> QED BY <2>2, <2>3, <2>4, <2>5
<1> QED BY <1>1, <1>2 DEF Item

\* The place of a confirmed transaction is the same on a longer chain.
LEMMA PosStays ==
    ASSUME NEW s, NEW b \in Block, LedgerOK(s, Prev[b]), NEW c \in Item, s[c] = "confirmed"
    PROVE  Pos(b, c) = Pos(Prev[b], c)
<1>1. PICK d \in On(Prev[b]) : \E i \in 0..Len(Vtx[d]) :
             /\ Pos(Prev[b], c) = <<Height[d], i>>
             /\ i = 0 => c = d
             /\ i > 0 => i \in 1..Len(Vtx[d]) /\ c = Vtx[d][i]
  BY ConfirmedPlace
<1>2. PICK i \in 0..Len(Vtx[d]) :
             /\ Pos(Prev[b], c) = <<Height[d], i>>
             /\ i = 0 => c = d
             /\ i > 0 => i \in 1..Len(Vtx[d]) /\ c = Vtx[d][i]
  BY <1>1
<1>3. d \in On(b) /\ d \in Block
  BY OnFacts
<1>4. CASE i = 0
  BY <1>2, <1>3, <1>4 DEF Pos
<1>5. CASE i > 0
  BY <1>2, <1>3, <1>5, PosOfTx
<1>6. i = 0 \/ i > 0
  <2>1. Vtx[d] \in Seq(Tx)
    BY <1>3, TxGraphAssumption
  <2>2. Len(Vtx[d]) \in Nat
    BY <2>1
  <2> QED BY <2>2
<1> QED BY <1>4, <1>5, <1>6

\* A transaction of the block at the tip: everything confirmed in other blocks is
\* before it.
LEMMA TopOfTx ==
    ASSUME NEW s, NEW b \in Block, LedgerOK(s, b), NEW i \in 1..Len(Vtx[b]),
           \A j \in 1..Len(Vtx[b]) : s[Vtx[b][j]] = "confirmed" /\ Vtx[b][j] # Vtx[b][i] => j < i
    PROVE  OnTop(s, b, Vtx[b][i])
<1> PICK t : t = Vtx[b][i]
  OBVIOUS
<1>0. Len(Vtx[b]) \in Nat /\ b \in On(b)
  <2>1. Vtx[b] \in Seq(Tx)
    BY TxGraphAssumption
  <2> QED BY <2>1, OnFacts
<1>1. Pos(b, t) = <<Height[b], i>>
  BY <1>0, PosOfTx
<1>2. ASSUME NEW c \in Item, s[c] = "confirmed", c # t
      PROVE  Before(Pos(b, c), Pos(b, t))
  <2>1. PICK d \in On(b) : \E j \in 0..Len(Vtx[d]) :
             /\ Pos(b, c) = <<Height[d], j>>
             /\ j = 0 => c = d
             /\ j > 0 => j \in 1..Len(Vtx[d]) /\ c = Vtx[d][j]
    BY <1>2, ConfirmedPlace
  <2>2. PICK j \in 0..Len(Vtx[d]) :
             /\ Pos(b, c) = <<Height[d], j>>
             /\ j = 0 => c = d
             /\ j > 0 => j \in 1..Len(Vtx[d]) /\ c = Vtx[d][j]
    BY <2>1
  <2>3. CASE d = b
    <3>1. j = 0 \/ j > 0
      BY <1>0, <2>3
    <3>2. j < i
      <4>1. CASE j = 0
        BY <1>0, <4>1
      <4>2. CASE j > 0
        BY <1>2, <2>2, <2>3, <4>2
      <4> QED BY <3>1, <4>1, <4>2
    <3> QED BY <1>1, <2>2, <2>3, <3>2 DEF Before
  <2>4. CASE d # b
    <3>1. Height[d] < Height[b]
      BY <2>4, OnFacts
    <3> QED BY <1>1, <2>2, <3>1 DEF Before
  <2> QED BY <2>3, <2>4
<1> QED BY <1>2 DEF OnTop

\* A block at the tip without confirmed transactions.
LEMMA TopOfBlock ==
    ASSUME NEW s, NEW b \in Block, LedgerOK(s, b), \A t \in BlockTxs(b) : s[t] # "confirmed"
    PROVE  OnTop(s, b, b)
<1>1. Pos(b, b) = <<Height[b], 0>>
  BY DEF Pos
<1>2. ASSUME NEW c \in Item, s[c] = "confirmed", c # b
      PROVE  Before(Pos(b, c), Pos(b, b))
  <2>1. PICK d \in On(b) : \E j \in 0..Len(Vtx[d]) :
             /\ Pos(b, c) = <<Height[d], j>>
             /\ j = 0 => c = d
             /\ j > 0 => j \in 1..Len(Vtx[d]) /\ c = Vtx[d][j]
    BY <1>2, ConfirmedPlace
  <2>2. PICK j \in 0..Len(Vtx[d]) :
             /\ Pos(b, c) = <<Height[d], j>>
             /\ j = 0 => c = d
             /\ j > 0 => j \in 1..Len(Vtx[d]) /\ c = Vtx[d][j]
    BY <2>1
  <2>3. d # b
    <3>1. ASSUME d = b PROVE FALSE
      <4>1. Vtx[b] \in Seq(Tx)
        BY TxGraphAssumption
      <4>2. Len(Vtx[b]) \in Nat
        BY <4>1
      <4>3. j > 0
        BY <1>2, <2>2, <3>1, <4>2
      <4>4. c \in BlockTxs(b)
        BY <2>2, <3>1, <4>3 DEF BlockTxs
      <4> QED BY <1>2, <4>4
    <3> QED BY <3>1
  <2>4. Height[d] < Height[b]
    BY <2>3, OnFacts
  <2> QED BY <1>1, <2>2, <2>4 DEF Before
<1> QED BY <1>2 DEF OnTop

\* The parts about the chain depend on what is confirmed, the others on what is
\* present.
LEMMA ConfirmedKept ==
    ASSUME NEW s, NEW b, LedgerOK(s, b), NEW r,
           \A y \in Item : r[y] = "confirmed" <=> s[y] = "confirmed"
    PROVE  BlocksOnChain(r, b) /\ TxsOnChain(r, b) /\ BlockFirst(r, b) /\ InBlockOrder(r, b)
<1>0. b \in Block \cup {Begin}
  BY DEF LedgerOK, LedgerTyped
<1>1. BlocksOnChain(r, b) /\ TxsOnChain(r, b)
  BY DEF LedgerOK, BlocksOnChain, TxsOnChain, Item
<1>2. \A c \in On(b) : c \in Block /\ BlockTxs(c) \subseteq Tx /\ \A i \in 1..Len(Vtx[c]) : Vtx[c][i] \in Tx
  BY <1>0, OnFacts, PosOfTx DEF BlockTxs
<1>3. BlockFirst(r, b)
  BY <1>2 DEF LedgerOK, BlockFirst, Item
<1>4. InBlockOrder(r, b)
  BY <1>2 DEF LedgerOK, InBlockOrder, Item
<1> QED BY <1>1, <1>3, <1>4

\* A move that adds and drops nothing keeps parents present and conflicts absent.
LEMMA PresentKept ==
    ASSUME NEW s, NEW b, LedgerOK(s, b), NEW r,
           \A y \in Tx : r[y] # "absent" <=> s[y] # "absent"
    PROVE  NoConflicts(r) /\ ParentsPresent(r)
BY DEF LedgerOK, NoConflicts, ParentsPresent, Parents

\* A transaction is accepted.
LEMMA LedgerAccept ==
    ASSUME NEW s, NEW b, LedgerOK(s, b), NEW t \in Tx, s[t] = "absent",
           \A u \in Conflicts(t) : s[u] = "absent", \A p \in Parents(t) : s[p] # "absent",
           NEW r, Moves(s, r, t, "unconfirmed")
    PROVE  LedgerOK(r, b)
<1>1. /\ LedgerTyped(r, b)
      /\ r[t] = "unconfirmed" /\ \A y \in Item : y # t => r[y] = s[y]
  <2>1. t \in Item /\ LedgerTyped(s, b)
    BY DEF LedgerOK, Item
  <2>2. LedgerTyped(r, b)
    BY <2>1, MoveFacts
  <2> QED BY <2>2 DEF Moves
<1>2. BlocksOnChain(r, b) /\ TxsOnChain(r, b) /\ BlockFirst(r, b) /\ InBlockOrder(r, b)
  <2>1. \A y \in Item : r[y] = "confirmed" <=> s[y] = "confirmed"
    BY <1>1
  <2> QED BY <2>1, ConfirmedKept
<1>3. NoConflicts(r)
  <2>1. ASSUME NEW u \in Tx, u # t, r[u] # "absent" PROVE Vin[t] \cap Vin[u] = {}
    BY <1>1, <2>1 DEF Conflicts, Item
  <2>2. ASSUME NEW u \in Tx, NEW w \in Tx, u # w, r[u] # "absent", r[w] # "absent"
        PROVE  Vin[u] \cap Vin[w] = {}
    BY <1>1, <2>1, <2>2 DEF LedgerOK, NoConflicts, Item
  <2> QED BY <2>2 DEF NoConflicts
<1>4. ParentsPresent(r)
  <2>1. ASSUME NEW p \in Tx, NEW u \in Tx, p \in Parents(u), r[u] # "absent"
        PROVE  r[p] # "absent"
    BY <1>1, <2>1 DEF LedgerOK, ParentsPresent, Item
  <2> QED BY <2>1 DEF ParentsPresent
<1> QED BY <1>1, <1>2, <1>3, <1>4 DEF LedgerOK

\* A transaction is rejected.
LEMMA LedgerReject ==
    ASSUME NEW s, NEW b, LedgerOK(s, b), NEW t \in Tx, s[t] = "unconfirmed",
           \A c \in Tx : t \in Parents(c) => s[c] = "absent",
           NEW r, Moves(s, r, t, "absent")
    PROVE  LedgerOK(r, b)
<1>1. /\ LedgerTyped(r, b)
      /\ r[t] = "absent" /\ \A y \in Item : y # t => r[y] = s[y]
  <2>1. t \in Item /\ LedgerTyped(s, b)
    BY DEF LedgerOK, Item
  <2>2. LedgerTyped(r, b)
    BY <2>1, MoveFacts
  <2> QED BY <2>2 DEF Moves
<1>2. BlocksOnChain(r, b) /\ TxsOnChain(r, b) /\ BlockFirst(r, b) /\ InBlockOrder(r, b)
  <2>1. \A y \in Item : r[y] = "confirmed" <=> s[y] = "confirmed"
    BY <1>1
  <2> QED BY <2>1, ConfirmedKept
<1>3. NoConflicts(r)
  BY <1>1 DEF LedgerOK, NoConflicts, Item
<1>4. ParentsPresent(r)
  <2>1. ASSUME NEW p \in Tx, NEW u \in Tx, p \in Parents(u), r[u] # "absent"
        PROVE  r[p] # "absent"
    BY <1>1, <2>1 DEF LedgerOK, ParentsPresent, Item
  <2> QED BY <2>1 DEF ParentsPresent
<1> QED BY <1>1, <1>2, <1>3, <1>4 DEF LedgerOK

\* A transaction of a block, seen from the chain of the block.
LEMMA BlockPlace ==
    ASSUME NEW b \in Block, NEW i \in 1..Len(Vtx[b]), NEW t, t = Vtx[b][i]
    PROVE  /\ Len(Vtx[b]) \in Nat /\ b \in On(b) /\ t \in Tx /\ t \in BlockTxs(b)
           /\ On(b) \subseteq Block /\ \A c \in Block : c \in Item /\ c # t
           /\ \A c \in On(b) : \A j \in 1..Len(Vtx[c]) :
                Vtx[c][j] \in Item /\ (Vtx[c][j] = t => c = b)
<1>0. Len(Vtx[b]) \in Nat /\ b \in On(b) /\ t \in Tx /\ t \in BlockTxs(b) /\ On(b) \subseteq Block
  <2>1. Vtx[b] \in Seq(Tx)
    BY TxGraphAssumption
  <2>2. Vtx[b][i] \in Tx
    BY <2>1
  <2> QED BY <2>1, <2>2, OnFacts DEF BlockTxs
<1>2. \A c \in Block : c \in Item /\ c # t
  BY <1>0, TxGraphAssumption DEF Item
<1>4. \A c \in On(b) : \A j \in 1..Len(Vtx[c]) : Vtx[c][j] \in Item /\ (Vtx[c][j] = t => c = b)
  <2>1. ASSUME NEW c \in On(b), NEW j \in 1..Len(Vtx[c])
        PROVE  Vtx[c][j] \in Item /\ (Vtx[c][j] = t => c = b)
    <3>1. Vtx[c][j] \in Tx /\ Vtx[c][j] \in BlockTxs(c)
      BY PosOfTx DEF BlockTxs
    <3> QED BY <1>0, <3>1, TxOnce DEF Item
  <2> QED BY <2>1
<1> QED BY <1>0, <1>2, <1>4

\* The next transaction of the block at the tip is confirmed.
LEMMA LedgerConfirm ==
    ASSUME NEW s, NEW b \in Block, LedgerOK(s, b), s[b] = "confirmed",
           NEW i \in 1..Len(Vtx[b]), NEW t, t = Vtx[b][i], s[t] = "unconfirmed",
           \A j \in 1..(i - 1) : s[Vtx[b][j]] = "confirmed",
           NEW r, Moves(s, r, t, "confirmed")
    PROVE  LedgerOK(r, b) /\ OnTop(r, b, t) /\ Pos(b, t)[1] = Height[b]
<1>0. /\ Len(Vtx[b]) \in Nat /\ b \in On(b) /\ t \in Tx /\ t \in BlockTxs(b) /\ On(b) \subseteq Block
      /\ \A c \in Block : c \in Item /\ c # t
  BY BlockPlace
<1>1. /\ LedgerTyped(r, b)
      /\ r[t] = "confirmed" /\ \A y \in Item : y # t => r[y] = s[y]
  <2>1. t \in Item /\ LedgerTyped(s, b)
    BY <1>0 DEF LedgerOK, Item
  <2>2. LedgerTyped(r, b)
    BY <2>1, MoveFacts
  <2> QED BY <2>2 DEF Moves
<1>3. \A j \in 1..Len(Vtx[b]) : Vtx[b][j] = t => j = i
  BY BlockAssumption
<1>4. \A c \in On(b) : \A j \in 1..Len(Vtx[c]) : Vtx[c][j] \in Item /\ (Vtx[c][j] = t => c = b)
  BY BlockPlace
<1>5. BlocksOnChain(r, b)
  BY <1>0, <1>1 DEF LedgerOK, BlocksOnChain
<1>6. TxsOnChain(r, b)
  BY <1>0, <1>1 DEF LedgerOK, TxsOnChain, Item
<1>7. BlockFirst(r, b)
  <2>1. ASSUME NEW c \in On(b), r[c] # "confirmed", NEW u \in BlockTxs(c) PROVE r[u] # "confirmed"
    <3>1. s[c] # "confirmed" /\ c # b
      BY <1>0, <1>1, <2>1
    <3>2. u # t /\ u \in Item
      BY <1>4, <2>1, <3>1 DEF BlockTxs
    <3> QED BY <1>1, <2>1, <3>1, <3>2 DEF LedgerOK, BlockFirst
  <2> QED BY <2>1 DEF BlockFirst
<1>8. InBlockOrder(r, b)
  <2>1. ASSUME NEW c \in On(b), NEW j \in 1..Len(Vtx[c]), NEW k \in 1..Len(Vtx[c]),
               j < k, r[Vtx[c][k]] = "confirmed"
        PROVE  r[Vtx[c][j]] = "confirmed"
    <3>1. CASE Vtx[c][k] = t
      <4>1. c = b /\ k = i
        BY <1>3, <1>4, <3>1
      <4>2. j \in 1..(i - 1)
        BY <1>0, <2>1, <4>1
      <4>3. s[Vtx[b][j]] = "confirmed"
        BY <4>2
      <4> QED BY <1>1, <1>4, <4>1, <4>3
    <3>2. CASE Vtx[c][k] # t
      <4>1. s[Vtx[c][j]] = "confirmed"
        BY <1>1, <1>4, <2>1, <3>2 DEF LedgerOK, InBlockOrder
      <4> QED BY <1>1, <1>4, <4>1
    <3> QED BY <3>1, <3>2
  <2> QED BY <2>1 DEF InBlockOrder
<1>9. NoConflicts(r) /\ ParentsPresent(r)
  <2>1. \A y \in Tx : r[y] # "absent" <=> s[y] # "absent"
    BY <1>1 DEF Item
  <2> QED BY <2>1, PresentKept
<1>10. LedgerOK(r, b)
  BY <1>1, <1>5, <1>6, <1>7, <1>8, <1>9 DEF LedgerOK
<1>11. ASSUME NEW j \in 1..Len(Vtx[b]), r[Vtx[b][j]] = "confirmed", Vtx[b][j] # t
       PROVE  j < i
  <2>1. s[Vtx[b][j]] = "confirmed"
    BY <1>0, <1>1, <1>4, <1>11
  <2>2. ~(i < j)
    BY <1>0, <2>1 DEF LedgerOK, InBlockOrder
  <2>3. i # j
    BY <1>11
  <2> QED BY <1>0, <2>2, <2>3
<1>12. OnTop(r, b, t)
  BY <1>10, <1>11, TopOfTx
<1>13. Pos(b, t)[1] = Height[b]
  <2>1. Pos(b, t) = <<Height[b], i>>
    BY <1>0, PosOfTx
  <2> QED BY <2>1
<1> QED BY <1>10, <1>12, <1>13

\* The last confirmed transaction of the block at the tip is unconfirmed.
LEMMA LedgerUnconfirm ==
    ASSUME NEW s, NEW b \in Block, LedgerOK(s, b),
           NEW i \in 1..Len(Vtx[b]), NEW t, t = Vtx[b][i], s[t] = "confirmed",
           \A j \in (i + 1)..Len(Vtx[b]) : s[Vtx[b][j]] # "confirmed",
           NEW r, Moves(s, r, t, "unconfirmed")
    PROVE  LedgerOK(r, b) /\ OnTop(r, b, t)
<1>0. /\ Len(Vtx[b]) \in Nat /\ b \in On(b) /\ t \in Tx /\ t \in BlockTxs(b) /\ On(b) \subseteq Block
      /\ \A c \in Block : c \in Item /\ c # t
  BY BlockPlace
<1>1. /\ LedgerTyped(r, b)
      /\ r[t] = "unconfirmed" /\ \A y \in Item : y # t => r[y] = s[y]
  <2>1. t \in Item /\ LedgerTyped(s, b)
    BY <1>0 DEF LedgerOK, Item
  <2>2. LedgerTyped(r, b)
    BY <2>1, MoveFacts
  <2> QED BY <2>2 DEF Moves
<1>3. \A j \in 1..Len(Vtx[b]) : Vtx[b][j] = t => j = i
  BY BlockAssumption
<1>4. \A c \in On(b) : \A j \in 1..Len(Vtx[c]) : Vtx[c][j] \in Item /\ (Vtx[c][j] = t => c = b)
  BY BlockPlace
<1>5. \A y \in Item : r[y] = "confirmed" => s[y] = "confirmed"
  BY <1>1
<1>6. BlocksOnChain(r, b) /\ TxsOnChain(r, b)
  BY <1>5 DEF LedgerOK, BlocksOnChain, TxsOnChain, Item
<1>7. BlockFirst(r, b)
  <2>1. ASSUME NEW c \in On(b), r[c] # "confirmed", NEW u \in BlockTxs(c) PROVE r[u] # "confirmed"
    <3>1. s[c] # "confirmed"
      BY <1>0, <1>1, <2>1
    <3>2. u \in Item
      BY <1>4, <2>1 DEF BlockTxs
    <3> QED BY <1>5, <2>1, <3>1, <3>2 DEF LedgerOK, BlockFirst
  <2> QED BY <2>1 DEF BlockFirst
<1>8. InBlockOrder(r, b)
  <2>1. ASSUME NEW c \in On(b), NEW j \in 1..Len(Vtx[c]), NEW k \in 1..Len(Vtx[c]),
               j < k, r[Vtx[c][k]] = "confirmed"
        PROVE  r[Vtx[c][j]] = "confirmed"
    <3>1. s[Vtx[c][k]] = "confirmed" /\ s[Vtx[c][j]] = "confirmed"
      BY <1>4, <1>5, <2>1 DEF LedgerOK, InBlockOrder
    <3>2. Vtx[c][j] # t
      <4>1. ASSUME Vtx[c][j] = t PROVE FALSE
        <5>1. c = b /\ j = i
          BY <1>3, <1>4, <4>1
        <5>2. k \in (i + 1)..Len(Vtx[b])
          BY <1>0, <2>1, <5>1
        <5> QED BY <3>1, <5>1, <5>2
      <4> QED BY <4>1
    <3> QED BY <1>1, <1>4, <3>1, <3>2
  <2> QED BY <2>1 DEF InBlockOrder
<1>9. NoConflicts(r) /\ ParentsPresent(r)
  <2>1. \A y \in Tx : r[y] # "absent" <=> s[y] # "absent"
    BY <1>1 DEF Item
  <2> QED BY <2>1, PresentKept
<1>10. LedgerOK(r, b)
  BY <1>1, <1>6, <1>7, <1>8, <1>9 DEF LedgerOK
<1>11. ASSUME NEW j \in 1..Len(Vtx[b]), r[Vtx[b][j]] = "confirmed", Vtx[b][j] # t
       PROVE  j < i
  <2>1. s[Vtx[b][j]] = "confirmed"
    BY <1>0, <1>4, <1>5, <1>11
  <2>2. j \notin (i + 1)..Len(Vtx[b]) /\ j # i
    BY <1>11, <2>1
  <2> QED BY <1>0, <2>2
<1> QED BY <1>10, <1>11, TopOfTx

\* A coinbase is accepted.
LEMMA LedgerAcceptBlock ==
    ASSUME NEW s, NEW b, LedgerOK(s, b), NEW c \in Block, s[c] = "absent",
           NEW r, Moves(s, r, c, "unconfirmed")
    PROVE  LedgerOK(r, b)
<1>1. /\ LedgerTyped(r, b)
      /\ r[c] = "unconfirmed" /\ \A y \in Item : y # c => r[y] = s[y]
  <2>1. c \in Item /\ LedgerTyped(s, b)
    BY DEF LedgerOK, Item
  <2>2. LedgerTyped(r, b)
    BY <2>1, MoveFacts
  <2> QED BY <2>2 DEF Moves
<1>2. BlocksOnChain(r, b) /\ TxsOnChain(r, b) /\ BlockFirst(r, b) /\ InBlockOrder(r, b)
  <2>1. \A y \in Item : r[y] = "confirmed" <=> s[y] = "confirmed"
    BY <1>1
  <2> QED BY <2>1, ConfirmedKept
<1>3. NoConflicts(r) /\ ParentsPresent(r)
  <2>1. \A y \in Tx : y # c /\ y \in Item
    BY TxGraphAssumption DEF Item
  <2> QED BY <1>1, <2>1, PresentKept
<1> QED BY <1>1, <1>2, <1>3 DEF LedgerOK

\* A coinbase is confirmed: its block is the new tip.
LEMMA LedgerConfirmBlock ==
    ASSUME NEW s, NEW c \in Block, LedgerOK(s, Prev[c]), s[c] = "unconfirmed",
           NEW r, Moves(s, r, c, "confirmed")
    PROVE  LedgerOK(r, c) /\ OnTop(r, c, c) /\ Pos(c, c)[1] = Height[c]
<1>0. /\ On(c) = {c} \cup On(Prev[c]) /\ c \notin On(Prev[c])
      /\ On(c) \subseteq Block /\ c \in Block \cup {Begin}
  BY OnFacts
<1>1. /\ LedgerTyped(r, Prev[c])
      /\ r[c] = "confirmed" /\ \A y \in Item : y # c => r[y] = s[y]
  <2>1. c \in Item /\ LedgerTyped(s, Prev[c])
    BY DEF LedgerOK, Item
  <2>2. LedgerTyped(r, Prev[c])
    BY <2>1, MoveFacts
  <2> QED BY <2>2 DEF Moves
<1>2. LedgerTyped(r, c)
  BY <1>0, <1>1 DEF LedgerTyped
<1>3. \A t \in Tx : t \in Item /\ t # c /\ r[t] = s[t]
  BY <1>1, TxGraphAssumption DEF Item
<1>4. \A d \in On(c) : BlockTxs(d) \subseteq Tx /\ \A j \in 1..Len(Vtx[d]) : Vtx[d][j] \in Tx
  BY <1>0, PosOfTx DEF BlockTxs
<1>5. \A t \in BlockTxs(c) : s[t] # "confirmed"
  <2>1. ASSUME NEW t \in BlockTxs(c), s[t] = "confirmed" PROVE FALSE
    <3>1. PICK d \in On(Prev[c]) : t \in BlockTxs(d)
      BY <1>0, <1>4, <2>1 DEF LedgerOK, TxsOnChain
    <3> QED BY <2>1, <3>1, TxNotAbove
  <2> QED BY <2>1
<1>6. BlocksOnChain(r, c)
  BY <1>0, <1>1 DEF LedgerOK, BlocksOnChain, Item
<1>7. TxsOnChain(r, c)
  BY <1>0, <1>3 DEF LedgerOK, TxsOnChain
<1>8. BlockFirst(r, c)
  <2>1. ASSUME NEW d \in On(c), r[d] # "confirmed", NEW u \in BlockTxs(d) PROVE r[u] # "confirmed"
    <3>1. d \in On(Prev[c]) /\ s[d] # "confirmed"
      BY <1>0, <1>1, <2>1 DEF Item
    <3> QED BY <1>3, <1>4, <2>1, <3>1 DEF LedgerOK, BlockFirst
  <2> QED BY <2>1 DEF BlockFirst
<1>9. InBlockOrder(r, c)
  <2>1. ASSUME NEW d \in On(c), NEW j \in 1..Len(Vtx[d]), NEW k \in 1..Len(Vtx[d]),
               j < k, r[Vtx[d][k]] = "confirmed"
        PROVE  r[Vtx[d][j]] = "confirmed"
    <3>1. s[Vtx[d][k]] = "confirmed"
      BY <1>3, <1>4, <2>1
    <3>2. d # c
      BY <1>5, <3>1 DEF BlockTxs
    <3> QED BY <1>0, <1>3, <1>4, <2>1, <3>1, <3>2 DEF LedgerOK, InBlockOrder
  <2> QED BY <2>1 DEF InBlockOrder
<1>10. NoConflicts(r) /\ ParentsPresent(r)
  BY <1>3, PresentKept
<1>11. LedgerOK(r, c)
  BY <1>2, <1>6, <1>7, <1>8, <1>9, <1>10 DEF LedgerOK
<1>12. \A t \in BlockTxs(c) : r[t] # "confirmed"
  BY <1>0, <1>3, <1>4, <1>5
<1>13. OnTop(r, c, c)
  BY <1>11, <1>12, TopOfBlock
<1>14. Pos(c, c)[1] = Height[c]
  BY DEF Pos
<1> QED BY <1>11, <1>13, <1>14

\* The coinbase at the tip is unconfirmed.
LEMMA LedgerUnconfirmBlock ==
    ASSUME NEW s, NEW c \in Block, LedgerOK(s, c), s[c] = "confirmed",
           \A t \in BlockTxs(c) : s[t] # "confirmed",
           NEW r, Moves(s, r, c, "unconfirmed")
    PROVE  LedgerOK(r, c) /\ OnTop(r, c, c)
<1>0. On(c) \subseteq Block /\ c \in Block \cup {Begin}
  BY OnFacts
<1>1. /\ LedgerTyped(r, c)
      /\ r[c] = "unconfirmed" /\ \A y \in Item : y # c => r[y] = s[y]
  <2>1. c \in Item /\ LedgerTyped(s, c)
    BY DEF LedgerOK, Item
  <2>2. LedgerTyped(r, c)
    BY <2>1, MoveFacts
  <2> QED BY <2>2 DEF Moves
<1>3. \A t \in Tx : t \in Item /\ t # c /\ r[t] = s[t]
  BY <1>1, TxGraphAssumption DEF Item
<1>4. \A d \in On(c) : BlockTxs(d) \subseteq Tx /\ \A j \in 1..Len(Vtx[d]) : Vtx[d][j] \in Tx
  BY <1>0, PosOfTx DEF BlockTxs
<1>5. BlocksOnChain(r, c) /\ TxsOnChain(r, c)
  BY <1>1, <1>3 DEF LedgerOK, BlocksOnChain, TxsOnChain, Item
<1>6. BlockFirst(r, c)
  <2>1. ASSUME NEW d \in On(c), r[d] # "confirmed", NEW u \in BlockTxs(d) PROVE r[u] # "confirmed"
    <3>1. d = c \/ s[d] # "confirmed"
      BY <1>0, <1>1, <2>1 DEF Item
    <3> QED BY <1>3, <1>4, <2>1, <3>1 DEF LedgerOK, BlockFirst
  <2> QED BY <2>1 DEF BlockFirst
<1>7. InBlockOrder(r, c)
  BY <1>3, <1>4 DEF LedgerOK, InBlockOrder
<1>8. NoConflicts(r) /\ ParentsPresent(r)
  BY <1>3, PresentKept
<1>9. LedgerOK(r, c)
  BY <1>1, <1>5, <1>6, <1>7, <1>8 DEF LedgerOK
<1>10. \A t \in BlockTxs(c) : r[t] # "confirmed"
  <2>1. c \in On(c)
    BY OnFacts
  <2> QED BY <1>3, <1>4, <2>1
<1> QED BY <1>9, <1>10, TopOfBlock

\* The coinbase at the tip is rejected: the tip is the block before.
LEMMA LedgerRejectBlock ==
    ASSUME NEW s, NEW c \in Block, LedgerOK(s, c), s[c] = "unconfirmed",
           NEW r, Moves(s, r, c, "absent")
    PROVE  LedgerOK(r, Prev[c])
<1>0. /\ On(c) = {c} \cup On(Prev[c]) /\ On(c) \subseteq Block /\ c \in Block \cup {Begin}
      /\ Prev[c] \in Block \cup {Begin}
  BY OnFacts
<1>1. /\ LedgerTyped(r, c)
      /\ r[c] = "absent" /\ \A y \in Item : y # c => r[y] = s[y]
  <2>1. c \in Item /\ LedgerTyped(s, c)
    BY DEF LedgerOK, Item
  <2>2. LedgerTyped(r, c)
    BY <2>1, MoveFacts
  <2> QED BY <2>2 DEF Moves
<1>2. LedgerTyped(r, Prev[c])
  BY <1>0, <1>1 DEF LedgerTyped
<1>3. \A t \in Tx : t \in Item /\ t # c /\ r[t] = s[t]
  BY <1>1, TxGraphAssumption DEF Item
<1>4. \A d \in On(c) : BlockTxs(d) \subseteq Tx /\ \A j \in 1..Len(Vtx[d]) : Vtx[d][j] \in Tx
  BY <1>0, PosOfTx DEF BlockTxs
<1>5. \A t \in BlockTxs(c) : s[t] # "confirmed"
  BY <1>0 DEF LedgerOK, BlockFirst
<1>6. BlocksOnChain(r, Prev[c])
  BY <1>0, <1>1 DEF LedgerOK, BlocksOnChain, Item
<1>7. TxsOnChain(r, Prev[c])
  <2>1. ASSUME NEW t \in Tx, r[t] = "confirmed" PROVE \E d \in On(Prev[c]) : t \in BlockTxs(d)
    <3>1. PICK d \in On(c) : t \in BlockTxs(d)
      BY <1>3, <2>1 DEF LedgerOK, TxsOnChain
    <3>2. d # c
      BY <1>3, <1>5, <2>1, <3>1
    <3> QED BY <1>0, <3>1, <3>2
  <2> QED BY <2>1 DEF TxsOnChain
<1>8. BlockFirst(r, Prev[c])
  <2>1. ASSUME NEW d \in On(Prev[c]), r[d] # "confirmed", NEW u \in BlockTxs(d)
        PROVE  r[u] # "confirmed"
    <3>1. d \in On(c) /\ (d = c \/ s[d] # "confirmed")
      BY <1>0, <1>1, <2>1 DEF Item
    <3> QED BY <1>3, <1>4, <1>5, <2>1, <3>1 DEF LedgerOK, BlockFirst
  <2> QED BY <2>1 DEF BlockFirst
<1>9. InBlockOrder(r, Prev[c])
  BY <1>0, <1>3, <1>4 DEF LedgerOK, InBlockOrder
<1>10. NoConflicts(r) /\ ParentsPresent(r)
  BY <1>3, PresentKept
<1> QED BY <1>2, <1>6, <1>7, <1>8, <1>9, <1>10 DEF LedgerOK

-----------------------------------------------------------------------------
(* The rows and the ledger. *)

\* The names of the graph in the ledger.
LEMMA LedgerNames ==
    /\ \A t : Ledger!Parents(t) = Parents(t) /\ Ledger!Conflicts(t) = Conflicts(t)
    /\ \A b : Ledger!BlockTxs(b) = BlockTxs(b)
BY DEF Ledger!Parents, Ledger!Conflicts, Parents, Conflicts, Ledger!BlockTxs, BlockTxs

\* The ledger moves from states s and tip b to r and d by a row of a type for x.
Takes(s, b, r, d, type, x) ==
    /\ LedgerOK(s, b) /\ LedgerOK(r, d) /\ Moves(s, r, x, StateAfter(type))
    /\ s[x] = StateBefore(type)
    /\ RowOK(r, d, [type |-> type, tx |-> x])
    /\ \A c \in Item : s[c] = "confirmed" => Pos(d, c) = Pos(b, c)
    /\ type = "accept" /\ x \in Tx =>
        /\ \A u \in Conflicts(x) : s[u] = "absent"
        /\ \A p \in Parents(x) : s[p] # "absent"
    /\ type = "reject" /\ x \in Tx => \A c \in Tx : x \in Parents(c) => s[c] = "absent"

\* A move of TxLedger is one.
LEMMA MoveOf ==
    ASSUME LedgerOK(state, tip), NEW x \in Item, NEW v \in States, Ledger!Move(x, v)
    PROVE  Moves(state, state', x, v)
BY DEF Ledger!Move, Moves, LedgerOK, LedgerTyped

\* What has no place to check: a row that neither confirms nor unconfirms.
LEMMA PlainRow ==
    ASSUME NEW s, NEW b, NEW r, NEW x, NEW type \in {"accept", "reject"},
           Moves(s, r, x, StateAfter(type))
    PROVE  RowOK(r, b, [type |-> type, tx |-> x])
BY DEF RowOK, Moves

\* A row of a transaction moves the ledger.
LEMMA TakesTx ==
    ASSUME LedgerOK(state, tip), NEW t \in Tx, TakeTx(t)
    PROVE  \E type \in Types : TakeRow(type, t) /\ Takes(state, tip, state', tip', type, t)
<1>0. t \in Item
  BY DEF Item
<1>1. ASSUME Ledger!AcceptTx(t), \A p \in Parents(t) : Ledger!Present(p)
      PROVE  Takes(state, tip, state', tip', "accept", t)
  <2>1. /\ state[t] = "absent" /\ tip' = tip
        /\ \A u \in Conflicts(t) : state[u] = "absent"
        /\ \A p \in Parents(t) : state[p] # "absent"
    BY <1>1, LedgerNames DEF Ledger!AcceptTx, Ledger!Present
  <2>2. Moves(state, state', t, "unconfirmed")
    <3>1. "unconfirmed" \in States /\ Ledger!Move(t, "unconfirmed")
      BY <1>1 DEF States, Ledger!AcceptTx
    <3> QED BY <1>0, <3>1, MoveOf
  <2>3. LedgerOK(state', tip')
    BY <2>1, <2>2, LedgerAccept
  <2>4. StateAfter("accept") = "unconfirmed" /\ StateBefore("accept") = "absent"
    BY DEF StateAfter, StateBefore
  <2>5. RowOK(state', tip', [type |-> "accept", tx |-> t])
    BY <2>2, <2>4, PlainRow
  <2> QED BY <2>1, <2>2, <2>3, <2>4, <2>5 DEF Takes
<1>2. ASSUME Ledger!RejectTx(t) PROVE Takes(state, tip, state', tip', "reject", t)
  <2>1. /\ state[t] = "unconfirmed" /\ tip' = tip
        /\ \A c \in Tx : t \in Parents(c) => state[c] = "absent"
    BY <1>2, LedgerNames DEF Ledger!RejectTx, Ledger!Present
  <2>2. Moves(state, state', t, "absent")
    <3>1. "absent" \in States /\ Ledger!Move(t, "absent")
      BY <1>2 DEF States, Ledger!RejectTx
    <3> QED BY <1>0, <3>1, MoveOf
  <2>3. LedgerOK(state', tip')
    BY <2>1, <2>2, LedgerReject
  <2>4. StateAfter("reject") = "absent" /\ StateBefore("reject") = "unconfirmed"
    BY DEF StateAfter, StateBefore
  <2>5. RowOK(state', tip', [type |-> "reject", tx |-> t])
    BY <2>2, <2>4, PlainRow
  <2> QED BY <2>1, <2>2, <2>3, <2>4, <2>5 DEF Takes
<1>3. ASSUME Ledger!ConfirmTx(t) PROVE Takes(state, tip, state', tip', "confirm", t)
  <2>1. PICK i : /\ state[t] = "unconfirmed" /\ tip' = tip
                 /\ tip \in Block /\ state[tip] = "confirmed"
                 /\ i \in 1..Len(Vtx[tip]) /\ Vtx[tip][i] = t
                 /\ \A j \in 1..(i - 1) : state[Vtx[tip][j]] = "confirmed"
    BY <1>3 DEF Ledger!ConfirmTx, Ledger!AtTip, Ledger!Earlier
  <2>2. Moves(state, state', t, "confirmed")
    <3>1. "confirmed" \in States /\ Ledger!Move(t, "confirmed")
      BY <1>3 DEF States, Ledger!ConfirmTx
    <3> QED BY <1>0, <3>1, MoveOf
  <2>3. LedgerOK(state', tip) /\ OnTop(state', tip, t) /\ Pos(tip, t)[1] = Height[tip]
    BY <2>1, <2>2, LedgerConfirm
  <2>4. StateAfter("confirm") = "confirmed" /\ StateBefore("confirm") = "unconfirmed"
    BY DEF StateAfter, StateBefore
  <2>5. RowOK(state', tip', [type |-> "confirm", tx |-> t])
    BY <2>1, <2>2, <2>3, <2>4 DEF RowOK, Moves
  <2> QED BY <2>1, <2>2, <2>3, <2>4, <2>5 DEF Takes
<1>4. ASSUME Ledger!UnconfirmTx(t) PROVE Takes(state, tip, state', tip', "unconfirm", t)
  <2>1. PICK i : /\ state[t] = "confirmed" /\ tip' = tip
                 /\ tip \in Block
                 /\ i \in 1..Len(Vtx[tip]) /\ Vtx[tip][i] = t
                 /\ \A j \in (i + 1)..Len(Vtx[tip]) : state[Vtx[tip][j]] # "confirmed"
    BY <1>4 DEF Ledger!UnconfirmTx, Ledger!AtTip, Ledger!Later
  <2>2. Moves(state, state', t, "unconfirmed")
    <3>1. "unconfirmed" \in States /\ Ledger!Move(t, "unconfirmed")
      BY <1>4 DEF States, Ledger!UnconfirmTx
    <3> QED BY <1>0, <3>1, MoveOf
  <2>3. LedgerOK(state', tip) /\ OnTop(state', tip, t)
    BY <2>1, <2>2, LedgerUnconfirm
  <2>4. StateAfter("unconfirm") = "unconfirmed" /\ StateBefore("unconfirm") = "confirmed"
    BY DEF StateAfter, StateBefore
  <2>5. RowOK(state', tip', [type |-> "unconfirm", tx |-> t])
    BY <2>1, <2>2, <2>3, <2>4 DEF RowOK, Moves
  <2> QED BY <2>1, <2>2, <2>3, <2>4, <2>5 DEF Takes
<1> QED BY <1>1, <1>2, <1>3, <1>4 DEF TakeTx, Types

\* A row of a coinbase moves the ledger.
LEMMA TakesCoinbase ==
    ASSUME LedgerOK(state, tip), NEW b \in Block, TakeCoinbase(b)
    PROVE  \E type \in Types : TakeRow(type, b) /\ Takes(state, tip, state', tip', type, b)
<1>0. b \in Item /\ b \notin Tx
  BY TxGraphAssumption DEF Item
<1>1. ASSUME Ledger!AcceptCoinbase(b) PROVE Takes(state, tip, state', tip', "accept", b)
  <2>1. state[b] = "absent" /\ tip' = tip
    BY <1>1 DEF Ledger!AcceptCoinbase
  <2>2. Moves(state, state', b, "unconfirmed")
    <3>1. "unconfirmed" \in States /\ Ledger!Move(b, "unconfirmed")
      BY <1>1 DEF States, Ledger!AcceptCoinbase
    <3> QED BY <1>0, <3>1, MoveOf
  <2>3. LedgerOK(state', tip')
    BY <2>1, <2>2, LedgerAcceptBlock
  <2>4. StateAfter("accept") = "unconfirmed" /\ StateBefore("accept") = "absent"
    BY DEF StateAfter, StateBefore
  <2>5. RowOK(state', tip', [type |-> "accept", tx |-> b])
    BY <2>2, <2>4, PlainRow
  <2> QED BY <1>0, <2>1, <2>2, <2>3, <2>4, <2>5 DEF Takes
<1>2. ASSUME Ledger!RejectBlock(b) PROVE Takes(state, tip, state', tip', "reject", b)
  <2>1. state[b] = "unconfirmed" /\ tip = b /\ tip' = Prev[b]
    BY <1>2 DEF Ledger!RejectBlock
  <2>2. Moves(state, state', b, "absent")
    <3>1. "absent" \in States /\ Ledger!Move(b, "absent")
      BY <1>2 DEF States, Ledger!RejectBlock
    <3> QED BY <1>0, <3>1, MoveOf
  <2>3. LedgerOK(state', tip')
    BY <2>1, <2>2, LedgerRejectBlock
  <2>4. StateAfter("reject") = "absent" /\ StateBefore("reject") = "unconfirmed"
    BY DEF StateAfter, StateBefore
  <2>5. RowOK(state', tip', [type |-> "reject", tx |-> b])
    BY <2>2, <2>4, PlainRow
  <2>6. ASSUME NEW c \in Item, state[c] = "confirmed" PROVE Pos(tip', c) = Pos(tip, c)
    <3>1. state'[c] = "confirmed"
      BY <2>1, <2>2, <2>6 DEF Moves
    <3> QED BY <2>1, <2>3, <3>1, PosStays
  <2> QED BY <1>0, <2>1, <2>2, <2>3, <2>4, <2>5, <2>6 DEF Takes
<1>3. ASSUME Ledger!ConfirmBlock(b) PROVE Takes(state, tip, state', tip', "confirm", b)
  <2>1. state[b] = "unconfirmed" /\ tip = Prev[b] /\ tip' = b
    BY <1>3 DEF Ledger!ConfirmBlock
  <2>2. Moves(state, state', b, "confirmed")
    <3>1. "confirmed" \in States /\ Ledger!Move(b, "confirmed")
      BY <1>3 DEF States, Ledger!ConfirmBlock
    <3> QED BY <1>0, <3>1, MoveOf
  <2>3. LedgerOK(state', b) /\ OnTop(state', b, b) /\ Pos(b, b)[1] = Height[b]
    BY <2>1, <2>2, LedgerConfirmBlock
  <2>4. StateAfter("confirm") = "confirmed" /\ StateBefore("confirm") = "unconfirmed"
    BY DEF StateAfter, StateBefore
  <2>5. RowOK(state', tip', [type |-> "confirm", tx |-> b])
    BY <2>1, <2>2, <2>3, <2>4 DEF RowOK, Moves
  <2>6. ASSUME NEW c \in Item, state[c] = "confirmed" PROVE Pos(tip', c) = Pos(tip, c)
    BY <2>1, <2>6, PosStays
  <2> QED BY <1>0, <2>1, <2>2, <2>3, <2>4, <2>5, <2>6 DEF Takes
<1>4. ASSUME Ledger!UnconfirmCoinbase(b) PROVE Takes(state, tip, state', tip', "unconfirm", b)
  <2>1. /\ state[b] = "confirmed" /\ tip = b /\ tip' = tip
        /\ \A t \in BlockTxs(b) : state[t] # "confirmed"
    BY <1>4, LedgerNames DEF Ledger!UnconfirmCoinbase
  <2>2. Moves(state, state', b, "unconfirmed")
    <3>1. "unconfirmed" \in States /\ Ledger!Move(b, "unconfirmed")
      BY <1>4 DEF States, Ledger!UnconfirmCoinbase
    <3> QED BY <1>0, <3>1, MoveOf
  <2>3. LedgerOK(state', b) /\ OnTop(state', b, b)
    BY <2>1, <2>2, LedgerUnconfirmBlock
  <2>4. StateAfter("unconfirm") = "unconfirmed" /\ StateBefore("unconfirm") = "confirmed"
    BY DEF StateAfter, StateBefore
  <2>5. RowOK(state', tip', [type |-> "unconfirm", tx |-> b])
    BY <2>1, <2>2, <2>3, <2>4 DEF RowOK, Moves
  <2> QED BY <1>0, <2>1, <2>2, <2>3, <2>4, <2>5 DEF Takes
<1> QED BY <1>1, <1>2, <1>3, <1>4 DEF TakeCoinbase, Types

\* A step takes a row, or leaves the ledger and the row, or ends the row.
Rounds ==
    \/ AcceptOutput \/ AcceptInput \/ RejectInput \/ RejectOutput
    \/ SetSpends \/ SetObject \/ SetUnconfirmed \/ CountUnconfirmed
    \/ AcceptList \/ ConfirmList \/ UnconfirmList \/ RejectList \/ FlushAddressInfo

\* A round is done in a phase, and leaves the ledger.
LEMMA RoundsDone ==
    ASSUME Rounds
    PROVE  pc \in Phases /\ pc # "save" /\ \E e : Done(e)
BY DEF Rounds, AcceptOutput, AcceptInput, RejectInput, RejectOutput, SetSpends, SetObject,
       SetUnconfirmed, CountUnconfirmed, AcceptList, ConfirmList, UnconfirmList, RejectList,
       FlushAddressInfo, In, AtNode, Phases

\* A step takes the next row of the ledger, or leaves the ledger and at most ends
\* the row.
LEMMA StepKinds ==
    ASSUME CacheInv, LedgerOK(state, tip), Next
    PROVE  \/ /\ CanTake
              /\ \E type \in Types, x \in Item :
                    TakeRow(type, x) /\ Takes(state, tip, state', tip', type, x)
           \/ /\ \/ Rounds \/ SwitchTxNode \/ UnspentMissing \/ ListFails
                 \/ SaveId \/ Crash \/ Restart
              /\ state' = state /\ tip' = tip /\ (row' = row \/ row' = NoRow)
<1>1. CASE \E t \in Tx : TakeTx(t)
  <2>1. PICK t \in Tx : TakeTx(t)
    BY <1>1
  <2>2. CanTake /\ t \in Item
    BY <2>1 DEF TakeTx, Item
  <2> QED BY <2>1, <2>2, TakesTx
<1>2. CASE \E b \in Block : TakeCoinbase(b)
  <2>1. PICK b \in Block : TakeCoinbase(b)
    BY <1>2
  <2>2. CanTake /\ b \in Item
    BY <2>1 DEF TakeCoinbase, Item
  <2> QED BY <2>1, <2>2, TakesCoinbase
<1>3. CASE Rounds
  <2>2. state' = state /\ tip' = tip /\ row' = row
    BY <1>3, RoundsDone DEF Done, ledger
  <2> QED BY <1>3, <2>2
<1>4. CASE UnspentMissing \/ ListFails
  <2>1. state' = state /\ tip' = tip /\ row' = row
    BY <1>4 DEF UnspentMissing, ListFails, Fail, ledger
  <2> QED BY <1>4, <2>1
<1>5. CASE SaveId
  BY <1>5 DEF SaveId, ledger
<1>6. CASE Crash \/ Restart
  <2>1. state' = state /\ tip' = tip /\ row' = row
    BY <1>6 DEF Crash, Restart, ledger
  <2> QED BY <1>6, <2>1
<1>7. CASE SwitchTxNode
  BY <1>7, SwitchWrites
<1> QED BY <1>1, <1>2, <1>3, <1>4, <1>5, <1>6, <1>7 DEF Next, Rounds

\* The steps.
LEMMA Steps ==
    ASSUME CacheInv, LedgerInv, Next
    PROVE  \/ /\ CanTake
              /\ \E type \in Types, x \in Item :
                    TakeRow(type, x) /\ Takes(state, tip, state', tip', type, x)
           \/ Rounds \/ SwitchTxNode \/ UnspentMissing \/ ListFails \/ SaveId \/ Crash \/ Restart
BY StepKinds DEF LedgerInv

\* The ledger is as the rows of TxLedger make it.
LEMMA LedgerInit ==
    ASSUME Init PROVE LedgerInv
<1>1. state = [x \in Tx \cup Block |-> "absent"] /\ tip = Begin /\ row = NoRow
  BY DEF Init, Ledger!LedgerInit
<1>2. \A x \in Item : state[x] = "absent"
  BY <1>1 DEF Item
<1>3. LedgerTyped(state, tip)
  <2>1. PresentIn(state) = {}
    BY <1>2 DEF PresentIn
  <2>2. IsFiniteSet(PresentIn(state))
    BY <2>1, FS_EmptySet
  <2> QED BY <1>1, <2>2 DEF LedgerTyped, States, Item
<1>4. On(tip) = {}
  BY <1>1, OnFacts
<1>5. BlocksOnChain(state, tip) /\ TxsOnChain(state, tip)
  BY <1>2 DEF BlocksOnChain, TxsOnChain, Item
<1>6. BlockFirst(state, tip) /\ InBlockOrder(state, tip)
  BY <1>4 DEF BlockFirst, InBlockOrder
<1>7. NoConflicts(state) /\ ParentsPresent(state)
  BY <1>2 DEF NoConflicts, ParentsPresent, Item
<1> QED BY <1>1, <1>3, <1>5, <1>6, <1>7 DEF LedgerInv, LedgerOK, RowOK

\* Every step keeps the invariant of the ledger.
LEMMA LedgerNext == CacheInv /\ LedgerInv /\ [Next]_vars => LedgerInv'
<1> SUFFICES ASSUME CacheInv, LedgerInv, [Next]_vars PROVE LedgerInv'
  OBVIOUS
<1>1. CASE UNCHANGED vars
  BY <1>1 DEF vars, ledger, LedgerInv
<1>2. CASE Next
  <2>1. LedgerOK(state, tip)
    BY DEF LedgerInv
  <2>2. CASE \E type \in Types, x \in Item :
                TakeRow(type, x) /\ Takes(state, tip, state', tip', type, x)
    <3>1. PICK type \in Types, x \in Item :
             TakeRow(type, x) /\ Takes(state, tip, state', tip', type, x)
      BY <2>2
    <3>2. row' = [type |-> type, tx |-> x]
      BY <3>1 DEF TakeRow
    <3> QED BY <3>1, <3>2 DEF Takes, LedgerInv
  <2>3. CASE state' = state /\ tip' = tip /\ (row' = row \/ row' = NoRow)
    BY <2>3 DEF LedgerInv, RowOK
  <2> QED BY <1>2, <2>1, <2>2, <2>3, StepKinds
<1> QED BY <1>1, <1>2

-----------------------------------------------------------------------------
(* The list of one address: nodes L, index ix, T transactions, the last        *)
(* confirmed node k.  It holds the members M in the places 0..T-1, first the   *)
(* confirmed ones C in the order of the chain up to b, and every node but      *)
(* those of X has the height of its transaction.                               *)

\* The same list seen from another tip, with more nodes left out.
LEMMA ListElsewhere ==
    ASSUME NEW L, NEW ix, NEW T, NEW k, NEW M, NEW C, NEW b, NEW d, NEW X, NEW Y,
           ListAt(L, ix, T, k, M, C, b, X), X \subseteq Y,
           \A c \in C : Pos(d, c) = Pos(b, c)
    PROVE  ListAt(L, ix, T, k, M, C, d, Y)
<1>1. NodesOK(L, ix, T, M) /\ OrderOK(L, T, k, C, b) /\ HeightsOK(L, C, b, X)
  BY DEF ListAt
<1>2. ASSUME NEW m \in DOMAIN L, NEW n \in DOMAIN L, m < n, n <= k
      PROVE  Before(Pos(d, L[m].tx), Pos(d, L[n].tx))
  <2>1. m <= k
    BY <1>1, <1>2 DEF NodesOK, OrderOK
  <2>2. L[m].tx \in C /\ L[n].tx \in C
    BY <1>1, <1>2, <2>1 DEF OrderOK
  <2> QED BY <1>1, <1>2, <2>2 DEF OrderOK
<1>3. OrderOK(L, T, k, C, d)
  BY <1>1, <1>2 DEF OrderOK
<1>4. HeightsOK(L, C, d, Y)
  BY <1>1 DEF HeightsOK, HeightOf
<1> QED BY <1>1, <1>3, <1>4 DEF ListAt

\* A new node behind the last one.
LEMMA ListAppend ==
    ASSUME NEW L, NEW ix, NEW T, NEW k, NEW M, NEW C, NEW b, NEW X,
           ListAt(L, ix, T, k, M, C, b, X), NEW x \in Item, x \notin M, x \notin C,
           NEW L2, L2 = With(L, T, [tx |-> x, height |-> -1]),
           NEW ix2, ix2 = [ix EXCEPT ![x] = T]
    PROVE  ListAt(L2, ix2, T + 1, k, M \cup {x}, C, b, X)
<1>1. NodesOK(L, ix, T, M) /\ OrderOK(L, T, k, C, b) /\ HeightsOK(L, C, b, X)
  BY DEF ListAt
<1>2. T \in Nat /\ DOMAIN L = 0..(T - 1) /\ T \notin DOMAIN L
  BY <1>1 DEF NodesOK
<1>3. DOMAIN L2 = 0..T /\ DOMAIN L2 = DOMAIN L \cup {T}
  BY <1>2 DEF With
<1>4. L2[T] = [tx |-> x, height |-> -1] /\ \A n \in DOMAIN L : L2[n] = L[n]
  BY <1>2, <1>3 DEF With
<1>5. L2[T].tx = x /\ L2[T].height = -1 /\ DOMAIN L2[T] = {"tx", "height"}
  BY <1>4
<1>6. DOMAIN ix2 = Item /\ ix2[x] = T /\ \A y \in M : ix2[y] = ix[y]
  BY <1>1 DEF NodesOK
<1>7. NodesOK(L2, ix2, T + 1, M \cup {x})
  <2>1. T + 1 \in Nat /\ DOMAIN L2 = 0..((T + 1) - 1)
    BY <1>2, <1>3
  <2>2. ASSUME NEW n \in DOMAIN L2
        PROVE  DOMAIN L2[n] = {"tx", "height"} /\ L2[n].tx \in M \cup {x} /\ ix2[L2[n].tx] = n
    <3>1. CASE n = T
      BY ONLY <1>5, <1>6, <3>1
    <3>2. CASE n \in DOMAIN L
      <4>1. DOMAIN L[n] = {"tx", "height"} /\ L[n].tx \in M /\ ix[L[n].tx] = n
        BY <1>1, <3>2 DEF NodesOK
      <4> QED BY ONLY <1>4, <1>6, <3>2, <4>1
    <3> QED BY <1>3, <3>1, <3>2
  <2>3. ASSUME NEW y \in M \cup {x} PROVE ix2[y] \in DOMAIN L2 /\ L2[ix2[y]].tx = y
    BY <1>1, <1>3, <1>4, <1>5, <1>6 DEF NodesOK
  <2> QED BY <1>1, <1>6, <2>1, <2>2, <2>3 DEF NodesOK
<1>8. k \in -1..(T - 1) /\ k \in Int /\ ~(T <= k)
  BY <1>1, <1>2 DEF OrderOK
<1>9. OrderOK(L2, T + 1, k, C, b)
  <2>1. k \in -1..((T + 1) - 1)
    BY <1>2, <1>8
  <2>2. ASSUME NEW n \in DOMAIN L2 PROVE n <= k <=> L2[n].tx \in C
    BY <1>1, <1>3, <1>4, <1>5, <1>8 DEF OrderOK
  <2>3. ASSUME NEW m \in DOMAIN L2, NEW n \in DOMAIN L2, m < n, n <= k
        PROVE  Before(Pos(b, L2[m].tx), Pos(b, L2[n].tx))
    <3>1. n \in DOMAIN L /\ m \in DOMAIN L
      BY <1>2, <1>3, <1>8, <2>3
    <3> QED BY <1>1, <1>4, <2>3, <3>1 DEF OrderOK
  <2> QED BY <2>1, <2>2, <2>3 DEF OrderOK
<1>10. HeightsOK(L2, C, b, X)
  <2>1. ASSUME NEW n \in DOMAIN L2, L2[n].tx \notin X
        PROVE  L2[n].height = HeightOf(C, b, L2[n].tx)
    <3>1. CASE n = T
      BY <1>5, <3>1 DEF HeightOf
    <3>2. CASE n # T
      BY <1>1, <1>3, <1>4, <2>1, <3>2 DEF HeightsOK
    <3> QED BY <3>1, <3>2
  <2> QED BY <2>1 DEF HeightsOK
<1> QED BY <1>7, <1>9, <1>10 DEF ListAt

\* With such an index they are a list ...
LEMMA NodesIndex ==
    ASSUME NEW L, NEW T, NEW M, NodesFree(L, T, M), NEW ix, DOMAIN ix = Item, Settled(L, ix)
    PROVE  NodesOK(L, ix, T, M)
<1>1. ASSUME NEW y \in M PROVE ix[y] \in DOMAIN L /\ L[ix[y]].tx = y
  <2>1. PICK n \in DOMAIN L : L[n].tx = y
    BY DEF NodesFree
  <2> QED BY <2>1 DEF Settled
<1> QED BY <1>1 DEF NodesFree, NodesOK, Settled

\* ... the index of a list is one ...
LEMMA NodesOf ==
    ASSUME NEW L, NEW ix, NEW T, NEW M, NodesOK(L, ix, T, M)
    PROVE  NodesFree(L, T, M) /\ Settled(L, ix) /\ DOMAIN ix = Item
BY DEF NodesFree, NodesOK, Settled

\* ... and so is the place that a search finds.
LEMMA WhereSettled ==
    ASSUME NEW L, NEW T, NEW M, NodesFree(L, T, M)
    PROVE  Settled(L, Where(L)) /\ DOMAIN Where(L) = Item
<1>1. ASSUME NEW n \in DOMAIN L PROVE Where(L)[L[n].tx] = n
  <2> PICK y : y = L[n].tx
    OBVIOUS
  <2>1. y \in Item
    BY DEF NodesFree
  <2>2. Where(L)[y] = CHOOSE j \in DOMAIN L : L[j].tx = y
    BY <2>1 DEF Where
  <2>3. Where(L)[y] \in DOMAIN L /\ L[Where(L)[y]].tx = y
    BY <2>2
  <2> QED BY <2>3 DEF NodesFree
<1>2. DOMAIN Where(L) = Item
  BY DEF Where
<1> QED BY <1>1, <1>2 DEF Settled

\* A list does not depend on the index.
LEMMA ListReindex ==
    ASSUME NEW L, NEW ix, NEW T, NEW k, NEW M, NEW C, NEW b, NEW X,
           ListAt(L, ix, T, k, M, C, b, X), NEW jx, DOMAIN jx = Item, Settled(L, jx)
    PROVE  ListAt(L, jx, T, k, M, C, b, X)
<1>1. NodesOK(L, ix, T, M)
  BY DEF ListAt
<1>2. NodesOK(L, jx, T, M)
  BY <1>1, NodesOf, NodesIndex
<1> QED BY <1>2 DEF ListAt

\* The same nodes; the same nodes but for two that have changed places.
SameList(L, V) == DOMAIN V = DOMAIN L /\ \A i \in DOMAIN L : V[i] = L[i]
Swapped(L, V, n, m) ==
    /\ n \in DOMAIN L /\ m \in DOMAIN L /\ n # m /\ DOMAIN V = DOMAIN L
    /\ V[n] = L[m] /\ V[m] = L[n]
    /\ \A i \in DOMAIN L : i \notin {n, m} => V[i] = L[i]

\* The same nodes are the same list.
LEMMA ListSame ==
    ASSUME NEW L, NEW ix, NEW T, NEW k, NEW M, NEW C, NEW b, NEW X,
           ListAt(L, ix, T, k, M, C, b, X), NEW V, SameList(L, V)
    PROVE  ListAt(V, ix, T, k, M, C, b, X)
<1>1. NodesOK(L, ix, T, M) /\ OrderOK(L, T, k, C, b) /\ HeightsOK(L, C, b, X)
  BY DEF ListAt
<1>2. NodesOK(V, ix, T, M)
  BY <1>1 DEF NodesOK, SameList
<1>3. OrderOK(V, T, k, C, b)
  BY <1>1 DEF OrderOK, SameList
<1>4. HeightsOK(V, C, b, X)
  BY <1>1 DEF HeightsOK, SameList
<1> QED BY <1>2, <1>3, <1>4 DEF ListAt

\* Two unconfirmed nodes may change places.
LEMMA ListSwap ==
    ASSUME NEW L, NEW ix, NEW T, NEW k, NEW M, NEW C, NEW b, NEW X,
           ListAt(L, ix, T, k, M, C, b, X),
           NEW V, NEW n, NEW m, Swapped(L, V, n, m), L[n].tx \notin C, L[m].tx \notin C
    PROVE  ListAt(V, Where(V), T, k, M, C, b, X)
<1>1. NodesFree(L, T, M) /\ OrderOK(L, T, k, C, b) /\ HeightsOK(L, C, b, X)
  BY NodesOf DEF ListAt
<1>2. /\ n \in DOMAIN L /\ m \in DOMAIN L /\ n # m /\ DOMAIN V = DOMAIN L
      /\ V[n] = L[m] /\ V[m] = L[n]
      /\ \A i \in DOMAIN L : i \notin {n, m} => V[i] = L[i]
  BY DEF Swapped
<1>3. \A i \in DOMAIN V : \E j \in DOMAIN L : V[i] = L[j]
  BY <1>2
<1>4. NodesFree(V, T, M)
  <2>1. ASSUME NEW i \in DOMAIN V PROVE DOMAIN V[i] = {"tx", "height"} /\ V[i].tx \in M
    <3>1. PICK j \in DOMAIN L : V[i] = L[j]
      BY <1>3
    <3>2. DOMAIN L[j] = {"tx", "height"} /\ L[j].tx \in M
      BY <1>1 DEF NodesFree
    <3> QED BY ONLY <3>1, <3>2
  <2>2. ASSUME NEW i \in DOMAIN V, NEW j \in DOMAIN V, V[i].tx = V[j].tx PROVE i = j
    <3>1. CASE i = n
      BY <1>1, <1>2, <2>2, <3>1 DEF NodesFree
    <3>2. CASE i = m
      BY <1>1, <1>2, <2>2, <3>2 DEF NodesFree
    <3>3. CASE i \notin {n, m}
      BY <1>1, <1>2, <2>2, <3>3 DEF NodesFree
    <3> QED BY <3>1, <3>2, <3>3
  <2>3. ASSUME NEW y \in M PROVE \E i \in DOMAIN V : V[i].tx = y
    <3>1. PICK j \in DOMAIN L : L[j].tx = y
      BY <1>1 DEF NodesFree
    <3> QED BY <1>2, <3>1
  <2> QED BY <1>1, <1>2, <2>1, <2>2, <2>3 DEF NodesFree
<1>5. ~(n <= k) /\ ~(m <= k)
  BY <1>1, <1>2 DEF OrderOK
<1>6. \A i \in DOMAIN L : i <= k => V[i] = L[i]
  BY <1>2, <1>5
<1>7. OrderOK(V, T, k, C, b)
  <2>1. ASSUME NEW i \in DOMAIN V PROVE i <= k <=> V[i].tx \in C
    BY <1>1, <1>2, <1>5 DEF OrderOK
  <2>2. ASSUME NEW i \in DOMAIN V, NEW j \in DOMAIN V, i < j, j <= k
        PROVE  Before(Pos(b, V[i].tx), Pos(b, V[j].tx))
    <3>1. i <= k
      BY <1>1, <1>2, <2>2 DEF NodesFree, OrderOK
    <3> QED BY <1>1, <1>2, <1>6, <2>2, <3>1 DEF OrderOK
  <2> QED BY <1>1, <2>1, <2>2 DEF OrderOK
<1>8. HeightsOK(V, C, b, X)
  BY <1>1, <1>2, <1>3 DEF HeightsOK
<1>9. NodesOK(V, Where(V), T, M)
  BY <1>4, WhereSettled, NodesIndex
<1> QED BY <1>7, <1>8, <1>9 DEF ListAt

\* confirmTx(): whatever a crash has left, the exchange begins between the first
\* unconfirmed place and the one that the index has for x.
LEMMA ConfirmBegins ==
    ASSUME NEW L, NEW T, NEW M, NodesFree(L, T, M), NEW k, NEW C, NEW b, OrderOK(L, T, k, C, b),
           NEW x \in M, x \notin C, NEW ix, NEW lag, Linked(L, ix, x, C, lag),
           NEW p, p = k + 1, p \in DOMAIN L, p # ix[x]
    PROVE  Near(L, ix, x, p, ix[x]) /\ Front(L, C, p, ix[x])
<1> PICK m : m = ix[x]
  OBVIOUS
<1>1. /\ T \in Nat /\ DOMAIN L = 0..(T - 1) /\ k \in -1..(T - 1) /\ k \in Int /\ p \in Int
      /\ \A i \in DOMAIN L : i \in Int /\ (i <= k <=> L[i].tx \in C)
  BY DEF NodesFree, OrderOK
<1>2. L[p].tx \notin C /\ \A i \in DOMAIN L : i < p => L[i].tx \in C
  BY <1>1
<1>3. CASE Settled(L, ix)
  <2>1. PICK j \in DOMAIN L : L[j].tx = x
    BY DEF NodesFree
  <2>2. j = m
    BY <1>3, <2>1 DEF Settled
  <2>3. Near(L, ix, x, p, m)
    BY <1>3, <2>1, <2>2 DEF Near, Settled
  <2> QED BY <1>2, <2>1, <2>2, <2>3 DEF Front
<1>4. ASSUME NEW q, NEW j, Near(L, ix, x, q, j), Front(L, C, q, j)
      PROVE  Near(L, ix, x, p, m) /\ Front(L, C, p, m)
  <2>1. j = m /\ q \in DOMAIN L
    BY <1>4 DEF Near
  <2>2. ~(q < p) /\ ~(p < q)
    BY <1>1, <1>2, <1>4, <2>1 DEF Front
  <2>3. q = p
    BY <1>1, <2>1, <2>2
  <2> QED BY <1>4, <2>1, <2>3
<1> QED BY <1>3, <1>4 DEF Linked

\* confirmTx() ends the exchange only where the index is right.
LEMMA ConfirmSettled ==
    ASSUME NEW L, NEW T, NEW M, NodesFree(L, T, M), NEW k, NEW C, NEW b, OrderOK(L, T, k, C, b),
           NEW x, NEW ix, NEW lag, Linked(L, ix, x, C, lag),
           ix[x] = k + 1, ix[x] \in DOMAIN L
    PROVE  Settled(L, ix)
<1> PICK p : p = k + 1
  OBVIOUS
<1>1. /\ T \in Nat /\ DOMAIN L = 0..(T - 1) /\ k \in -1..(T - 1) /\ k \in Int /\ p \in Int
      /\ \A i \in DOMAIN L : i \in Int /\ (i <= k <=> L[i].tx \in C)
  BY DEF NodesFree, OrderOK
<1>2. L[p].tx \notin C /\ \A i \in DOMAIN L : i < p => L[i].tx \in C
  BY <1>1
<1>3. ASSUME NEW q, NEW j, Near(L, ix, x, q, j), Front(L, C, q, j)
      PROVE  FALSE
  <2>1. j = p /\ q \in DOMAIN L /\ j # q
    BY <1>3 DEF Near
  <2>2. ~(q < p) /\ ~(p < q)
    BY <1>1, <1>2, <1>3, <2>1 DEF Front
  <2> QED BY <1>1, <2>1, <2>2
<1> QED BY <1>3 DEF Linked

\* rejectTx(): its index is right, and the last node is not confirmed.
LEMMA RejectBegins ==
    ASSUME NEW L, NEW T, NEW M, NodesFree(L, T, M), NEW k, NEW C, NEW b, OrderOK(L, T, k, C, b),
           NEW x \in M, x \notin C, NEW ix, Settled(L, ix),
           NEW p, p = T - 1, p \in DOMAIN L, p # ix[x]
    PROVE  Near(L, ix, x, p, ix[x]) /\ L[p].tx \notin C /\ L[ix[x]].tx \notin C
<1>1. PICK j \in DOMAIN L : L[j].tx = x
  BY DEF NodesFree
<1>2. j = ix[x]
  BY <1>1 DEF Settled
<1>3. Near(L, ix, x, p, j)
  BY <1>1, <1>2 DEF Near, Settled
<1>4. ~(p <= k)
  <2>1. ~(j <= k) /\ j \in Int /\ p \in Int /\ k \in Int /\ j <= p
    BY <1>1 DEF OrderOK, NodesFree
  <2> QED BY <2>1
<1>5. L[p].tx \notin C
  BY <1>4 DEF OrderOK
<1> QED BY <1>1, <1>2, <1>3, <1>5

\* The exchange of the nodes does not show in the index.
LEMMA NearSwapped ==
    ASSUME NEW L, NEW V, NEW ix, NEW x, NEW p, NEW m, Near(L, ix, x, p, m), Swapped(L, V, p, m)
    PROVE  Near(V, ix, x, p, m)
BY DEF Near, Swapped

\* The index of the displaced node is written.
IndexOf(jx, ix, y, m) == jx = [ix EXCEPT ![y] = m]
LEMMA NearIndexed ==
    ASSUME NEW L, NEW T, NEW M, NodesFree(L, T, M), NEW ix, DOMAIN ix = Item,
           NEW x \in M, NEW p, NEW m, Near(L, ix, x, p, m), NEW y, y = L[m].tx,
           NEW jx, IndexOf(jx, ix, y, m)
    PROVE  Near(L, jx, x, p, m) /\ jx[y] = m
<1>1. /\ p \in DOMAIN L /\ m \in DOMAIN L /\ p # m /\ ix[x] = m
      /\ L[p].tx = x \/ L[m].tx = x
      /\ ix[L[p].tx] \in {p, m} /\ ix[L[m].tx] \in {p, m}
      /\ \A i \in DOMAIN L : i \notin {p, m} => ix[L[i].tx] = i
  BY DEF Near
<1>2. /\ \A i \in DOMAIN L : L[i].tx \in Item /\ (i # m => L[i].tx # y)
      /\ x \in Item /\ y \in Item
  BY <1>1 DEF NodesFree
<1>3. jx[y] = m /\ \A z \in Item : z # y => jx[z] = ix[z]
  BY <1>2 DEF IndexOf
<1>4. jx[x] = m
  BY <1>1, <1>2, <1>3
<1>5. jx[L[p].tx] \in {p, m} /\ jx[L[m].tx] \in {p, m}
  BY <1>1, <1>2, <1>3
<1>6. \A i \in DOMAIN L : i \notin {p, m} => jx[L[i].tx] = i
  BY <1>1, <1>2, <1>3
<1> QED BY <1>1, <1>3, <1>4, <1>5, <1>6 DEF Near

\* With the index of the other one the exchange is complete.
LEMMA NearSettled ==
    ASSUME NEW L, NEW T, NEW M, NodesFree(L, T, M), NEW ix, DOMAIN ix = Item,
           NEW x, NEW p, NEW m, Near(L, ix, x, p, m), ix[L[m].tx] = m, NEW y, y = L[p].tx,
           NEW jx, jx = [ix EXCEPT ![y] = p]
    PROVE  Settled(L, jx)
<1>1. /\ p \in DOMAIN L /\ m \in DOMAIN L /\ p # m
      /\ \A i \in DOMAIN L : i \notin {p, m} => ix[L[i].tx] = i
  BY DEF Near
<1>2. /\ \A i \in DOMAIN L : L[i].tx \in Item /\ (i # p => L[i].tx # y)
      /\ y \in Item
  BY <1>1 DEF NodesFree
<1>3. jx[y] = p /\ \A z \in Item : z # y => jx[z] = ix[z]
  BY <1>2
<1> QED BY <1>1, <1>2, <1>3 DEF Settled

\* The node next to the last confirmed one is confirmed.
LEMMA ListConfirm ==
    ASSUME NEW L, NEW ix, NEW T, NEW k, NEW M, NEW C, NEW b, NEW x,
           ListAt(L, ix, T, k, M, C, b, {x}), NEW n, n = k + 1, n \in DOMAIN L, L[n].tx = x,
           L[n].height = Pos(b, x)[1],
           \A c \in C : Before(Pos(b, c), Pos(b, x))
    PROVE  ListAt(L, ix, T, n, M, C \cup {x}, b, {})
<1>1. NodesOK(L, ix, T, M) /\ OrderOK(L, T, k, C, b) /\ HeightsOK(L, C, b, {x})
  BY DEF ListAt
<1>2. T \in Nat /\ DOMAIN L = 0..(T - 1) /\ k \in -1..(T - 1) /\ k \in Int /\ n \in Int
  BY <1>1 DEF NodesOK, OrderOK
<1>3. \A i \in DOMAIN L : L[i].tx = x <=> i = n
  BY <1>1 DEF NodesOK
<1>4. \A i \in DOMAIN L : i <= n <=> (i <= k \/ i = n)
  BY <1>2
<1>5. OrderOK(L, T, n, C \cup {x}, b)
  <2>1. n \in -1..(T - 1)
    BY <1>2
  <2>2. ASSUME NEW i \in DOMAIN L PROVE i <= n <=> L[i].tx \in C \cup {x}
    BY <1>1, <1>3, <1>4 DEF OrderOK
  <2>3. ASSUME NEW i \in DOMAIN L, NEW j \in DOMAIN L, i < j, j <= n
        PROVE  Before(Pos(b, L[i].tx), Pos(b, L[j].tx))
    <3>1. CASE j = n
      <4>1. i <= k
        BY <1>2, <2>3, <3>1
      <4>2. L[i].tx \in C
        BY <1>1, <4>1 DEF OrderOK
      <4> QED BY <3>1, <4>2
    <3>2. CASE j <= k
      BY <1>1, <2>3, <3>2 DEF OrderOK
    <3> QED BY <1>4, <2>3, <3>1, <3>2
  <2> QED BY <2>1, <2>2, <2>3 DEF OrderOK
<1>6. HeightsOK(L, C \cup {x}, b, {})
  <2>1. ASSUME NEW i \in DOMAIN L PROVE L[i].height = HeightOf(C \cup {x}, b, L[i].tx)
    <3>1. CASE L[i].tx = x
      BY <1>3, <3>1 DEF HeightOf
    <3>2. CASE L[i].tx # x
      BY <1>1, <3>2 DEF HeightsOK, HeightOf
    <3> QED BY <3>1, <3>2
  <2> QED BY <2>1 DEF HeightsOK
<1> QED BY <1>1, <1>5, <1>6 DEF ListAt

\* The last confirmed node is that of the last confirmed transaction.
LEMMA ListLast ==
    ASSUME NEW L, NEW ix, NEW T, NEW k, NEW M, NEW C, NEW b, NEW X,
           ListAt(L, ix, T, k, M, C, b, X), NEW x \in M, x \in C,
           \A c \in C \ {x} : Before(Pos(b, c), Pos(b, x)),
           \A y \in C : Pos(b, y)[1] \in Nat /\ Pos(b, y)[2] \in Nat
    PROVE  k >= 0 /\ ix[x] = k
<1>1. NodesOK(L, ix, T, M) /\ OrderOK(L, T, k, C, b)
  BY DEF ListAt
<1>2. T \in Nat /\ DOMAIN L = 0..(T - 1) /\ k \in -1..(T - 1) /\ k \in Int
  BY <1>1 DEF NodesOK, OrderOK
<1>3. ix[x] \in DOMAIN L /\ L[ix[x]].tx = x
  BY <1>1 DEF NodesOK
<1>4. ix[x] <= k
  BY <1>1, <1>3 DEF OrderOK
<1>5. k \in DOMAIN L /\ k >= 0 /\ ix[x] \in Int
  BY <1>2, <1>3, <1>4
<1> PICK y : y = L[k].tx
  OBVIOUS
<1>6. y \in C /\ y \in M
  <2>1. k <= k
    BY <1>2
  <2> QED BY <1>1, <1>5, <2>1 DEF NodesOK, OrderOK
<1>7. ASSUME ix[x] < k PROVE FALSE
  <2>1. Before(Pos(b, x), Pos(b, y))
    <3>1. k <= k
      BY <1>2
    <3> QED BY <1>1, <1>3, <1>5, <1>7, <3>1 DEF OrderOK
  <2>2. y # x
    <3>1. ix[y] = k
      BY <1>1, <1>5 DEF NodesOK
    <3>2. ix[x] # k
      BY <1>2, <1>5, <1>7
    <3> QED BY <3>1, <3>2
  <2>3. Before(Pos(b, y), Pos(b, x))
    BY <1>6, <2>2
  <2> PICK p : p = Pos(b, x)
    OBVIOUS
  <2> PICK q : q = Pos(b, y)
    OBVIOUS
  <2>4. p[1] \in Nat /\ p[2] \in Nat /\ q[1] \in Nat /\ q[2] \in Nat
    BY <1>6
  <2>5. Before(p, q) /\ Before(q, p)
    BY <2>1, <2>3
  <2> QED BY <2>4, <2>5 DEF Before
<1> QED BY <1>2, <1>4, <1>5, <1>7

\* The last confirmed node is unconfirmed.
LEMMA ListUnconfirm ==
    ASSUME NEW L, NEW ix, NEW T, NEW k, NEW M, NEW C, NEW b, NEW x \in M,
           ListAt(L, ix, T, k, M, C, b, {x}), k >= 0, ix[x] = k,
           NEW L2, L2 = [L EXCEPT ![k].height = -1]
    PROVE  ListAt(L2, ix, T, k - 1, M, C \ {x}, b, {})
<1>1. NodesOK(L, ix, T, M) /\ OrderOK(L, T, k, C, b) /\ HeightsOK(L, C, b, {x})
  BY DEF ListAt
<1>2. T \in Nat /\ DOMAIN L = 0..(T - 1) /\ k \in -1..(T - 1) /\ k \in Int
  BY <1>1 DEF NodesOK, OrderOK
<1>3. k \in DOMAIN L /\ L[k].tx = x /\ DOMAIN L[k] = {"tx", "height"}
  BY <1>1 DEF NodesOK
<1>4. /\ DOMAIN L2 = DOMAIN L /\ L2[k].tx = x /\ L2[k].height = -1
      /\ DOMAIN L2[k] = {"tx", "height"}
      /\ \A i \in DOMAIN L : i # k => L2[i] = L[i]
  BY <1>3
<1>5. \A i \in DOMAIN L : L[i].tx = x <=> i = k
  BY <1>1, <1>3 DEF NodesOK
<1>6. \A i \in DOMAIN L : L2[i].tx = L[i].tx
  BY <1>3, <1>4
<1>7. NodesOK(L2, ix, T, M)
  BY <1>1, <1>4, <1>6 DEF NodesOK
<1>8. \A i \in DOMAIN L : i <= k - 1 <=> i <= k /\ i # k
  BY <1>2
<1>9. OrderOK(L2, T, k - 1, C \ {x}, b)
  <2>1. k - 1 \in -1..(T - 1)
    BY <1>2
  <2>2. ASSUME NEW i \in DOMAIN L2 PROVE i <= k - 1 <=> L2[i].tx \in C \ {x}
    BY <1>1, <1>4, <1>5, <1>6, <1>8 DEF OrderOK
  <2>3. ASSUME NEW i \in DOMAIN L2, NEW j \in DOMAIN L2, i < j, j <= k - 1
        PROVE  Before(Pos(b, L2[i].tx), Pos(b, L2[j].tx))
    BY <1>1, <1>4, <1>6, <1>8, <2>3 DEF OrderOK
  <2> QED BY <2>1, <2>2, <2>3 DEF OrderOK
<1>10. HeightsOK(L2, C \ {x}, b, {})
  <2>1. ASSUME NEW i \in DOMAIN L2 PROVE L2[i].height = HeightOf(C \ {x}, b, L2[i].tx)
    <3>1. CASE i = k
      BY <1>4, <3>1 DEF HeightOf
    <3>2. CASE i # k
      BY <1>1, <1>4, <1>5, <3>2 DEF HeightsOK, HeightOf
    <3> QED BY <3>1, <3>2
  <2> QED BY <2>1 DEF HeightsOK
<1> QED BY <1>7, <1>9, <1>10 DEF ListAt

\* The height of a node that is left out may change.
LEMMA ListHeight ==
    ASSUME NEW L, NEW ix, NEW T, NEW k, NEW M, NEW C, NEW b, NEW x \in M,
           ListAt(L, ix, T, k, M, C, b, {x}), NEW n, n = ix[x], NEW h,
           NEW L2, L2 = [L EXCEPT ![n].height = h]
    PROVE  ListAt(L2, ix, T, k, M, C, b, {x})
<1>1. NodesOK(L, ix, T, M) /\ OrderOK(L, T, k, C, b) /\ HeightsOK(L, C, b, {x})
  BY DEF ListAt
<1>2. n \in DOMAIN L /\ L[n].tx = x /\ DOMAIN L[n] = {"tx", "height"}
  BY <1>1 DEF NodesOK
<1>3. /\ DOMAIN L2 = DOMAIN L /\ L2[n].tx = x /\ DOMAIN L2[n] = {"tx", "height"}
      /\ \A i \in DOMAIN L : i # n => L2[i] = L[i]
  BY <1>2
<1>4. \A i \in DOMAIN L : L2[i].tx = L[i].tx /\ DOMAIN L2[i] = DOMAIN L[i]
  BY <1>2, <1>3
<1>5. NodesOK(L2, ix, T, M)
  BY <1>1, <1>3, <1>4 DEF NodesOK
<1>6. OrderOK(L2, T, k, C, b)
  BY <1>1, <1>3, <1>4 DEF OrderOK
<1>7. HeightsOK(L2, C, b, {x})
  BY <1>1, <1>2, <1>3 DEF HeightsOK
<1> QED BY <1>5, <1>6, <1>7 DEF ListAt

\* The last node, an unconfirmed one, is removed.
LEMMA ListRemove ==
    ASSUME NEW L, NEW ix, NEW T, NEW k, NEW M, NEW C, NEW b, NEW x, x \notin C,
           ListAt(L, ix, T, k, M, C, b, {x}), T - 1 \in DOMAIN L, L[T - 1].tx = x,
           NEW L2, L2 = Without(L, T - 1)
    PROVE  ListAt(L2, ix, T - 1, k, M \ {x}, C, b, {})
<1>1. NodesOK(L, ix, T, M) /\ OrderOK(L, T, k, C, b) /\ HeightsOK(L, C, b, {x})
  BY DEF ListAt
<1> PICK n : n = T - 1
  OBVIOUS
<1>2. T \in Nat /\ DOMAIN L = 0..(T - 1) /\ k \in -1..(T - 1) /\ k \in Int /\ n \in Nat
  BY <1>1 DEF NodesOK, OrderOK
<1>3. DOMAIN L2 = DOMAIN L \ {n} /\ \A i \in DOMAIN L2 : L2[i] = L[i]
  BY DEF Without
<1>4. \A i \in DOMAIN L : L[i].tx = x <=> i = n
  BY <1>1 DEF NodesOK
<1>5. DOMAIN L2 = 0..((T - 1) - 1)
  <2>1. DOMAIN L = 0..n /\ T - 1 = n
    BY <1>2
  <2>2. \A i : i \in 0..n /\ i # n <=> i \in 0..(n - 1)
    BY <1>2
  <2>3. DOMAIN L2 = 0..(n - 1)
    BY <1>3, <2>1, <2>2
  <2> QED BY <2>1, <2>3
<1>6. NodesOK(L2, ix, T - 1, M \ {x})
  <2>1. \A i \in DOMAIN L2 : DOMAIN L2[i] = {"tx", "height"} /\ L2[i].tx \in M \ {x} /\ ix[L2[i].tx] = i
    BY <1>1, <1>3, <1>4 DEF NodesOK
  <2>2. \A y \in M \ {x} : ix[y] \in DOMAIN L2 /\ L2[ix[y]].tx = y
    BY <1>1, <1>3, <1>4 DEF NodesOK
  <2> QED BY <1>1, <1>2, <1>5, <2>1, <2>2 DEF NodesOK
<1>7. ~(n <= k)
  BY <1>1, <1>4 DEF OrderOK
<1>8. OrderOK(L2, T - 1, k, C, b)
  <2>1. k \in -1..((T - 1) - 1)
    BY <1>2, <1>7
  <2> QED BY <1>1, <1>3, <2>1 DEF OrderOK
<1>9. HeightsOK(L2, C, b, {})
  BY <1>1, <1>3, <1>4 DEF HeightsOK
<1> QED BY <1>6, <1>8, <1>9 DEF ListAt

-----------------------------------------------------------------------------
(* The totals of an address. *)

\* An output is paid to finitely many addresses, so its entries can be summed up.
LEMMA EntriesFinite ==
    ASSUME NEW O \in SUBSET Outpoint
    PROVE  IsFiniteSet(Entries(O))
<1> DEFINE Of(o) == {<<o, j>> : j \in 1..Len(PayTo[o])}
           f == [o \in O |-> Of(o)]
           F == {Of(o) : o \in O}
<1>1. IsFiniteSet(O)
  BY AddressAssumption, FS_Subset
<1>2. f \in Surjection(O, F)
  BY DEF Surjection
<1>3. IsFiniteSet(F)
  <2> HIDE DEF f, F
  <2> QED BY <1>1, <1>2, FS_Surjection
<1>4. ASSUME NEW o \in O PROVE IsFiniteSet(Of(o))
  <2>1. Of(o) = {o} \X (1..Len(PayTo[o]))
    OBVIOUS
  <2>2. PayTo[o] \in Seq(Address)
    BY AddressAssumption
  <2>3. Len(PayTo[o]) \in Int
    BY <2>2
  <2>4. IsFiniteSet({o}) /\ IsFiniteSet(1..Len(PayTo[o]))
    <3> PICK n : n = Len(PayTo[o])
      OBVIOUS
    <3>1. IsFiniteSet(1..n)
      BY <2>3, FS_Interval
    <3>2. IsFiniteSet({o})
      BY FS_Singleton
    <3> QED BY <3>1, <3>2
  <2> HIDE DEF Of
  <2> QED BY <2>1, <2>4, FS_Product
<1>5. \A T \in F : IsFiniteSet(T)
  BY <1>4
<1>6. Entries(O) = UNION F
  BY DEF Entries
<1> HIDE DEF F
<1> QED BY <1>3, <1>5, <1>6, FS_UNION

\* What a transaction moves to and from an address is a number.
LEMMA PaidType ==
    ASSUME NEW O \in SUBSET Outpoint, NEW a
    PROVE  Paid(O, a) \in Int
<1> DEFINE f == [e \in Entries(O) |-> Value[e[1]]]
           S == {e \in Entries(O) : AddressOf(e) = a}
<1>1. IsFiniteSet(S)
  BY EntriesFinite, FS_Subset
<1>2. \A e \in S : f[e] \in Int
  <2>1. ASSUME NEW e \in Entries(O) PROVE Value[e[1]] \in Int
    <3>1. e[1] \in Outpoint
      BY EntryFacts
    <3> QED BY <3>1, AddressAssumption
  <2> QED BY <2>1
<1>3. SumOver(f, S) \in Int
  <2> HIDE DEF f, S
  <2> QED BY <1>1, <1>2, SumType
<1> QED BY <1>3 DEF Paid

\* What a transaction pays to and takes from an address are integers.
LEMMA BalanceType ==
    ASSUME NEW x \in Item, NEW a
    PROVE  Received(x, a) \in Int /\ Sent(x, a) \in Int
<1>1. Paid(Outs(x), a) \in Int /\ Paid(Ins(x), a) \in Int
  BY AffectedFacts, PaidType
<1>2. BalanceDiff(x, a) \in Int
  BY <1>1 DEF BalanceDiff
<1> QED BY <1>2 DEF Received, Sent

\* Sums over transactions, with one more or one less.
LEMMA BalanceSums ==
    ASSUME NEW a, NEW M, IsFiniteSet(M), M \subseteq Item, NEW x \in Item, x \notin M,
           NEW N, N = M \cup {x}
    PROVE  /\ SumOver(Rcv(a), N) = SumOver(Rcv(a), M) + Received(x, a)
           /\ SumOver(Snt(a), N) = SumOver(Snt(a), M) + Sent(x, a)
           /\ SumOver(Rcv(a), M) = SumOver(Rcv(a), N) - Received(x, a)
           /\ SumOver(Snt(a), M) = SumOver(Snt(a), N) - Sent(x, a)
           /\ Cardinality(N) = Cardinality(M) + 1 /\ Cardinality(M) = Cardinality(N) - 1
<1>1. \A y \in Item : Rcv(a)[y] \in Int /\ Snt(a)[y] \in Int
  BY BalanceType DEF Rcv, Snt
<1>2. Rcv(a)[x] = Received(x, a) /\ Snt(a)[x] = Sent(x, a)
  BY DEF Rcv, Snt
<1> PICK f : f = Rcv(a)
  OBVIOUS
<1> PICK g : g = Snt(a)
  OBVIOUS
<1>3. \A y \in M \cup {x} : f[y] \in Int /\ g[y] \in Int
  BY <1>1
<1>4. SumOver(f, M \cup {x}) = SumOver(f, M) + f[x] /\ SumOver(f, M) \in Int
  BY <1>3, SumAdd
<1>5. SumOver(g, M \cup {x}) = SumOver(g, M) + g[x] /\ SumOver(g, M) \in Int
  BY <1>3, SumAdd
<1>6. Cardinality(N) = Cardinality(M) + 1 /\ Cardinality(M) \in Nat
  BY FS_AddElement, FS_CardinalityType
<1>7. f[x] \in Int /\ g[x] \in Int /\ f[x] = Received(x, a) /\ g[x] = Sent(x, a)
  BY <1>2, <1>3
<1>8. /\ SumOver(f, M) = SumOver(f, N) - f[x]
      /\ SumOver(g, M) = SumOver(g, N) - g[x]
      /\ Cardinality(M) = Cardinality(N) - 1
  BY <1>4, <1>5, <1>6, <1>7
<1> QED BY <1>4, <1>5, <1>6, <1>7, <1>8

\* The changes of the totals by the four handlers.
LEMMA TotalsAppend ==
    ASSUME NEW i, NEW a, NEW M, NEW C, TotalsAt(i, a, M, C), IsFiniteSet(M), M \subseteq Item,
           NEW x \in Item, x \notin M, x \notin C, NEW j,
           j.unconfirmedTxCount = i.unconfirmedTxCount + 1,
           j.received = i.received + Received(x, a), j.sent = i.sent + Sent(x, a),
           j.unconfirmedReceived = i.unconfirmedReceived + Received(x, a),
           j.unconfirmedSent = i.unconfirmedSent + Sent(x, a)
    PROVE  TotalsAt(j, a, M \cup {x}, C)
<1> PICK U : U = M \ C
  OBVIOUS
<1> PICK N : N = M \cup {x}
  OBVIOUS
<1> PICK V : V = U \cup {x}
  OBVIOUS
<1>1. N \ C = V /\ V = U \cup {x} /\ IsFiniteSet(U) /\ x \notin U /\ U \subseteq Item
  BY FS_Subset
<1>2. /\ SumOver(Rcv(a), N) = SumOver(Rcv(a), M) + Received(x, a)
      /\ SumOver(Snt(a), N) = SumOver(Snt(a), M) + Sent(x, a)
  BY BalanceSums
<1>3. /\ SumOver(Rcv(a), V) = SumOver(Rcv(a), U) + Received(x, a)
      /\ SumOver(Snt(a), V) = SumOver(Snt(a), U) + Sent(x, a)
      /\ Cardinality(V) = Cardinality(U) + 1
  BY ONLY <1>1, x \in Item, BalanceSums
<1> QED BY <1>1, <1>2, <1>3 DEF TotalsAt

\* rejectAddressTxs(): the totals without a rejected transaction.
LEMMA TotalsRemove ==
    ASSUME NEW i, NEW a, NEW M, NEW C, TotalsAt(i, a, M, C), IsFiniteSet(M), M \subseteq Item,
           NEW x \in M, x \notin C, NEW j,
           j.unconfirmedTxCount = i.unconfirmedTxCount - 1,
           j.received = i.received - Received(x, a), j.sent = i.sent - Sent(x, a),
           j.unconfirmedReceived = i.unconfirmedReceived - Received(x, a),
           j.unconfirmedSent = i.unconfirmedSent - Sent(x, a)
    PROVE  TotalsAt(j, a, M \ {x}, C)
<1> PICK N : N = M \ {x}
  OBVIOUS
<1> PICK U : U = N \ C
  OBVIOUS
<1> PICK V : V = M \ C
  OBVIOUS
<1>1. /\ M = N \cup {x} /\ V = U \cup {x} /\ IsFiniteSet(U) /\ IsFiniteSet(N) /\ x \notin U
      /\ x \notin N /\ U \subseteq Item /\ N \subseteq Item /\ x \in Item
  BY FS_Subset
<1>2. /\ SumOver(Rcv(a), N) = SumOver(Rcv(a), M) - Received(x, a)
      /\ SumOver(Snt(a), N) = SumOver(Snt(a), M) - Sent(x, a)
  BY <1>1, BalanceSums
<1>3. /\ SumOver(Rcv(a), U) = SumOver(Rcv(a), V) - Received(x, a)
      /\ SumOver(Snt(a), U) = SumOver(Snt(a), V) - Sent(x, a)
      /\ Cardinality(U) = Cardinality(V) - 1
  BY <1>1, BalanceSums
<1> QED BY <1>1, <1>2, <1>3 DEF TotalsAt

\* confirmAddressTxNode(): the totals when a transaction becomes confirmed.
LEMMA TotalsConfirm ==
    ASSUME NEW i, NEW a, NEW M, NEW C, TotalsAt(i, a, M, C), IsFiniteSet(M), M \subseteq Item,
           NEW x \in M, x \notin C, NEW j,
           j.unconfirmedTxCount = i.unconfirmedTxCount - 1,
           j.received = i.received, j.sent = i.sent,
           j.unconfirmedReceived = i.unconfirmedReceived - Received(x, a),
           j.unconfirmedSent = i.unconfirmedSent - Sent(x, a)
    PROVE  TotalsAt(j, a, M, C \cup {x})
<1> PICK U : U = M \ (C \cup {x})
  OBVIOUS
<1> PICK V : V = M \ C
  OBVIOUS
<1>1. V = U \cup {x} /\ IsFiniteSet(U) /\ x \notin U /\ U \subseteq Item /\ x \in Item
  BY FS_Subset
<1>2. /\ SumOver(Rcv(a), U) = SumOver(Rcv(a), V) - Received(x, a)
      /\ SumOver(Snt(a), U) = SumOver(Snt(a), V) - Sent(x, a)
      /\ Cardinality(U) = Cardinality(V) - 1
  BY <1>1, BalanceSums
<1> QED BY <1>1, <1>2 DEF TotalsAt

\* unconfirmAddressTxNode(): the totals when a transaction is confirmed no more.
LEMMA TotalsUnconfirm ==
    ASSUME NEW i, NEW a, NEW M, NEW C, TotalsAt(i, a, M, C), IsFiniteSet(M), M \subseteq Item,
           NEW x \in M, x \in C, NEW j,
           j.unconfirmedTxCount = i.unconfirmedTxCount + 1,
           j.received = i.received, j.sent = i.sent,
           j.unconfirmedReceived = i.unconfirmedReceived + Received(x, a),
           j.unconfirmedSent = i.unconfirmedSent + Sent(x, a)
    PROVE  TotalsAt(j, a, M, C \ {x})
<1> PICK U : U = M \ C
  OBVIOUS
<1> PICK V : V = M \ (C \ {x})
  OBVIOUS
<1>1. V = U \cup {x} /\ IsFiniteSet(U) /\ x \notin U /\ U \subseteq Item /\ x \in Item
  BY FS_Subset
<1>2. /\ SumOver(Rcv(a), V) = SumOver(Rcv(a), U) + Received(x, a)
      /\ SumOver(Snt(a), V) = SumOver(Snt(a), U) + Sent(x, a)
      /\ Cardinality(V) = Cardinality(U) + 1
  BY <1>1, BalanceSums
<1> QED BY <1>1, <1>2 DEF TotalsAt

\* The list has as many nodes as members.
LEMMA ListCount ==
    ASSUME NEW L, NEW ix, NEW T, NEW M, NodesOK(L, ix, T, M)
    PROVE  IsFiniteSet(M) /\ Cardinality(M) = T /\ M \subseteq Item
<1> DEFINE f == [n \in 0..(T - 1) |-> L[n].tx]
<1>1. T \in Nat /\ DOMAIN L = 0..(T - 1) /\ M \subseteq Item
  BY DEF NodesOK
<1>2. f \in [0..(T - 1) -> M]
  BY <1>1 DEF NodesOK
<1>3. \A m, n \in 0..(T - 1) : f[m] = f[n] => m = n
  BY <1>1 DEF NodesOK
<1>4. \A y \in M : \E n \in 0..(T - 1) : f[n] = y
  BY <1>1 DEF NodesOK
<1> HIDE DEF f
<1>5. f \in Bijection(0..(T - 1), M)
  BY <1>2, <1>3, <1>4 DEF Bijection, Injection, Surjection, IsInjective
<1>6. ExistsBijection(0..(T - 1), M)
  BY <1>5 DEF ExistsBijection
<1>7. IsFiniteSet(0..(T - 1)) /\ Cardinality(0..(T - 1)) = T
  <2>1. 0 \in Int /\ T - 1 \in Int
    BY <1>1
  <2>2. /\ IsFiniteSet(0..(T - 1))
        /\ Cardinality(0..(T - 1)) = IF 0 > T - 1 THEN 0 ELSE (T - 1) - 0 + 1
    BY <2>1, FS_Interval
  <2> QED BY <1>1, <2>2
<1> QED BY <1>1, <1>6, <1>7, FS_Bijection

-----------------------------------------------------------------------------
(* What the steps do to the store and to the address objects. *)

\* From st to q the lists, the unspent outputs, or the other keys are the same.
KeptLists(st, q) == q.list = st.list /\ q.idx = st.idx
KeptUnspent(st, q) == q.unspent = st.unspent /\ q.unspentIdx = st.unspentIdx
KeptKeys(st, q) ==
    q.tx = st.tx /\ q.spentBy = st.spentBy /\ q.unconfirmed = st.unconfirmed /\ q.pool = st.pool

\* What is seen of the address objects is the same but for a, which is info.
OneInfo(a, info) ==
    \A b \in Address : GetAddressInfo(b)' = IF b = a THEN info ELSE GetAddressInfo(b)
SameInfos == \A b \in Address : GetAddressInfo(b)' = GetAddressInfo(b)

\* A new unspent output.
LEMMA InsertEffect ==
    ASSUME CacheInv, ShapeOK(store), StillWhole, NEW e, AddressOf(e) \in Address, e[1] \in Outpoint,
           InsertAddressUnspent(e), NEW a, a = AddressOf(e), NEW old, old = GetAddressInfo(a),
           NEW n, n = old.unspentTxIndex + 1
    PROVE  /\ KeptLists(store, store') /\ KeptKeys(store, store') /\ store'.addr = store.addr
           /\ OneInfo(a, [old EXCEPT !.unspentTxIndex = @ + 1, !.unspentTxCount = @ + 1])
           /\ store'.unspentIdx = [store.unspentIdx EXCEPT ![a][e[1]] = n]
           /\ store'.unspent = [store.unspent EXCEPT ![a] = With(@, n, e[1])]
           /\ ShapeOK(store')
<1> PICK info : info = [old EXCEPT !.unspentTxIndex = @ + 1, !.unspentTxCount = @ + 1]
  OBVIOUS
<1>1. InfoOK(old) /\ StoreOK(store)
  BY GetFacts DEF CacheInv
<1>2. info.unspentTxIndex = n
  BY <1>1 DEF InfoOK
<1>3. /\ store' = [store EXCEPT !.unspentIdx[a][e[1]] = n,
                                !.unspent[a] = With(@, n, e[1])]
      /\ Put(a, info)
  BY <1>2 DEF InsertAddressUnspent
<1>4. /\ KeptLists(store, store') /\ KeptKeys(store, store') /\ store'.addr = store.addr
      /\ store'.unspentIdx = [store.unspentIdx EXCEPT ![a][e[1]] = n]
      /\ store'.unspent = [store.unspent EXCEPT ![a] = With(@, n, e[1])]
  BY <1>1, <1>3 DEF StoreOK, KeptLists, KeptKeys
<1>5. OneInfo(a, info)
  BY <1>3, <1>4, PutInfo DEF OneInfo
<1>6. ShapeOK(store')
  BY <1>4 DEF ShapeOK, KeptLists, KeptKeys
<1> QED BY <1>4, <1>5, <1>6

\* The deletion of an unspent output.
LEMMA DeleteEffect ==
    ASSUME CacheInv, ShapeOK(store), NEW e, AddressOf(e) \in Address, e[1] \in Outpoint,
           DeleteUnspent(e), NEW a, a = AddressOf(e)
    PROVE  /\ KeptLists(store, store') /\ KeptKeys(store, store') /\ store'.addr = store.addr
           /\ store'.unspentIdx = [store.unspentIdx EXCEPT ![a][e[1]] = -1]
           /\ store'.unspent = [store.unspent EXCEPT ![a] = Without(@, store.unspentIdx[a][e[1]])]
           /\ ShapeOK(store')
<1>1. StoreOK(store)
  BY DEF CacheInv
<1> PICK n : n = store.unspentIdx[a][e[1]]
  OBVIOUS
<1>2. store' = [store EXCEPT !.unspent[a] = Without(@, n), !.unspentIdx[a][e[1]] = -1]
  BY DEF DeleteUnspent
<1>3. /\ KeptLists(store, store') /\ KeptKeys(store, store') /\ store'.addr = store.addr
      /\ store'.unspentIdx = [store.unspentIdx EXCEPT ![a][e[1]] = -1]
      /\ store'.unspent = [store.unspent EXCEPT ![a] = Without(@, n)]
  BY <1>1, <1>2 DEF StoreOK, KeptLists, KeptKeys
<1>4. ShapeOK(store')
  BY <1>3 DEF ShapeOK, KeptLists, KeptKeys
<1> QED BY <1>3, <1>4

\* A round of the phases that write neither lists nor unspent outputs.
KeyRound == SetSpends \/ SetObject \/ SetUnconfirmed \/ CountUnconfirmed

\* Such a round writes the keys of its phase and neither lists nor address objects.
LEMMA KeyRoundEffect ==
    ASSUME CacheInv, ShapeOK(store), KeyRound
    PROVE  /\ KeptLists(store, store') /\ KeptUnspent(store, store') /\ store'.addr = store.addr
           /\ SameInfos /\ ShapeOK(store')
           /\ pc \in {"spends", "object", "mempool", "pool"} /\ Done(row.tx) /\ row.tx \in todo
           /\ pc # "spends" => store'.spentBy = store.spentBy
           /\ pc # "pool" => store'.pool = store.pool
           /\ pc # "object" => store'.tx = store.tx
           /\ pc \notin {"object", "mempool"} => store'.unconfirmed = store.unconfirmed
<1>1. pc \in {"spends", "object", "mempool", "pool"} /\ KeepCache /\ Done(row.tx)
  BY DEF KeyRound, SetSpends, SetObject, SetUnconfirmed, CountUnconfirmed, In
<1>2. row.tx \in todo /\ row.type \in Types /\ row.tx \in Item /\ StoreOK(store)
  BY <1>1, SingleRound
<1> PICK x : x = row.tx
  OBVIOUS
<1> DEFINE Effect == /\ KeptLists(store, store') /\ KeptUnspent(store, store')
                     /\ store'.addr = store.addr /\ ShapeOK(store')
                     /\ pc # "spends" => store'.spentBy = store.spentBy
                     /\ pc # "pool" => store'.pool = store.pool
                     /\ pc # "object" => store'.tx = store.tx
                     /\ pc \notin {"object", "mempool"} => store'.unconfirmed = store.unconfirmed
<1>3. CASE SetSpends
  <2>1. pc = "spends"
    BY <1>3 DEF SetSpends, In
  <2> PICK f : f = [o \in Outpoint |-> IF o \notin Ins(x) THEN store.spentBy[o]
                                       ELSE IF row.type = "accept" THEN x ELSE NoTx]
    OBVIOUS
  <2>2. store' = [store EXCEPT !.spentBy = f] /\ DOMAIN f = Outpoint
    <3>1. store' = [store EXCEPT !.spentBy =
            [o \in Outpoint |-> IF o \notin Ins(x) THEN @[o]
                                ELSE IF row.type = "accept" THEN x ELSE NoTx]]
      BY <1>3 DEF SetSpends
    <3> QED BY <3>1
  <2>3. Effect
    BY <1>2, <2>1, <2>2 DEF StoreOK, ShapeOK, KeptLists, KeptUnspent
  <2> QED BY <1>1, <1>2, <2>3, KeepInfo DEF SameInfos, KeepCache
<1>4. CASE SetObject
  <2>1. pc = "object"
    BY <1>4 DEF SetObject
  <2>2. \E f, u : /\ store' = [store EXCEPT !.tx = f, !.unconfirmed = u] /\ DOMAIN f = Item
                  /\ \A y \in Item : DOMAIN f[y] = {"height", "doubleSpend"}
    <3>1. CASE row.type = "accept"
      <4> PICK f : f = [store.tx EXCEPT ![x] = [height |-> -1, doubleSpend |-> FALSE]]
        OBVIOUS
      <4>1. store' = [store EXCEPT !.tx[x] = [height |-> -1, doubleSpend |-> FALSE]]
        BY <1>4, <3>1 DEF SetObject
      <4>2. store' = [store EXCEPT !.tx = f, !.unconfirmed = store.unconfirmed]
        BY <1>2, <4>1 DEF StoreOK
      <4>3. DOMAIN f = Item /\ \A y \in Item : DOMAIN f[y] = {"height", "doubleSpend"}
        BY DEF ShapeOK
      <4> QED BY <4>2, <4>3
    <3>2. CASE row.type = "confirm"
      <4> PICK f : f = [store.tx EXCEPT ![x].height = Height[tip]]
        OBVIOUS
      <4>1. store' = [store EXCEPT !.tx[x].height = Height[tip], !.unconfirmed = @ \ {x}]
        BY <1>4, <3>2 DEF SetObject
      <4>2. store' = [store EXCEPT !.tx = f, !.unconfirmed = store.unconfirmed \ {x}]
        BY <1>2, <4>1 DEF StoreOK
      <4>3. DOMAIN f = Item /\ \A y \in Item : DOMAIN f[y] = {"height", "doubleSpend"}
        BY DEF ShapeOK
      <4> QED BY <4>2, <4>3
    <3>3. CASE row.type = "unconfirm"
      <4> PICK f : f = [store.tx EXCEPT ![x].height = -1]
        OBVIOUS
      <4>1. store' = [store EXCEPT !.tx[x].height = -1, !.unconfirmed = @ \cup {x}]
        BY <1>4, <3>3 DEF SetObject
      <4>2. store' = [store EXCEPT !.tx = f, !.unconfirmed = store.unconfirmed \cup {x}]
        BY <1>2, <4>1 DEF StoreOK
      <4>3. DOMAIN f = Item /\ \A y \in Item : DOMAIN f[y] = {"height", "doubleSpend"}
        BY DEF ShapeOK
      <4> QED BY <4>2, <4>3
    <3>4. CASE row.type = "reject"
      <4> PICK f : f = [store.tx EXCEPT ![x].doubleSpend = TRUE]
        OBVIOUS
      <4>1. store' = [store EXCEPT !.tx[x].doubleSpend = TRUE, !.unconfirmed = @ \ {x}]
        BY <1>4, <3>4 DEF SetObject
      <4>2. store' = [store EXCEPT !.tx = f, !.unconfirmed = store.unconfirmed \ {x}]
        BY <1>2, <4>1 DEF StoreOK
      <4>3. DOMAIN f = Item /\ \A y \in Item : DOMAIN f[y] = {"height", "doubleSpend"}
        BY DEF ShapeOK
      <4> QED BY <4>2, <4>3
    <3> QED BY <1>2, <3>1, <3>2, <3>3, <3>4 DEF Types
  <2>3. Effect
    BY <1>2, <2>1, <2>2 DEF StoreOK, ShapeOK, KeptLists, KeptUnspent
  <2> QED BY <1>1, <1>2, <2>3, KeepInfo DEF SameInfos, KeepCache
<1>5. CASE SetUnconfirmed
  <2>1. pc = "mempool" /\ store' = [store EXCEPT !.unconfirmed = @ \cup {x}]
    BY <1>5 DEF SetUnconfirmed
  <2>2. Effect
    BY <1>2, <2>1 DEF StoreOK, ShapeOK, KeptLists, KeptUnspent
  <2> QED BY <1>1, <1>2, <2>2, KeepInfo DEF SameInfos, KeepCache
<1>6. CASE CountUnconfirmed
  <2>1. pc = "pool" /\ store' = [store EXCEPT !.pool = count']
    BY <1>6 DEF CountUnconfirmed
  <2>2. Effect
    BY <1>2, <2>1 DEF StoreOK, ShapeOK, KeptLists, KeptUnspent
  <2> QED BY <1>1, <1>2, <2>2, KeepInfo DEF SameInfos, KeepCache
<1> QED BY <1>3, <1>4, <1>5, <1>6 DEF KeyRound

\* flushAddressInfo() changes nothing that is seen.
LEMMA FlushEffect ==
    ASSUME CacheInv, ShapeOK(store), StillWhole, FlushAddressInfo
    PROVE  /\ KeptLists(store, store') /\ KeptUnspent(store, store') /\ KeptKeys(store, store')
           /\ SameInfos /\ ShapeOK(store') /\ pc = "flush" /\ Done(Round) /\ Round \in todo
<1>1. pc = "flush" /\ pc \in Phases
  BY DEF FlushAddressInfo, Phases
<1> PICK a : a = Round
  OBVIOUS
<1>2. a \in todo /\ a \in Address /\ StoreOK(store)
  BY <1>1, AtPhase, WorkFacts DEF CacheInv
<1> PICK info : info = GetAddressInfo(a)
  OBVIOUS
<1>3. store' = [store EXCEPT !.addr[a] = info] /\ Put(a, info) /\ Done(a)
  BY DEF FlushAddressInfo
<1>4. /\ KeptLists(store, store') /\ KeptUnspent(store, store') /\ KeptKeys(store, store')
      /\ store'.addr = [store.addr EXCEPT ![a] = info]
  BY <1>2, <1>3 DEF StoreOK, KeptLists, KeptUnspent, KeptKeys
<1>5. \A b \in Address \ {a} : store'.addr[b] = store.addr[b]
  BY <1>2, <1>4 DEF StoreOK
<1>6. SameInfos
  <2>1. \A b \in Address : GetAddressInfo(b)' = IF b = a THEN info ELSE GetAddressInfo(b)
    BY <1>2, <1>3, <1>5, PutInfo
  <2> QED BY <2>1 DEF SameInfos
<1>7. ShapeOK(store')
  BY <1>4 DEF ShapeOK, KeptLists, KeptUnspent, KeptKeys
<1> QED BY <1>1, <1>2, <1>3, <1>4, <1>6, <1>7

\* The fields of an address object about unspent outputs, and the others.
SameUnspent(i, j) == j.unspentTxCount = i.unspentTxCount /\ j.unspentTxIndex = i.unspentTxIndex
SameBook(i, j) ==
    /\ j.txCount = i.txCount /\ j.lastConfirmedTxIdx = i.lastConfirmedTxIdx
    /\ j.unconfirmedTxCount = i.unconfirmedTxCount /\ j.received = i.received /\ j.sent = i.sent
    /\ j.unconfirmedReceived = i.unconfirmedReceived /\ j.unconfirmedSent = i.unconfirmedSent

\* What the four handlers do to the object of an address a of transaction x, from
\* i to j.
AcceptedInfo(i, j, x, a) ==
    /\ j.txCount = i.txCount + 1 /\ j.lastConfirmedTxIdx = i.lastConfirmedTxIdx
    /\ j.unconfirmedTxCount = i.unconfirmedTxCount + 1
    /\ j.received = i.received + Received(x, a) /\ j.sent = i.sent + Sent(x, a)
    /\ j.unconfirmedReceived = i.unconfirmedReceived + Received(x, a)
    /\ j.unconfirmedSent = i.unconfirmedSent + Sent(x, a)
ConfirmedInfo(i, j, x, a) ==
    /\ j.txCount = i.txCount /\ j.lastConfirmedTxIdx = i.lastConfirmedTxIdx + 1
    /\ j.unconfirmedTxCount = i.unconfirmedTxCount - 1
    /\ j.received = i.received /\ j.sent = i.sent
    /\ j.unconfirmedReceived = i.unconfirmedReceived - Received(x, a)
    /\ j.unconfirmedSent = i.unconfirmedSent - Sent(x, a)
UnconfirmedInfo(i, j, x, a) ==
    /\ j.txCount = i.txCount /\ j.lastConfirmedTxIdx = i.lastConfirmedTxIdx - 1
    /\ j.unconfirmedTxCount = i.unconfirmedTxCount + 1
    /\ j.received = i.received /\ j.sent = i.sent
    /\ j.unconfirmedReceived = i.unconfirmedReceived + Received(x, a)
    /\ j.unconfirmedSent = i.unconfirmedSent + Sent(x, a)
RejectedInfo(i, j, x, a) ==
    /\ j.txCount = i.txCount - 1 /\ j.lastConfirmedTxIdx = i.lastConfirmedTxIdx
    /\ j.unconfirmedTxCount = i.unconfirmedTxCount - 1
    /\ j.received = i.received - Received(x, a) /\ j.sent = i.sent - Sent(x, a)
    /\ j.unconfirmedReceived = i.unconfirmedReceived - Received(x, a)
    /\ j.unconfirmedSent = i.unconfirmedSent - Sent(x, a)

\* A round of the phase "list" changes the list of a and its object to info.
ListEffect(a, info) ==
    /\ KeptUnspent(store, store') /\ KeptKeys(store, store') /\ store'.addr = store.addr
    /\ \A b \in Address : b # a => store'.list[b] = store.list[b] /\ store'.idx[b] = store.idx[b]
    /\ OneInfo(a, info) /\ SameUnspent(GetAddressInfo(a), info)
    /\ ShapeOK(store') /\ Done(a)

\* A round of the phase "list": its address.
LEMMA AtListRound ==
    ASSUME CacheInv, pc = "list", NEW a, a = Round
    PROVE  /\ a \in todo /\ a \in Address /\ a \in Affected(row.tx) /\ row.tx \in Item
           /\ row \in Rows /\ StoreOK(store) /\ InfoOK(GetAddressInfo(a)) /\ pc \in Phases
<1>1. pc \in Phases
  BY DEF Phases
<1> QED BY <1>1, AtPhase, AtList

\* acceptTx(): the new node.
LEMMA AcceptListEffect ==
    ASSUME CacheInv, ShapeOK(store), StillWhole, AcceptList, NEW a, a = Round,
           NEW old, old = GetAddressInfo(a), NEW x, x = row.tx
    PROVE  /\ pc = "list" /\ row.type = "accept"
           /\ store'.list[a] = With(store.list[a], old.txCount, [tx |-> x, height |-> -1])
           /\ store'.idx[a] = [store.idx[a] EXCEPT ![x] = old.txCount]
           /\ \E info : ListEffect(a, info) /\ AcceptedInfo(old, info, x, a)
<1>1. pc = "list" /\ row.type = "accept"
  BY DEF AcceptList, In
<1> PICK info : info = [old EXCEPT !.received = @ + Received(x, a), !.sent = @ + Sent(x, a),
                  !.unconfirmedReceived = @ + Received(x, a),
                  !.unconfirmedSent = @ + Sent(x, a),
                  !.unconfirmedTxCount = @ + 1, !.txCount = @ + 1]
  OBVIOUS
<1> PICK node : node = [tx |-> x, height |-> -1]
  OBVIOUS
<1>2. /\ store' = [store EXCEPT !.list[a] = With(@, old.txCount, node), !.idx[a][x] = old.txCount]
      /\ Put(a, info) /\ Done(a)
  BY DEF AcceptList
<1>3. a \in Address /\ x \in Item /\ StoreOK(store) /\ InfoOK(old)
  BY <1>1, AtListRound
<1>4. /\ KeptUnspent(store, store') /\ KeptKeys(store, store') /\ store'.addr = store.addr
      /\ store'.list = [store.list EXCEPT ![a] = With(@, old.txCount, node)]
      /\ store'.idx = [store.idx EXCEPT ![a][x] = old.txCount]
  BY <1>2, <1>3 DEF StoreOK, KeptUnspent, KeptKeys
<1>5. /\ store'.list[a] = With(store.list[a], old.txCount, node)
      /\ store'.idx[a] = [store.idx[a] EXCEPT ![x] = old.txCount]
      /\ \A b \in Address : b # a => store'.list[b] = store.list[b] /\ store'.idx[b] = store.idx[b]
  BY <1>3, <1>4 DEF StoreOK, ShapeOK
<1>6. ShapeOK(store')
  BY <1>3, <1>4 DEF ShapeOK, KeptUnspent, KeptKeys
<1>7. OneInfo(a, info)
  BY <1>2, <1>3, <1>4, PutInfo DEF OneInfo
<1>8. /\ SameUnspent(old, info)
      /\ AcceptedInfo(old, info, x, a)
  BY <1>3 DEF InfoOK, SameUnspent, AcceptedInfo
<1>9. ListEffect(a, info)
  BY <1>2, <1>4, <1>5, <1>6, <1>7, <1>8 DEF ListEffect
<1> QED BY <1>1, <1>5, <1>8, <1>9

\* The node n of the list L, or of the list of a in store s, gets height h in L2
\* and r, and nothing else changes.
NodeHeight(L, L2, n, h) == L2 = [L EXCEPT ![n].height = h]
SetHeight(s, r, a, n, h) == r = [s EXCEPT !.list[a][n].height = h]
HeightOnly(s, r, a, n, h) ==
    /\ KeptUnspent(s, r) /\ KeptKeys(s, r) /\ r.addr = s.addr /\ r.idx = s.idx
    /\ NodeHeight(s.list[a], r.list[a], n, h)
    /\ \A b \in Address : b # a => r.list[b] = s.list[b] /\ r.idx[b] = s.idx[b]
    /\ ShapeOK(r)

\* Setting a height does nothing else.
LEMMA HeightSet ==
    ASSUME NEW s, StoreOK(s), ShapeOK(s), NEW a \in Address, NEW n, NEW h, NEW r,
           SetHeight(s, r, a, n, h)
    PROVE  HeightOnly(s, r, a, n, h)
<1>0. r = [s EXCEPT !.list[a][n].height = h]
  BY DEF SetHeight
<1>1. /\ "list" \in DOMAIN s /\ a \in DOMAIN s.list /\ DOMAIN s.list = Address
  BY DEF StoreOK
<1>2. /\ r.tx = s.tx /\ r.spentBy = s.spentBy /\ r.unconfirmed = s.unconfirmed
      /\ r.pool = s.pool /\ r.unspent = s.unspent /\ r.unspentIdx = s.unspentIdx
      /\ r.addr = s.addr /\ r.idx = s.idx
  BY <1>0 DEF StoreOK
<1> PICK f : f = s.list
  OBVIOUS
<1>3. r.list = [f EXCEPT ![a][n].height = h]
  BY <1>0, <1>1
<1>4. /\ r.list[a] = [f[a] EXCEPT ![n].height = h]
      /\ \A b \in Address : b # a => r.list[b] = f[b]
  BY ONLY <1>1, <1>3, a \in Address, f = s.list
<1>5. ShapeOK(r)
  BY <1>2 DEF ShapeOK
<1> QED BY <1>2, <1>4, <1>5 DEF HeightOnly, NodeHeight, KeptUnspent, KeptKeys

\* confirmTx(): the node at its place gets the height of the tip.
ConfirmEffect(a, old, x, L, ix, n) ==
    /\ pc = "list" /\ row.type = "confirm" /\ n = old.lastConfirmedTxIdx + 1
    /\ store'.list[a] = [L EXCEPT ![n].height = Height[tip]] /\ store'.idx[a] = ix
    /\ \E info : ListEffect(a, info) /\ ConfirmedInfo(old, info, x, a)

\* That is what the round does.
LEMMA ConfirmListEffect ==
    ASSUME CacheInv, ShapeOK(store), StillWhole, ConfirmList, NEW a, a = Round,
           NEW old, old = GetAddressInfo(a), NEW x, x = row.tx,
           NEW L, L = store.list[a], NEW ix, ix = store.idx[a], NEW n, n = ix[x], L[n].tx = x
    PROVE  ConfirmEffect(a, old, x, L, ix, n)
<1>1. pc = "list" /\ row.type = "confirm" /\ n = old.lastConfirmedTxIdx + 1
  BY DEF ConfirmList, AtNode, AtPlace, In, Place, ConfirmPlace
<1> PICK info : info = [old EXCEPT
                  !.unconfirmedReceived = @ - Received(x, a),
                  !.unconfirmedSent = @ - Sent(x, a),
                  !.unconfirmedTxCount = @ - 1, !.lastConfirmedTxIdx = n]
  OBVIOUS
<1>2. store' = [store EXCEPT !.list[a][n].height = Height[tip]] /\ Put(a, info) /\ Done(a)
  <2>1. NodeTx(a) = x
    BY DEF NodeTx
  <2> QED BY <2>1 DEF ConfirmList
<1>3. a \in Address /\ x \in Item /\ StoreOK(store) /\ InfoOK(old)
  BY <1>1, AtListRound
<1>4. /\ KeptUnspent(store, store') /\ KeptKeys(store, store') /\ store'.addr = store.addr
      /\ NodeHeight(store.list[a], store'.list[a], n, Height[tip]) /\ store'.idx = store.idx
      /\ \A b \in Address : b # a => store'.list[b] = store.list[b] /\ store'.idx[b] = store.idx[b]
      /\ ShapeOK(store')
  <2>1. SetHeight(store, store', a, n, Height[tip])
    BY <1>2 DEF SetHeight
  <2>2. StoreOK(store) /\ ShapeOK(store) /\ a \in Address
    BY <1>3
  <2>3. HeightOnly(store, store', a, n, Height[tip])
    BY ONLY <2>1, <2>2, HeightSet
  <2> QED BY ONLY <2>3 DEF HeightOnly
<1>5. store'.list[a] = [L EXCEPT ![n].height = Height[tip]] /\ store'.idx[a] = ix
  BY <1>4 DEF NodeHeight
<1>6. ShapeOK(store')
  BY ONLY <1>4
<1>7. OneInfo(a, info)
  <2>1. \A b \in Address \ {a} : store'.addr[b] = store.addr[b]
    BY ONLY <1>4
  <2>2. a \in Address /\ Put(a, info)
    BY ONLY <1>2, <1>3
  <2> QED BY ONLY <2>1, <2>2, StillWhole, PutInfo DEF OneInfo
<1>8. SameUnspent(old, info) /\ ConfirmedInfo(old, info, x, a)
  BY <1>1, <1>3 DEF InfoOK, SameUnspent, ConfirmedInfo
<1>9. ListEffect(a, info)
  BY <1>2, <1>4, <1>5, <1>6, <1>7, <1>8 DEF ListEffect
<1> QED BY <1>1, <1>5, <1>8, <1>9 DEF ConfirmEffect

\* unconfirmTx(): the node loses its height.
UnconfirmEffect(a, old, x, L, ix, n) ==
    /\ pc = "list" /\ row.type = "unconfirm"
    /\ old.lastConfirmedTxIdx >= 0 /\ n = old.lastConfirmedTxIdx
    /\ store'.list[a] = [L EXCEPT ![n].height = -1] /\ store'.idx[a] = ix
    /\ \E info : ListEffect(a, info) /\ UnconfirmedInfo(old, info, x, a)

\* That is what the round does.
LEMMA UnconfirmListEffect ==
    ASSUME CacheInv, ShapeOK(store), StillWhole, UnconfirmList, NEW a, a = Round,
           NEW old, old = GetAddressInfo(a), NEW x, x = row.tx,
           NEW L, L = store.list[a], NEW ix, ix = store.idx[a], NEW n, n = ix[x], L[n].tx = x
    PROVE  UnconfirmEffect(a, old, x, L, ix, n)
<1>1. /\ pc = "list" /\ row.type = "unconfirm"
      /\ old.lastConfirmedTxIdx >= 0 /\ n = old.lastConfirmedTxIdx
  BY DEF UnconfirmList, In, UnconfirmOK
<1> PICK info : info = [old EXCEPT
                  !.unconfirmedReceived = @ + Received(x, a),
                  !.unconfirmedSent = @ + Sent(x, a),
                  !.unconfirmedTxCount = @ + 1, !.lastConfirmedTxIdx = @ - 1]
  OBVIOUS
<1>2. store' = [store EXCEPT !.list[a][n].height = -1] /\ Put(a, info) /\ Done(a)
  <2>1. NodeTx(a) = x
    BY DEF NodeTx
  <2> QED BY <2>1 DEF UnconfirmList
<1>3. a \in Address /\ x \in Item /\ StoreOK(store) /\ InfoOK(old)
  BY <1>1, AtListRound
<1>4. /\ KeptUnspent(store, store') /\ KeptKeys(store, store') /\ store'.addr = store.addr
      /\ NodeHeight(store.list[a], store'.list[a], n, -1) /\ store'.idx = store.idx
      /\ \A b \in Address : b # a => store'.list[b] = store.list[b] /\ store'.idx[b] = store.idx[b]
      /\ ShapeOK(store')
  <2>1. SetHeight(store, store', a, n, -1)
    BY <1>2 DEF SetHeight
  <2>2. StoreOK(store) /\ ShapeOK(store) /\ a \in Address
    BY <1>3
  <2>3. HeightOnly(store, store', a, n, -1)
    BY ONLY <2>1, <2>2, HeightSet
  <2> QED BY ONLY <2>3 DEF HeightOnly
<1>5. store'.list[a] = [L EXCEPT ![n].height = -1] /\ store'.idx[a] = ix
  BY <1>4 DEF NodeHeight
<1>6. ShapeOK(store')
  BY ONLY <1>4
<1>7. OneInfo(a, info)
  <2>1. \A b \in Address \ {a} : store'.addr[b] = store.addr[b]
    BY ONLY <1>4
  <2>2. a \in Address /\ Put(a, info)
    BY ONLY <1>2, <1>3
  <2> QED BY ONLY <2>1, <2>2, StillWhole, PutInfo DEF OneInfo
<1>8. /\ SameUnspent(old, info)
      /\ UnconfirmedInfo(old, info, x, a)
  BY <1>3 DEF InfoOK, SameUnspent, UnconfirmedInfo
<1>9. ListEffect(a, info)
  BY <1>2, <1>4, <1>5, <1>6, <1>7, <1>8 DEF ListEffect
<1> QED BY <1>1, <1>5, <1>8, <1>9 DEF UnconfirmEffect

\* rejectTx(): the node at the end is removed.
LEMMA RejectListEffect ==
    ASSUME CacheInv, ShapeOK(store), StillWhole, RejectList, NEW a, a = Round,
           NEW old, old = GetAddressInfo(a), NEW x, x = row.tx,
           NEW L, L = store.list[a], NEW ix, ix = store.idx[a], NEW n, n = ix[x], L[n].tx = x
    PROVE  /\ pc = "list" /\ row.type = "reject" /\ n \in DOMAIN L /\ n = old.txCount - 1
           /\ store'.list[a] = Without(L, n) /\ store'.idx[a] = ix
           /\ \E info : ListEffect(a, info) /\ RejectedInfo(old, info, x, a)
<1>1. /\ pc = "list" /\ row.type = "reject" /\ RejectPlace(a) = n /\ n \in DOMAIN L
      /\ n = old.txCount - 1
  BY DEF RejectList, AtNode, AtPlace, In, NodeFound, Place, RejectPlace
<1> PICK info : info = RemoveAddressTxNode(old, x, a)
  OBVIOUS
<1>2. store' = [store EXCEPT !.list[a] = Without(@, n)] /\ Put(a, info) /\ Done(a)
  <2>1. NodeTx(a) = x
    BY DEF NodeTx
  <2> QED BY <1>1, <2>1 DEF RejectList
<1>3. a \in Address /\ x \in Item /\ StoreOK(store) /\ InfoOK(old)
  BY <1>1, AtListRound
<1>4. /\ KeptUnspent(store, store') /\ KeptKeys(store, store') /\ store'.addr = store.addr
      /\ store'.list = [store.list EXCEPT ![a] = Without(@, n)] /\ store'.idx = store.idx
  BY <1>2, <1>3 DEF StoreOK, KeptUnspent, KeptKeys
<1>5. /\ store'.list[a] = Without(L, n) /\ store'.idx[a] = ix
      /\ \A b \in Address : b # a => store'.list[b] = store.list[b] /\ store'.idx[b] = store.idx[b]
  BY <1>3, <1>4 DEF StoreOK
<1>6. ShapeOK(store')
  BY <1>4 DEF ShapeOK, KeptUnspent, KeptKeys
<1>7. OneInfo(a, info)
  BY <1>2, <1>3, <1>4, PutInfo DEF OneInfo
<1>8. SameUnspent(old, info) /\ RejectedInfo(old, info, x, a)
  BY <1>3 DEF InfoOK, SameUnspent, RemoveAddressTxNode, RejectedInfo
<1>9. ListEffect(a, info)
  BY <1>2, <1>4, <1>5, <1>6, <1>7, <1>8 DEF ListEffect
<1> QED BY <1>1, <1>5, <1>8, <1>9

-----------------------------------------------------------------------------
(* What the steps do to the rounds that are left. *)

\* Every handler has the phases "list" and "flush".
LEMMA FullList ==
    ASSUME row \in Rows
    PROVE  Full("list") = Affected(row.tx)
<1>1. row # NoRow /\ row.type \in Types
  BY NoRowFacts
<1>2. PhaseOf(row, "list")
  BY <1>1, ProgramFacts DEF PhaseOf, ProgramOK
<1> QED BY <1>1, <1>2, WorkFacts DEF Full

\* A row is taken.
LEMMA TakeFacts ==
    ASSUME CacheInv, CanTake, NEW type \in Types, NEW x \in Item, TakeRow(type, x)
    PROVE  /\ pc = "idle" /\ row = NoRow /\ row' = [type |-> type, tx |-> x] /\ row' \in Rows
           /\ store' = store /\ torn' = torn /\ pc' \in Phases /\ count' = count
           /\ \A p : Rest(p) = {} /\ Rest(p)' = Full(p)'
           /\ \A a \in Address : /\ GetAddressInfo(a) = store.addr[a]
                                 /\ GetAddressInfo(a)' = store.addr[a]
<1>1. pc = "idle" /\ row = NoRow
  BY DEF CanTake, CacheInv, Control
<1> PICK r : r = [type |-> type, tx |-> x]
  OBVIOUS
<1>2. r \in Rows
  BY ProgramFacts DEF Rows
<1>3. /\ row' = r /\ GotoPhase(r, 1) /\ store' = store /\ cache' = cache /\ torn' = torn
      /\ count' = count
  BY DEF TakeRow, GotoPhase
<1>4. pc' \in Phases
  BY <1>2, <1>3, FirstPhase, Arrive
<1>5. \A p : Rest(p) = {}
  BY <1>1 DEF Rest, Phases
<1>6. \A p : Rest(p)' = Full(p)'
  BY <1>2, <1>3, RestBegin
<1>7. \A a \in Address : GetAddressInfo(a) = store.addr[a]
  BY <1>1, IdleInfo
<1>8. \A a \in Address : GetAddressInfo(a)' = GetAddressInfo(a)
  BY <1>3, KeepInfo
<1> QED BY <1>1, <1>2, <1>3, <1>4, <1>5, <1>6, <1>7, <1>8

\* A round is done.
LEMMA RoundDone ==
    ASSUME CacheInv, pc \in Phases, pc # "save", NEW e \in todo, Done(e)
    PROVE  /\ row' = row /\ torn' = torn /\ state' = state /\ tip' = tip
           /\ pc' \in Phases /\ pc' # "aborted" /\ row \in Rows
           /\ \A p : Full(p)' = Full(p)
           /\ \A p : Rest(p)' = IF p = pc THEN Rest(p) \ {e} ELSE Rest(p)
           /\ Resumable' => Resumable /\ pc # "flush" /\ pc # "pool"
           /\ Rest(pc) = todo
<1>1. InPhase /\ row \in Rows
  BY AtPhase
<1>2. row' = row /\ torn' = torn /\ state' = state /\ tip' = tip
  BY DEF Done, ledger
<1>3. pc' \in Phases /\ pc' # "aborted"
  BY <1>1, Advance DEF Phases
<1>4. \A p : Full(p)' = Full(p)
  BY <1>2 DEF Full
<1>5. \A p : Rest(p)' = IF p = pc THEN Rest(p) \ {e} ELSE Rest(p)
  BY <1>1, RestStep
<1>6. Resumable' => Resumable /\ pc # "flush" /\ pc # "pool"
  BY <1>1, ResumableStep
<1>7. Rest(pc) = todo
  <2>1. pc # "down"
    BY DEF Phases
  <2> QED BY <2>1 DEF Rest
<1> QED BY <1>1, <1>2, <1>3, <1>4, <1>5, <1>6, <1>7

\* The id of a row is saved: nothing else was left.
LEMMA SaveFacts ==
    ASSUME CacheInv, SaveId
    PROVE  /\ pc = "save" /\ row \in Rows /\ row' = NoRow /\ store' = store /\ torn' = torn
           /\ state' = state /\ tip' = tip /\ pc' = "idle" /\ count' = count
           /\ \A p : p # "save" => Rest(p) = {}
           /\ \A p : Rest(p)' = {}
           /\ \A a \in Address : GetAddressInfo(a)' = GetAddressInfo(a)
<1>1. /\ pc = "save" /\ row' = NoRow /\ store' = store /\ torn' = torn /\ cache' = cache
      /\ state' = state /\ tip' = tip /\ pc' = "idle" /\ count' = count
  BY DEF SaveId, ledger
<1>2. pc \in Phases /\ pc # "down"
  BY <1>1 DEF Phases
<1>3. InPhase /\ row \in Rows /\ row.type \in Types
  BY <1>2, AtPhase
<1>4. ASSUME NEW p, p # "save" PROVE Rest(p) = {}
  <2>1. ~Ahead(pc, p)
    <3> PICK P : P = Program[row.type]
      OBVIOUS
    <3> PICK n : n = Len(Program[row.type])
      OBVIOUS
    <3>1. /\ n \in 1..9 /\ P[n] = "save" /\ \A i, j \in 1..n : P[i] = P[j] => i = j
      BY <1>3, ProgramFacts DEF ProgramOK
    <3>2. SUFFICES ASSUME NEW i \in 1..n, NEW j \in 1..n, i < j, P[i] = "save", P[j] = p
                   PROVE  FALSE
      BY <1>1 DEF Ahead
    <3>3. n \in 1..n
      BY <3>1
    <3>4. i = n
      BY <3>1, <3>2, <3>3
    <3> QED BY <3>1, <3>2, <3>4
  <2> QED BY <1>1, <1>2, <1>4, <2>1 DEF Rest
<1>5. \A p : Rest(p)' = {}
  BY <1>1 DEF Rest, Phases
<1>6. \A a \in Address : GetAddressInfo(a)' = GetAddressInfo(a)
  BY <1>1, KeepInfo
<1> QED BY <1>1, <1>3, <1>4, <1>5, <1>6

\* A crash where the row can be repeated: everything is to be done again.
LEMMA CrashFacts ==
    ASSUME CacheInv, Crash, ~torn'
    PROVE  /\ ~torn /\ row' = row /\ store' = store /\ state' = state /\ tip' = tip
           /\ pc' = "down" /\ pc # "aborted" /\ pc # "down"
           /\ \A p : Rest(p)' = Full(p)
           /\ \A a \in Address : GetAddressInfo(a)' = store.addr[a]
           /\ \/ /\ \A p : Rest(p) = Full(p)
                 /\ \A a \in Address : GetAddressInfo(a) = store.addr[a]
              \/ pc \in Phases /\ Resumable
           /\ moving' = NoMove /\ (pc = "list" => row.type # "reject")
           /\ row.type = "confirm" /\ pc = "list" => moving.step # 1
<1>1. /\ ~torn /\ row' = row /\ store' = store /\ state' = state /\ tip' = tip
      /\ pc' = "down" /\ pc # "aborted" /\ pc # "down" /\ cache' = <<>> /\ Resumable
      /\ moving' = NoMove /\ (row.type = "confirm" /\ pc = "list" => moving.step # 1)
  BY RepeatableResumes DEF Crash, ledger
<1>7. pc = "list" => row.type # "reject"
  BY <1>1 DEF Resumable
<1>2. \A p : Rest(p)' = Full(p)
  BY <1>1 DEF Rest, Full
<1>3. DOMAIN cache' = {}
  BY <1>1
<1>4. \A a \in Address : GetAddressInfo(a)' = store.addr[a]
  BY <1>1, <1>3 DEF GetAddressInfo
<1>5. CASE pc = "idle"
  <2>1. row = NoRow
    BY <1>5 DEF CacheInv, Control
  <2>2. \A p : Rest(p) = Full(p)
    BY <1>5, <2>1 DEF Rest, Full, Phases
  <2> QED BY <1>1, <1>2, <1>4, <1>5, <1>7, <2>2, IdleInfo
<1>6. CASE pc \in Phases
  BY <1>1, <1>2, <1>4, <1>6, <1>7
<1> QED BY <1>1, <1>5, <1>6 DEF CacheInv, Control

\* tparser starts again: everything of the row is still to be done.
LEMMA RestartFacts ==
    ASSUME CacheInv, Restart
    PROVE  /\ pc = "down" /\ row' = row /\ store' = store /\ torn' = torn
           /\ state' = state /\ tip' = tip /\ pc' # "aborted"
           /\ \A p : Rest(p)' = Full(p) /\ Rest(p) = Full(p) /\ Full(p)' = Full(p)
           /\ \A a \in Address : /\ GetAddressInfo(a)' = store.addr[a]
                                 /\ GetAddressInfo(a) = store.addr[a]
<1>1. /\ pc = "down" /\ row' = row /\ store' = store /\ torn' = torn /\ cache' = cache
      /\ state' = state /\ tip' = tip
      /\ IF row = NoRow THEN pc' = "idle" /\ todo' = {} ELSE GotoPhase(row, 1)
  BY DEF Restart, ledger, bounds
<1>2. row \in Rows \cup {NoRow}
  BY DEF CacheInv, Control
<1>3. \A p : Rest(p) = Full(p) /\ Full(p)' = Full(p)
  BY <1>1 DEF Rest, Full
<1>4. \A p : Rest(p)' = Full(p)
  <2>1. CASE row = NoRow
    BY <1>1, <2>1 DEF Rest, Full, Phases
  <2>2. CASE row \in Rows
    <3>1. GotoPhase(row, 1)
      BY <1>1, <2>2, NoRowFacts
    <3>2. \A p : Rest(p)' = Full(p)'
      BY <1>1, <2>2, <3>1, RestBegin
    <3> QED BY <1>3, <3>2
  <2> QED BY <1>2, <2>1, <2>2
<1>5. pc' # "aborted"
  <2>1. CASE row = NoRow
    BY <1>1, <2>1
  <2>2. CASE row \in Rows
    <3>1. GotoPhase(row, 1)
      BY <1>1, <2>2, NoRowFacts
    <3>2. pc' \in Phases
      BY <1>1, <2>2, <3>1, FirstPhase, Arrive
    <3> QED BY <3>2 DEF Phases
  <2> QED BY <1>2, <2>1, <2>2
<1>6. \A a \in Address : GetAddressInfo(a) = store.addr[a]
  BY <1>1, IdleInfo
<1>7. \A a \in Address : GetAddressInfo(a)' = GetAddressInfo(a)
  BY <1>1, KeepInfo
<1> QED BY <1>1, <1>3, <1>4, <1>5, <1>6, <1>7

-----------------------------------------------------------------------------
(* The book of an address: its list and its totals, while a row is applied. *)

\* The members of a list are finitely many.
LEMMA BookMembers ==
    ASSUME NEW L, NEW ix, NEW i, NEW a, NEW M, NEW C, NEW b, NEW X,
           BookAt(L, ix, i, a, M, C, b, X)
    PROVE  /\ IsFiniteSet(M) /\ M \subseteq Item /\ Cardinality(M) = i.txCount
           /\ NodesOK(L, ix, i.txCount, M) /\ OrderOK(L, i.txCount, i.lastConfirmedTxIdx, C, b)
<1>1. NodesOK(L, ix, i.txCount, M) /\ OrderOK(L, i.txCount, i.lastConfirmedTxIdx, C, b)
  BY DEF BookAt, ListAt
<1> QED BY <1>1, ListCount

\* acceptTx(): one more.
LEMMA BookAccept ==
    ASSUME NEW L, NEW ix, NEW i, NEW a, NEW M, NEW C, NEW b,
           BookAt(L, ix, i, a, M, C, b, {}), NEW x \in Item, x \notin M, x \notin C,
           NEW j, AcceptedInfo(i, j, x, a)
    PROVE  BookAt(With(L, i.txCount, [tx |-> x, height |-> -1]), [ix EXCEPT ![x] = i.txCount],
                  j, a, M \cup {x}, C, b, {})
<1>1. /\ ListAt(L, ix, i.txCount, i.lastConfirmedTxIdx, M, C, b, {}) /\ TotalsAt(i, a, M, C)
      /\ IsFiniteSet(M) /\ M \subseteq Item
  BY BookMembers DEF BookAt
<1>2. ListAt(With(L, i.txCount, [tx |-> x, height |-> -1]), [ix EXCEPT ![x] = i.txCount],
             i.txCount + 1, i.lastConfirmedTxIdx, M \cup {x}, C, b, {})
  BY <1>1, ListAppend
<1>3. TotalsAt(j, a, M \cup {x}, C)
  BY <1>1, TotalsAppend DEF AcceptedInfo
<1> QED BY <1>2, <1>3 DEF BookAt, AcceptedInfo

\* confirmTx(): the node behind the confirmed ones is confirmed.
LEMMA BookConfirm ==
    ASSUME NEW L, NEW ix, NEW i, NEW a, NEW M, NEW C, NEW b, NEW x \in M, x \notin C,
           BookAt(L, ix, i, a, M, C, b, {x}), NEW n, n = ix[x], n = i.lastConfirmedTxIdx + 1,
           NEW h, h = Pos(b, x)[1], \A c \in C : Before(Pos(b, c), Pos(b, x)),
           NEW L2, L2 = [L EXCEPT ![n].height = h], NEW j, ConfirmedInfo(i, j, x, a)
    PROVE  BookAt(L2, ix, j, a, M, C \cup {x}, b, {})
<1> PICK T, k : T = i.txCount /\ k = i.lastConfirmedTxIdx
  OBVIOUS
<1>1. /\ ListAt(L, ix, T, k, M, C, b, {x}) /\ TotalsAt(i, a, M, C)
      /\ IsFiniteSet(M) /\ M \subseteq Item /\ NodesOK(L, ix, T, M)
  BY BookMembers DEF BookAt
<1>2. ListAt(L2, ix, T, k, M, C, b, {x})
  BY ONLY <1>1, x \in M, n = ix[x], L2 = [L EXCEPT ![n].height = h], ListHeight
<1>3. n \in DOMAIN L2 /\ L2[n].tx = x /\ L2[n].height = h
  <2>1. n \in DOMAIN L /\ L[n].tx = x /\ DOMAIN L[n] = {"tx", "height"}
    BY <1>1 DEF NodesOK
  <2> QED BY ONLY <2>1, L2 = [L EXCEPT ![n].height = h]
<1>4. ListAt(L2, ix, T, n, M, C \cup {x}, b, {})
  BY <1>2, <1>3, ListConfirm
<1>5. TotalsAt(j, a, M, C \cup {x})
  BY <1>1, TotalsConfirm DEF ConfirmedInfo
<1> QED BY <1>4, <1>5 DEF BookAt, ConfirmedInfo

\* unconfirmTx(): the last confirmed node is unconfirmed.
LEMMA BookUnconfirm ==
    ASSUME NEW L, NEW ix, NEW i, NEW a, NEW M, NEW C, NEW b, NEW x \in M, x \in C,
           BookAt(L, ix, i, a, M, C, b, {x}), NEW n, n = ix[x],
           i.lastConfirmedTxIdx >= 0, n = i.lastConfirmedTxIdx,
           NEW j, UnconfirmedInfo(i, j, x, a)
    PROVE  BookAt([L EXCEPT ![n].height = -1], ix, j, a, M, C \ {x}, b, {})
<1> PICK T, k : T = i.txCount /\ k = i.lastConfirmedTxIdx
  OBVIOUS
<1>1. /\ ListAt(L, ix, T, k, M, C, b, {x}) /\ TotalsAt(i, a, M, C)
      /\ IsFiniteSet(M) /\ M \subseteq Item
  BY BookMembers DEF BookAt
<1>2. ListAt([L EXCEPT ![k].height = -1], ix, T, k - 1, M, C \ {x}, b, {})
  <2> PICK L2 : L2 = [L EXCEPT ![k].height = -1]
    OBVIOUS
  <2>1. k >= 0 /\ ix[x] = k
    OBVIOUS
  <2>2. ListAt(L2, ix, T, k - 1, M, C \ {x}, b, {})
    BY ONLY <1>1, <2>1, x \in M, L2 = [L EXCEPT ![k].height = -1], ListUnconfirm
  <2> QED BY <2>2
<1>3. TotalsAt(j, a, M, C \ {x})
  BY <1>1, TotalsUnconfirm DEF UnconfirmedInfo
<1> QED BY <1>2, <1>3 DEF BookAt, UnconfirmedInfo

\* Either of them, seen with the object of the store: the row may still come again.
LEMMA BookHeight ==
    ASSUME NEW L, NEW ix, NEW q, NEW a, NEW M, NEW C, NEW b, NEW x \in M,
           BookAt(L, ix, q, a, M, C, b, {x}), NEW n, n = ix[x], NEW h,
           NEW L2, L2 = [L EXCEPT ![n].height = h]
    PROVE  BookAt(L2, ix, q, a, M, C, b, {x})
<1>1. ListAt(L2, ix, q.txCount, q.lastConfirmedTxIdx, M, C, b, {x})
  BY ListHeight DEF BookAt
<1> QED BY <1>1 DEF BookAt

\* rejectTx(): one less.
LEMMA BookReject ==
    ASSUME NEW L, NEW ix, NEW i, NEW a, NEW M, NEW C, NEW b, NEW x \in M, x \notin C,
           BookAt(L, ix, i, a, M, C, b, {}), NEW n, n = i.txCount - 1, n = ix[x],
           NEW j, RejectedInfo(i, j, x, a)
    PROVE  BookAt(Without(L, n), ix, j, a, M \ {x}, C, b, {})
<1> PICK T, k : T = i.txCount /\ k = i.lastConfirmedTxIdx
  OBVIOUS
<1>1. /\ ListAt(L, ix, T, k, M, C, b, {}) /\ TotalsAt(i, a, M, C)
      /\ IsFiniteSet(M) /\ M \subseteq Item /\ NodesOK(L, ix, T, M)
  BY BookMembers DEF BookAt
<1>2. ListAt(L, ix, T, k, M, C, b, {x})
  BY <1>1, ListElsewhere
<1>3. T - 1 \in DOMAIN L /\ L[T - 1].tx = x
  BY <1>1 DEF NodesOK
<1>4. ListAt(Without(L, T - 1), ix, T - 1, k, M \ {x}, C, b, {})
  BY <1>2, <1>3, ListRemove
<1>5. TotalsAt(j, a, M \ {x}, C)
  BY <1>1, TotalsRemove DEF RejectedInfo
<1> QED BY <1>4, <1>5 DEF BookAt, RejectedInfo

\* A step that neither reaches the list of a nor changes what is counted.
LEMMA BookKeep ==
    ASSUME NEW L, NEW ix, NEW s, NEW b, NEW r, NEW i, NEW a, NEW P,
           BookBy(L, ix, s, b, r, i, a, P), NEW j, SameBook(i, j), NEW Q, a \in P <=> a \in Q
    PROVE  BookBy(L, ix, s, b, r, j, a, Q)
BY DEF BookBy, BookAt, TotalsAt, SameBook, MembersAt, ConfAt, ExemptAt

\* A book has every index that finds its nodes ...
LEMMA BookReindex ==
    ASSUME NEW L, NEW ix, NEW s, NEW b, NEW r, NEW i, NEW a, NEW P,
           BookBy(L, ix, s, b, r, i, a, P), NEW jx, DOMAIN jx = Item, Settled(L, jx)
    PROVE  BookBy(L, jx, s, b, r, i, a, P)
BY ListReindex DEF BookBy, BookAt

\* ... its own is one, and so is where they are.
LEMMA BookSettled ==
    ASSUME NEW L, NEW ix, NEW s, NEW b, NEW r, NEW i, NEW a, NEW P,
           BookBy(L, ix, s, b, r, i, a, P)
    PROVE  Settled(L, ix) /\ BookBy(L, Where(L), s, b, r, i, a, P)
<1>1. NodesOK(L, ix, i.txCount, MembersAt(s, r, a, P))
  BY DEF BookBy, BookAt, ListAt
<1>2. NodesFree(L, i.txCount, MembersAt(s, r, a, P)) /\ Settled(L, ix)
  BY <1>1, NodesOf
<1>3. Settled(L, Where(L)) /\ DOMAIN Where(L) = Item
  BY <1>2, WhereSettled
<1> QED BY <1>2, <1>3, BookReindex

\* The same nodes are the same book.
LEMMA BookSame ==
    ASSUME NEW L, NEW V, NEW s, NEW b, NEW r, NEW i, NEW a, NEW P,
           BookBy(L, Where(L), s, b, r, i, a, P), SameList(L, V)
    PROVE  BookBy(V, Where(V), s, b, r, i, a, P)
<1>1. BookBy(V, Where(L), s, b, r, i, a, P)
  BY ListSame DEF BookBy, BookAt
<1> QED BY <1>1, BookSettled

\* Unconfirmed nodes may change places.
LEMMA BookSwap ==
    ASSUME NEW L, NEW V, NEW s, NEW b, NEW r, NEW i, NEW a, NEW P,
           BookBy(L, Where(L), s, b, r, i, a, P), NEW n, NEW m, Swapped(L, V, n, m),
           L[n].tx \notin ConfAt(s, r, a, P), L[m].tx \notin ConfAt(s, r, a, P)
    PROVE  BookBy(V, Where(V), s, b, r, i, a, P)
BY ListSwap DEF BookBy, BookAt

\* A row without addresses to reach, or without a row at all.
LEMMA BookDone ==
    ASSUME NEW L, NEW ix, NEW s, NEW b, NEW r, NEW i, NEW a, NEW P, a \notin P
    PROVE  BookBy(L, ix, s, b, r, i, a, P) <=>
             BookAt(L, ix, i, a, HistoryOf(s, a), ConfirmedOf(s, a), b, {})
<1>1. /\ MembersAt(s, r, a, P) = HistoryOf(s, a) /\ ConfAt(s, r, a, P) = ConfirmedOf(s, a)
      /\ ExemptAt(r, a, P) = {}
  BY DEF MembersAt, ConfAt, ExemptAt
<1> QED BY <1>1 DEF BookBy

\* A row is taken: what the list has is what it had.
LEMMA BookTake ==
    ASSUME NEW L, NEW ix, NEW s, NEW b, NEW r, NEW i, NEW a, BookBy(L, ix, s, b, r, i, a, {}),
           NEW u, NEW d, NEW type \in Types, NEW x \in Item, Takes(s, b, u, d, type, x),
           NEW w, w = [type |-> type, tx |-> x], NEW P, a \in P <=> a \in Affected(x)
    PROVE  BookBy(L, ix, u, d, w, i, a, P)
<1>1. BookAt(L, ix, i, a, HistoryOf(s, a), ConfirmedOf(s, a), b, {})
  BY BookDone
<1>2. /\ Moves(s, u, x, StateAfter(type)) /\ s[x] = StateBefore(type)
      /\ \A c \in Item : s[c] = "confirmed" => Pos(d, c) = Pos(b, c)
      /\ w.type = type /\ w.tx = x
  BY DEF Takes
<1>3. u[x] = StateAfter(type) /\ \A y \in Item : y # x => u[y] = s[y]
  BY <1>2 DEF Moves
<1>4. MembersAt(u, w, a, P) = HistoryOf(s, a)
  <2>1. CASE a \notin Affected(x)
    BY <1>2, <1>3, <2>1 DEF MembersAt, HistoryOf
  <2>2. CASE a \in Affected(x) /\ type = "accept"
    BY <1>2, <1>3, <2>2 DEF MembersAt, HistoryOf, StateBefore, StateAfter
  <2>3. CASE a \in Affected(x) /\ type = "reject"
    BY <1>2, <1>3, <2>3 DEF MembersAt, HistoryOf, StateBefore, StateAfter
  <2>4. CASE a \in Affected(x) /\ type \in {"confirm", "unconfirm"}
    BY <1>2, <1>3, <2>4 DEF MembersAt, HistoryOf, StateBefore, StateAfter
  <2> QED BY <2>1, <2>2, <2>3, <2>4 DEF Types
<1>5. ConfAt(u, w, a, P) = ConfirmedOf(s, a)
  <2>1. CASE a \notin Affected(x)
    BY <1>2, <1>3, <2>1 DEF ConfAt, ConfirmedOf
  <2>2. CASE a \in Affected(x) /\ type = "confirm"
    BY <1>2, <1>3, <2>2 DEF ConfAt, ConfirmedOf, StateBefore, StateAfter
  <2>3. CASE a \in Affected(x) /\ type = "unconfirm"
    BY <1>2, <1>3, <2>3 DEF ConfAt, ConfirmedOf, StateBefore, StateAfter
  <2>4. CASE a \in Affected(x) /\ type \in {"accept", "reject"}
    BY <1>2, <1>3, <2>4 DEF ConfAt, ConfirmedOf, StateBefore, StateAfter
  <2> QED BY <2>1, <2>2, <2>3, <2>4 DEF Types
<1>6. /\ ListAt(L, ix, i.txCount, i.lastConfirmedTxIdx, HistoryOf(s, a),
                ConfirmedOf(s, a), b, {})
      /\ TotalsAt(i, a, HistoryOf(s, a), ConfirmedOf(s, a))
  BY <1>1 DEF BookAt
<1>7. \A c \in ConfirmedOf(s, a) : Pos(d, c) = Pos(b, c)
  BY <1>2 DEF ConfirmedOf
<1>8. ListAt(L, ix, i.txCount, i.lastConfirmedTxIdx, HistoryOf(s, a),
             ConfirmedOf(s, a), d, ExemptAt(w, a, P))
  BY <1>6, <1>7, ListElsewhere
<1> QED BY <1>4, <1>5, <1>6, <1>8 DEF BookBy, BookAt

\* What the row has to do with an address whose list it has still to reach.
LEMMA BookAhead ==
    ASSUME NEW s, NEW b, NEW r \in Rows, LedgerTyped(s, b), RowOK(s, b, r),
           NEW a \in Affected(r.tx), NEW P, a \in P, NEW x, x = r.tx,
           NEW M, M = MembersAt(s, r, a, P), NEW C, C = ConfAt(s, r, a, P)
    PROVE  /\ r.type = "accept" => /\ x \notin M /\ x \notin C /\ M \cup {x} = HistoryOf(s, a)
                                   /\ C = ConfirmedOf(s, a)
           /\ r.type = "confirm" => /\ x \in M /\ x \notin C /\ M = HistoryOf(s, a)
                                    /\ C \cup {x} = ConfirmedOf(s, a)
                                    /\ \A c \in C : Before(Pos(b, c), Pos(b, x))
                                    /\ Pos(b, x)[1] = Height[b]
           /\ r.type = "unconfirm" => /\ x \in M /\ x \in C /\ M = HistoryOf(s, a)
                                      /\ C \ {x} = ConfirmedOf(s, a)
                                      /\ \A c \in C \ {x} : Before(Pos(b, c), Pos(b, x))
           /\ r.type = "reject" => /\ x \in M /\ x \notin C /\ M \ {x} = HistoryOf(s, a)
                                   /\ C = ConfirmedOf(s, a)
           /\ ExemptAt(r, a, P) = IF r.type \in {"confirm", "unconfirm"} THEN {x} ELSE {}
<1>1. r # NoRow /\ x \in Item /\ r.type \in Types
  BY NoRowFacts
<1>2. /\ s[x] = StateAfter(r.type)
      /\ r.type \in {"confirm", "unconfirm"} => OnTop(s, b, x)
      /\ r.type = "confirm" => Pos(b, x)[1] = Height[b]
  BY <1>1 DEF RowOK
<1>3. CASE r.type = "accept"
  BY <1>1, <1>2, <1>3 DEF MembersAt, ConfAt, ExemptAt, HistoryOf, ConfirmedOf, StateAfter
<1>4. CASE r.type = "confirm"
  <2>1. M = HistoryOf(s, a) /\ C = ConfirmedOf(s, a) \ {x} /\ s[x] = "confirmed" /\ OnTop(s, b, x)
    BY <1>2, <1>4 DEF MembersAt, ConfAt, StateAfter
  <2>2. x \in ConfirmedOf(s, a) /\ x \in HistoryOf(s, a)
    BY <1>1, <2>1 DEF ConfirmedOf, HistoryOf
  <2>3. \A c \in C : Before(Pos(b, c), Pos(b, x))
    BY <2>1 DEF OnTop, ConfirmedOf
  <2> QED BY <1>2, <1>4, <2>1, <2>2, <2>3 DEF ExemptAt
<1>5. CASE r.type = "unconfirm"
  <2>1. /\ M = HistoryOf(s, a) /\ C = ConfirmedOf(s, a) \cup {x} /\ s[x] = "unconfirmed"
        /\ OnTop(s, b, x)
    BY <1>2, <1>5 DEF MembersAt, ConfAt, StateAfter
  <2>2. x \notin ConfirmedOf(s, a) /\ x \in HistoryOf(s, a)
    BY <1>1, <2>1 DEF ConfirmedOf, HistoryOf
  <2>3. \A c \in C \ {x} : Before(Pos(b, c), Pos(b, x))
    BY <2>1 DEF OnTop, ConfirmedOf
  <2> QED BY <1>5, <2>1, <2>2, <2>3 DEF ExemptAt
<1>6. CASE r.type = "reject"
  BY <1>1, <1>2, <1>6 DEF MembersAt, ConfAt, ExemptAt, HistoryOf, ConfirmedOf, StateAfter
<1> QED BY <1>1, <1>3, <1>4, <1>5, <1>6 DEF Types

\* While no exchange is under way, the list is seen as it is.
LEMMA StillView == moving = NoMove => \A a : ListView(a) = store.list[a]
BY DEF ListView, NoMove

\* A step that does not begin an exchange.
LEMMA StillMoves ==
    ASSUME moving = NoMove, moving' = moving
    PROVE  /\ \A a : ListView(a) = store.list[a] /\ ListView(a)' = store'.list[a]
           /\ MoveOK'
<1>1. (moving = NoMove => \A a : ListView(a) = store.list[a])'
  BY StillView, PTL
<1> QED BY <1>1, StillView DEF MoveOK

\* The links of a list stay as long as the row does not reach it.
LEMMA LinksKeep ==
    ASSUME NEW L, NEW ix, NEW s, NEW r, NEW a, NEW P, Links(L, ix, s, r, a, P),
           NEW Q, a \in P <=> a \in Q
    PROVE  Links(L, ix, s, r, a, Q)
BY DEF Links, ConfAt

\* Where the row has been, or has not to do with confirmations, the index is right.
LEMMA LinksSettled ==
    ASSUME NEW L, NEW ix, NEW s, NEW r, NEW a, NEW P
    PROVE  /\ Settled(L, ix) => Links(L, ix, s, r, a, P)
           /\ Links(L, ix, s, r, a, P) /\ (a \notin P \/ r.type # "confirm") => Settled(L, ix)
BY DEF Links, Linked

\* A round of the phases "outputs" and "inputs": its entry.
LEMMA AtUnspentRound ==
    ASSUME CacheInv, pc \in {"outputs", "inputs"}, NEW e, e = Round
    PROVE  /\ pc \in Phases /\ e \in todo /\ e \in Work(pc, row.tx) /\ row.tx \in Item
           /\ AddressOf(e) \in Address /\ AddressOf(e) \in Affected(row.tx) /\ e[1] \in Outpoint
           /\ InfoOK(GetAddressInfo(AddressOf(e))) /\ StoreOK(store)
<1>1. pc \in Phases
  BY DEF Phases
<1>2. /\ e \in todo /\ e \in Work(pc, row.tx) /\ row.tx \in Item
      /\ Affected(row.tx) \subseteq Address
  BY <1>1, AtPhase
<1>3. e \in Entries(Outs(row.tx)) \cup Entries(Ins(row.tx))
  BY <1>2 DEF Work
<1>4. AddressOf(e) \in Affected(row.tx) /\ e[1] \in Outpoint
  BY <1>2, <1>3, AffectedFacts
<1> QED BY <1>1, <1>2, <1>4, GetFacts DEF CacheInv

\* A round that leaves the books alone.
Quiet ==
    /\ KeptLists(store, store') /\ ShapeOK(store')
    /\ \A b \in Address : SameBook(GetAddressInfo(b), GetAddressInfo(b)')
    /\ pc \in Phases /\ pc # "list" /\ pc # "save" /\ \E e \in todo : Done(e)
    /\ pc # "flush" => store'.addr = store.addr
    /\ pc \in {"outputs", "inputs", "flush"} => KeptKeys(store, store')
    /\ pc \notin {"outputs", "inputs"} =>
         /\ KeptUnspent(store, store')
         /\ \A b \in Address : SameUnspent(GetAddressInfo(b), GetAddressInfo(b)')

\* The rounds of every phase but "list" and "save" are quiet.
LEMMA QuietRound ==
    ASSUME CacheInv, ShapeOK(store), StillWhole,
           AcceptOutput \/ AcceptInput \/ RejectInput \/ RejectOutput \/ KeyRound
             \/ FlushAddressInfo
    PROVE  Quiet
<1>1. CASE AcceptOutput \/ RejectInput
  <2> PICK e : e = Round
    OBVIOUS
  <2>1. pc \in {"outputs", "inputs"} /\ InsertAddressUnspent(e) /\ Done(e)
    BY <1>1 DEF AcceptOutput, RejectInput, In
  <2>2. /\ pc \in Phases /\ e \in todo /\ AddressOf(e) \in Address /\ e[1] \in Outpoint
        /\ InfoOK(GetAddressInfo(AddressOf(e)))
    BY <2>1, AtUnspentRound
  <2> PICK a, old : a = AddressOf(e) /\ old = GetAddressInfo(a)
    OBVIOUS
  <2> PICK info : info = [old EXCEPT !.unspentTxIndex = @ + 1, !.unspentTxCount = @ + 1]
    OBVIOUS
  <2>3. /\ KeptLists(store, store') /\ KeptKeys(store, store') /\ store'.addr = store.addr
        /\ ShapeOK(store') /\ OneInfo(a, info)
    BY <2>1, <2>2, InsertEffect
  <2>4. SameBook(old, info)
    BY <2>2 DEF SameBook, InfoOK
  <2>5. \A b \in Address : SameBook(GetAddressInfo(b), GetAddressInfo(b)')
    BY <2>3, <2>4 DEF OneInfo, SameBook
  <2> QED BY <2>1, <2>2, <2>3, <2>5 DEF Quiet
<1>2. CASE AcceptInput
  <2> PICK e : e = Round
    OBVIOUS
  <2> PICK a, old : a = AddressOf(e) /\ old = GetAddressInfo(a)
    OBVIOUS
  <2> PICK info : info = [old EXCEPT !.unspentTxCount = @ - 1]
    OBVIOUS
  <2>1. pc = "inputs" /\ DeleteUnspent(e) /\ Put(a, info) /\ Done(e)
    BY <1>2 DEF AcceptInput, In
  <2>2. /\ pc \in Phases /\ e \in todo /\ a \in Address /\ e[1] \in Outpoint /\ InfoOK(old)
    BY <2>1, AtUnspentRound
  <2>3. /\ KeptLists(store, store') /\ KeptKeys(store, store') /\ store'.addr = store.addr
        /\ ShapeOK(store')
    BY <2>1, <2>2, DeleteEffect
  <2>4. OneInfo(a, info)
    BY <2>1, <2>2, <2>3, PutInfo DEF OneInfo
  <2>5. SameBook(old, info)
    BY <2>2 DEF SameBook, InfoOK
  <2>6. \A b \in Address : SameBook(GetAddressInfo(b), GetAddressInfo(b)')
    BY <2>4, <2>5 DEF OneInfo, SameBook
  <2> QED BY <2>1, <2>2, <2>3, <2>6 DEF Quiet
<1>3. CASE RejectOutput
  <2> PICK e : e = Round
    OBVIOUS
  <2>1. pc = "outputs" /\ DeleteUnspent(e) /\ KeepCache /\ Done(e)
    BY <1>3 DEF RejectOutput, In
  <2>2. pc \in Phases /\ e \in todo /\ AddressOf(e) \in Address /\ e[1] \in Outpoint
    BY <2>1, AtUnspentRound
  <2>3. /\ KeptLists(store, store') /\ KeptKeys(store, store') /\ store'.addr = store.addr
        /\ ShapeOK(store')
    BY <2>1, <2>2, DeleteEffect
  <2>4. \A b \in Address : GetAddressInfo(b)' = GetAddressInfo(b)
    BY <2>1, <2>3, KeepInfo DEF KeepCache
  <2>5. \A b \in Address : SameBook(GetAddressInfo(b), GetAddressInfo(b)')
    BY <2>4 DEF SameBook
  <2> QED BY <2>1, <2>2, <2>3, <2>5 DEF Quiet
<1>4. CASE KeyRound
  <2>1. /\ KeptLists(store, store') /\ store'.addr = store.addr /\ SameInfos /\ ShapeOK(store')
        /\ pc \in {"spends", "object", "mempool", "pool"} /\ Done(row.tx) /\ row.tx \in todo
        /\ KeptUnspent(store, store')
    BY <1>4, KeyRoundEffect
  <2>2. \A b \in Address : /\ SameBook(GetAddressInfo(b), GetAddressInfo(b)')
                             /\ SameUnspent(GetAddressInfo(b), GetAddressInfo(b)')
    BY <2>1 DEF SameInfos, SameBook, SameUnspent
  <2>3. pc \in Phases /\ pc # "list" /\ pc # "save"
    BY <2>1 DEF Phases
  <2> QED BY <2>1, <2>2, <2>3 DEF Quiet
<1>5. CASE FlushAddressInfo
  <2>1. /\ KeptLists(store, store') /\ SameInfos /\ ShapeOK(store') /\ pc = "flush"
        /\ Done(Round) /\ Round \in todo /\ KeptKeys(store, store') /\ KeptUnspent(store, store')
    BY <1>5, FlushEffect
  <2>2. \A b \in Address : /\ SameBook(GetAddressInfo(b), GetAddressInfo(b)')
                             /\ SameUnspent(GetAddressInfo(b), GetAddressInfo(b)')
    BY <2>1 DEF SameInfos, SameBook, SameUnspent
  <2>3. pc \in Phases /\ pc # "list" /\ pc # "save"
    BY <2>1 DEF Phases
  <2> QED BY <2>1, <2>2, <2>3 DEF Quiet
<1> QED BY <1>1, <1>2, <1>3, <1>4, <1>5

\* A quiet round keeps what the lists and totals say.
LEMMA BookQuiet ==
    ASSUME CacheInv, BookInv, ~torn, Quiet
    PROVE  Books'
<1> PICK e \in todo : Done(e)
  BY DEF Quiet
<1>1. pc \in Phases /\ pc # "save" /\ pc # "aborted" /\ pc # "list"
  BY DEF Quiet, Phases
<1>2. /\ row' = row /\ state' = state /\ tip' = tip /\ Full("list")' = Full("list")
      /\ Rest("list")' = Rest("list") /\ (Resumable' => Resumable /\ pc # "flush")
  BY <1>1, RoundDone DEF Quiet
<1>3. BooksNow /\ (Resumable => BooksAgain) /\ LinksOK
  BY <1>1 DEF BookInv, Books
<1>4. ShapeOK(store)'
  BY DEF Quiet
<1>5. moving = NoMove /\ moving' = moving
  BY <1>1 DEF BookInv, MoveTyped, Done
<1>6. /\ \A a : ListView(a) = store.list[a] /\ ListView(a)' = store'.list[a]
      /\ MoveOK'
  BY <1>5, StillMoves
<1>7. /\ \A a : store'.list[a] = store.list[a] /\ store'.idx[a] = store.idx[a]
      /\ \A a : ListView(a)' = ListView(a)
  BY <1>6 DEF Quiet, KeptLists
<1>8. BooksNow'
  <2> SUFFICES ASSUME NEW a \in Address PROVE Seen(a, GetAddressInfo(a), Rest("list"))'
    BY DEF BooksNow
  <2> PICK L : L = ListView(a)
    OBVIOUS
  <2>1. BookBy(L, Where(L), state, tip, row, GetAddressInfo(a), a, Rest("list"))
    BY <1>3 DEF BooksNow, Seen
  <2>2. SameBook(GetAddressInfo(a), GetAddressInfo(a)')
    BY DEF Quiet
  <2>3. BookBy(L, Where(L), state, tip, row, GetAddressInfo(a)', a, Rest("list"))
    BY <2>1, <2>2, BookKeep
  <2> QED BY <1>2, <1>7, <2>3 DEF Seen
<1>9. ASSUME Resumable' PROVE BooksAgain'
  <2>1. Resumable /\ store'.addr = store.addr
    BY <1>2, <1>9 DEF Quiet
  <2>2. \A a \in Address : Seen(a, store.addr[a], Full("list"))
    BY <1>3, <2>1 DEF BooksAgain
  <2> QED BY <1>2, <1>7, <2>1, <2>2 DEF BooksAgain, Seen
<1>10. LinksOK'
  BY <1>2, <1>3, <1>5, <1>7 DEF LinksOK
<1> QED BY <1>4, <1>6, <1>8, <1>9, <1>10 DEF Books

\* The phases "list" of the addresses that are not the round's.
LEMMA BookOthers ==
    ASSUME CacheInv, BookInv, ~torn, pc = "list", moving = NoMove,
           NEW a \in todo, NEW info, ListEffect(a, info),
           BookBy(store'.list[a], store'.idx[a], state, tip, row, info, a, Rest("list") \ {a}),
           Resumable' =>
             BookBy(store'.list[a], store'.idx[a], state, tip, row, store.addr[a], a, Full("list"))
    PROVE  Books'
<1>1. pc \in Phases /\ pc # "save" /\ pc # "aborted" /\ Done(a)
  BY DEF Phases, ListEffect
<1>2. /\ row' = row /\ state' = state /\ tip' = tip /\ Full("list")' = Full("list")
      /\ Rest("list")' = Rest("list") \ {a} /\ (Resumable' => Resumable)
  BY <1>1, RoundDone
<1>3. BooksNow /\ (Resumable => BooksAgain) /\ LinksOK
  BY <1>1 DEF BookInv, Books
<1>4. ShapeOK(store)'
  BY DEF ListEffect
<1>5. moving' = moving
  BY <1>1 DEF Done
<1>6. /\ \A b : ListView(b) = store.list[b] /\ ListView(b)' = store'.list[b]
      /\ MoveOK'
  BY <1>5, StillMoves
<1>7. BooksNow'
  <2> SUFFICES ASSUME NEW b \in Address PROVE Seen(b, GetAddressInfo(b), Rest("list"))'
    BY DEF BooksNow
  <2> PICK L : L = store'.list[b]
    OBVIOUS
  <2>1. BookBy(L, Where(L), state, tip, row, GetAddressInfo(b)', b, Rest("list") \ {a})
    <3>1. CASE b = a
      <4>1. BookBy(L, Where(L), state, tip, row, info, a, Rest("list") \ {a})
        BY <3>1, BookSettled
      <4> QED BY <3>1, <4>1 DEF ListEffect, OneInfo
    <3>2. CASE b # a
      <4>1. L = ListView(b)
        BY <1>6, <3>2 DEF ListEffect
      <4>2. BookBy(L, Where(L), state, tip, row, GetAddressInfo(b), b, Rest("list"))
        BY <1>3, <4>1 DEF BooksNow, Seen
      <4>3. SameBook(GetAddressInfo(b), GetAddressInfo(b)')
        BY <3>2 DEF ListEffect, OneInfo, SameBook
      <4> QED BY <3>2, <4>2, <4>3, BookKeep
    <3> QED BY <3>1, <3>2
  <2> QED BY <1>2, <1>6, <2>1 DEF Seen
<1>8. ASSUME Resumable' PROVE BooksAgain'
  <2> SUFFICES ASSUME NEW b \in Address PROVE Seen(b, store.addr[b], Full("list"))'
    BY DEF BooksAgain
  <2> PICK L : L = store'.list[b]
    OBVIOUS
  <2>1. Resumable /\ store'.addr = store.addr
    BY <1>2, <1>8 DEF ListEffect
  <2>2. BookBy(L, Where(L), state, tip, row, store.addr[b], b, Full("list"))
    <3>1. CASE b = a
      BY <1>8, <3>1, BookSettled
    <3>2. CASE b # a
      <4>1. L = ListView(b)
        BY <1>6, <3>2 DEF ListEffect
      <4> QED BY <1>3, <2>1, <4>1 DEF BooksAgain, Seen
    <3> QED BY <3>1, <3>2
  <2> QED BY <1>2, <1>6, <2>1, <2>2 DEF Seen
<1>9. LinksOK'
  <2> SUFFICES ASSUME NEW b \in Address
               PROVE  Links(store'.list[b], store'.idx[b], state, row, b, Rest("list") \ {a})
    BY <1>2 DEF LinksOK
  <2>1. CASE b = a
    BY <2>1, BookSettled, LinksSettled
  <2>2. CASE b # a
    <3>1. store'.list[b] = store.list[b] /\ store'.idx[b] = store.idx[b]
      BY <2>2 DEF ListEffect
    <3>2. Links(store.list[b], store.idx[b], state, row, b, Rest("list"))
      BY <1>3 DEF LinksOK
    <3> QED BY <2>2, <3>1, <3>2, LinksKeep
  <2> QED BY <2>1, <2>2
<1> QED BY <1>4, <1>6, <1>7, <1>8, <1>9 DEF Books

\* What a round of the phase "list" finds.
LEMMA AtBook ==
    ASSUME CacheInv, LedgerInv, BookInv, ~torn, pc = "list", moving = NoMove, NEW a, a = Round,
           NEW L, L = store.list[a], NEW ix, ix = store.idx[a]
    PROVE  /\ a \in todo /\ a \in Address /\ a \in Affected(row.tx) /\ row \in Rows
           /\ row.tx \in Item /\ LedgerTyped(state, tip) /\ RowOK(state, tip, row)
           /\ a \in Rest("list") /\ a \in Full("list") /\ ShapeOK(store) /\ DOMAIN ix = Item
           /\ BookBy(L, Where(L), state, tip, row, GetAddressInfo(a), a, Rest("list"))
           /\ Resumable => BookBy(L, Where(L), state, tip, row, store.addr[a], a, Full("list"))
           /\ Links(L, ix, state, row, a, Rest("list"))
<1>1. /\ a \in todo /\ a \in Address /\ a \in Affected(row.tx) /\ row \in Rows
      /\ row.tx \in Item /\ pc \in Phases
  BY AtListRound
<1>2. LedgerTyped(state, tip) /\ RowOK(state, tip, row)
  BY DEF LedgerInv, LedgerOK
<1>3. a \in Rest("list")
  BY <1>1 DEF Rest, Phases
<1>4. a \in Full("list")
  BY <1>1, FullList
<1>5. ShapeOK(store) /\ BooksNow /\ (Resumable => BooksAgain) /\ LinksOK
  BY <1>1 DEF BookInv, Books
<1>6. ListView(a) = L
  BY StillView
<1>7. BookBy(L, Where(L), state, tip, row, GetAddressInfo(a), a, Rest("list"))
  BY <1>1, <1>5, <1>6 DEF BooksNow, Seen
<1>8. Resumable => BookBy(L, Where(L), state, tip, row, store.addr[a], a, Full("list"))
  BY <1>1, <1>5, <1>6 DEF BooksAgain, Seen
<1>9. Links(L, ix, state, row, a, Rest("list"))
  BY <1>1, <1>5 DEF LinksOK
<1>10. DOMAIN ix = Item
  BY <1>1, <1>5 DEF ShapeOK
<1> QED BY <1>1, <1>2, <1>3, <1>4, <1>5, <1>7, <1>8, <1>9, <1>10

\* Where no exchange is to be finished, the list is a book with its own index.
LEMMA AtSettled ==
    ASSUME CacheInv, LedgerInv, BookInv, ~torn, pc = "list", moving = NoMove, NEW a, a = Round,
           NEW L, L = store.list[a], NEW ix, ix = store.idx[a], row.type # "confirm" \/ Settled(L, ix)
    PROVE  /\ BookBy(L, ix, state, tip, row, GetAddressInfo(a), a, Rest("list"))
           /\ Resumable => BookBy(L, ix, state, tip, row, store.addr[a], a, Full("list"))
<1>1. /\ BookBy(L, Where(L), state, tip, row, GetAddressInfo(a), a, Rest("list"))
      /\ Resumable => BookBy(L, Where(L), state, tip, row, store.addr[a], a, Full("list"))
      /\ Links(L, ix, state, row, a, Rest("list")) /\ DOMAIN ix = Item
  BY AtBook
<1>2. Settled(L, ix)
  BY <1>1, LinksSettled
<1> QED BY <1>1, <1>2, BookReindex

\* The node that the index has for a member.
LEMMA BookNode ==
    ASSUME NEW L, NEW ix, NEW i, NEW a, NEW M, NEW C, NEW b, NEW X,
           BookAt(L, ix, i, a, M, C, b, X), NEW x \in M, NEW n, n = ix[x]
    PROVE  n \in DOMAIN L /\ L[n].tx = x
BY DEF BookAt, ListAt, NodesOK

\* acceptTx()
LEMMA BookAcceptList ==
    ASSUME CacheInv, LedgerInv, BookInv, ~torn, StillWhole, AcceptList
    PROVE  Books'
<1> PICK a : a = Round
  OBVIOUS
<1> PICK old, x : old = GetAddressInfo(a) /\ x = row.tx
  OBVIOUS
<1> PICK P : P = Rest("list")
  OBVIOUS
<1> PICK M, C : M = MembersAt(state, row, a, P) /\ C = ConfAt(state, row, a, P)
  OBVIOUS
<1>1. pc = "list" /\ row.type = "accept"
  BY DEF AcceptList, In
<1>0. moving = NoMove
  BY <1>1 DEF BookInv, MoveTyped
<1>2. /\ a \in todo /\ a \in Affected(x) /\ row \in Rows /\ x \in Item
      /\ LedgerTyped(state, tip) /\ RowOK(state, tip, row) /\ a \in P /\ ShapeOK(store)
      /\ BookBy(store.list[a], store.idx[a], state, tip, row, old, a, P)
  BY <1>0, <1>1, AtBook, AtSettled
<1>3. /\ x \notin M /\ x \notin C /\ M \cup {x} = HistoryOf(state, a)
      /\ C = ConfirmedOf(state, a) /\ ExemptAt(row, a, P) = {}
  BY ONLY <1>1, <1>2, x = row.tx, M = MembersAt(state, row, a, P), C = ConfAt(state, row, a, P),
     BookAhead
<1>4. BookAt(store.list[a], store.idx[a], old, a, M, C, tip, {})
  BY <1>2, <1>3 DEF BookBy
<1>5. /\ store'.list[a] = With(store.list[a], old.txCount, [tx |-> x, height |-> -1])
      /\ store'.idx[a] = [store.idx[a] EXCEPT ![x] = old.txCount]
  BY <1>2, AcceptListEffect
<1>6. PICK info : ListEffect(a, info) /\ AcceptedInfo(old, info, x, a)
  BY <1>2, AcceptListEffect
<1>7. BookAt(store'.list[a], store'.idx[a], info, a, M \cup {x}, C, tip, {})
  <2>1. BookAt(With(store.list[a], old.txCount, [tx |-> x, height |-> -1]),
               [store.idx[a] EXCEPT ![x] = old.txCount], info, a, M \cup {x}, C, tip, {})
    BY ONLY <1>2, <1>3, <1>4, <1>6, BookAccept
  <2> QED BY <1>5, <2>1
<1>8. BookBy(store'.list[a], store'.idx[a], state, tip, row, info, a, P \ {a})
  BY <1>3, <1>7, BookDone
<1>9. ~Resumable'
  <2>1. pc \in Phases /\ pc # "save" /\ Done(a)
    BY <1>1, <1>6 DEF Phases, ListEffect
  <2>2. Resumable' => Resumable
    BY <1>2, <2>1, RoundDone
  <2> QED BY <1>1, <2>2 DEF Resumable
<1> QED BY <1>0, <1>1, <1>2, <1>6, <1>8, <1>9, BookOthers

\* rejectTx()
LEMMA BookRejectList ==
    ASSUME CacheInv, LedgerInv, BookInv, ~torn, StillWhole, RejectList
    PROVE  Books'
<1> PICK a : a = Round
  OBVIOUS
<1> PICK old, x : old = GetAddressInfo(a) /\ x = row.tx
  OBVIOUS
<1> PICK P : P = Rest("list")
  OBVIOUS
<1> PICK M, C : M = MembersAt(state, row, a, P) /\ C = ConfAt(state, row, a, P)
  OBVIOUS
<1> PICK L, ix : L = store.list[a] /\ ix = store.idx[a]
  OBVIOUS
<1> PICK n : n = ix[x]
  OBVIOUS
<1>1. pc = "list" /\ row.type = "reject" /\ moving = NoMove
  BY DEF RejectList, AtNode, In
<1>2. /\ a \in todo /\ a \in Affected(x) /\ row \in Rows /\ x \in Item
      /\ LedgerTyped(state, tip) /\ RowOK(state, tip, row) /\ a \in P /\ ShapeOK(store)
      /\ BookBy(L, ix, state, tip, row, old, a, P)
  BY <1>1, AtBook, AtSettled
<1>3. /\ x \in M /\ x \notin C /\ M \ {x} = HistoryOf(state, a)
      /\ C = ConfirmedOf(state, a) /\ ExemptAt(row, a, P) = {}
  BY ONLY <1>1, <1>2, x = row.tx, M = MembersAt(state, row, a, P), C = ConfAt(state, row, a, P),
     BookAhead
<1>4. BookAt(L, ix, old, a, M, C, tip, {})
  BY <1>2, <1>3 DEF BookBy
<1>5. L[n].tx = x
  BY ONLY <1>3, <1>4, n = ix[x], BookNode
<1>6. /\ n = old.txCount - 1 /\ store'.list[a] = Without(L, n) /\ store'.idx[a] = ix
      /\ \E info : ListEffect(a, info) /\ RejectedInfo(old, info, x, a)
  <2>1. a = Round /\ old = GetAddressInfo(a) /\ x = row.tx
    OBVIOUS
  <2>2. L = store.list[a] /\ ix = store.idx[a] /\ n = ix[x]
    OBVIOUS
  <2> QED BY ONLY <1>2, <1>5, <2>1, <2>2, CacheInv, StillWhole, RejectList, RejectListEffect
<1>7. PICK info : ListEffect(a, info) /\ RejectedInfo(old, info, x, a)
  BY <1>6
<1>8. BookAt(store'.list[a], store'.idx[a], info, a, M \ {x}, C, tip, {})
  <2>1. BookAt(Without(L, n), ix, info, a, M \ {x}, C, tip, {})
    BY ONLY <1>3, <1>4, <1>6, <1>7, n = ix[x], BookReject
  <2> QED BY <1>6, <2>1
<1>9. BookBy(store'.list[a], store'.idx[a], state, tip, row, info, a, P \ {a})
  BY <1>3, <1>8, BookDone
<1>10. ~Resumable'
  <2>1. pc \in Phases /\ pc # "save" /\ Done(a)
    BY <1>1, <1>7 DEF Phases, ListEffect
  <2>2. Resumable' => Resumable
    BY <1>2, <2>1, RoundDone
  <2> QED BY <1>1, <2>2 DEF Resumable
<1> QED BY <1>1, <1>2, <1>7, <1>9, <1>10, BookOthers

\* confirmTx() ends the exchange only where the index is right.
LEMMA ConfirmAtPlace ==
    ASSUME CacheInv, LedgerInv, BookInv, ~torn, ConfirmList, NEW a, a = Round
    PROVE  Settled(store.list[a], store.idx[a])
<1> PICK old, x : old = GetAddressInfo(a) /\ x = row.tx
  OBVIOUS
<1> PICK P : P = Rest("list")
  OBVIOUS
<1> PICK M, C : M = MembersAt(state, row, a, P) /\ C = ConfAt(state, row, a, P)
  OBVIOUS
<1> PICK L, ix : L = store.list[a] /\ ix = store.idx[a]
  OBVIOUS
<1>1. /\ pc = "list" /\ row.type = "confirm" /\ moving = NoMove
      /\ ix[x] \in DOMAIN L /\ ix[x] = old.lastConfirmedTxIdx + 1
  BY DEF ConfirmList, AtNode, AtPlace, In, NodeFound, Place, ConfirmPlace
<1>2. /\ BookBy(L, Where(L), state, tip, row, old, a, P) /\ Links(L, ix, state, row, a, P)
  BY <1>1, AtBook
<1>3. /\ NodesFree(L, old.txCount, M)
      /\ OrderOK(L, old.txCount, old.lastConfirmedTxIdx, C, tip)
  <2>1. ListAt(L, Where(L), old.txCount, old.lastConfirmedTxIdx, M, C, tip, ExemptAt(row, a, P))
    BY <1>2 DEF BookBy, BookAt
  <2> QED BY <2>1, NodesOf DEF ListAt
<1>4. Linked(L, ix, x, C, a \in P /\ row.type = "confirm")
  BY <1>2 DEF Links
<1> QED BY <1>1, <1>3, <1>4, ConfirmSettled

\* confirmTx()
LEMMA BookConfirmList ==
    ASSUME CacheInv, LedgerInv, BookInv, ~torn, StillWhole, ConfirmList
    PROVE  Books'
<1> PICK a : a = Round
  OBVIOUS
<1> PICK old, x : old = GetAddressInfo(a) /\ x = row.tx
  OBVIOUS
<1> PICK P, F : P = Rest("list") /\ F = Full("list")
  OBVIOUS
<1> PICK M, C : M = MembersAt(state, row, a, P) /\ C = ConfAt(state, row, a, P)
  OBVIOUS
<1> PICK L, ix, h : L = store.list[a] /\ ix = store.idx[a] /\ h = Height[tip]
  OBVIOUS
<1> PICK n : n = ix[x]
  OBVIOUS
<1>1. pc = "list" /\ row.type = "confirm" /\ moving = NoMove
  BY DEF ConfirmList, AtNode, In
<1>2. /\ a \in todo /\ a \in Affected(x) /\ row \in Rows /\ x \in Item
      /\ LedgerTyped(state, tip) /\ RowOK(state, tip, row) /\ a \in P /\ a \in F
      /\ ShapeOK(store)
      /\ BookBy(L, ix, state, tip, row, old, a, P)
      /\ Resumable => BookBy(L, ix, state, tip, row, store.addr[a], a, F)
  BY <1>1, AtBook, AtSettled, ConfirmAtPlace
<1>3. /\ x \in M /\ x \notin C /\ M = HistoryOf(state, a)
      /\ C \cup {x} = ConfirmedOf(state, a) /\ ExemptAt(row, a, P) = {x}
      /\ h = Pos(tip, x)[1] /\ \A c \in C : Before(Pos(tip, c), Pos(tip, x))
  BY ONLY <1>1, <1>2, x = row.tx, h = Height[tip], M = MembersAt(state, row, a, P),
     C = ConfAt(state, row, a, P), BookAhead
<1>4. BookAt(L, ix, old, a, M, C, tip, {x})
  BY <1>2, <1>3 DEF BookBy
<1>5. L[n].tx = x
  BY ONLY <1>3, <1>4, n = ix[x], BookNode
<1>6. /\ n = old.lastConfirmedTxIdx + 1
      /\ store'.list[a] = [L EXCEPT ![n].height = h] /\ store'.idx[a] = ix
      /\ \E info : ListEffect(a, info) /\ ConfirmedInfo(old, info, x, a)
  <2>1. a = Round /\ old = GetAddressInfo(a) /\ x = row.tx
    OBVIOUS
  <2>2. L = store.list[a] /\ ix = store.idx[a] /\ n = ix[x]
    OBVIOUS
  <2>3. ConfirmEffect(a, old, x, L, ix, n)
    BY ONLY <1>2, <1>5, <2>1, <2>2, CacheInv, StillWhole, ConfirmList, ConfirmListEffect
  <2> QED BY ONLY <2>3, h = Height[tip] DEF ConfirmEffect
<1>7. PICK info : ListEffect(a, info) /\ ConfirmedInfo(old, info, x, a)
  BY <1>6
<1>8. BookAt(store'.list[a], store'.idx[a], info, a, M, C \cup {x}, tip, {})
  <2> PICK L2 : L2 = store'.list[a]
    OBVIOUS
  <2>1. L2 = [L EXCEPT ![n].height = h]
    BY <1>6
  <2>2. /\ x \in M /\ x \notin C /\ h = Pos(tip, x)[1]
        /\ \A c \in C : Before(Pos(tip, c), Pos(tip, x))
    BY <1>3
  <2>3. n = old.lastConfirmedTxIdx + 1 /\ ConfirmedInfo(old, info, x, a)
    BY <1>6, <1>7
  <2>4. BookAt(L2, ix, info, a, M, C \cup {x}, tip, {})
    BY ONLY <1>4, <2>1, <2>2, <2>3, n = ix[x], BookConfirm
  <2> QED BY <1>6, <2>4
<1>9. BookBy(store'.list[a], store'.idx[a], state, tip, row, info, a, P \ {a})
  <2>1. BookAt(store'.list[a], store'.idx[a], info, a, HistoryOf(state, a),
               ConfirmedOf(state, a), tip, {})
    BY <1>3, <1>8
  <2>2. a \notin P \ {a}
    OBVIOUS
  <2> QED BY ONLY <2>1, <2>2, BookDone
<1>10. ASSUME Resumable'
       PROVE  BookBy(store'.list[a], store'.idx[a], state, tip, row, store.addr[a], a, F)
  <2> PICK L2 : L2 = store'.list[a]
    OBVIOUS
  <2>0. L2 = [L EXCEPT ![n].height = h]
    BY <1>6
  <2>1. pc \in Phases /\ pc # "save" /\ Done(a)
    BY <1>1, <1>7 DEF Phases, ListEffect
  <2>2. Resumable
    BY <1>2, <1>10, <2>1, RoundDone
  <2>3. /\ MembersAt(state, row, a, F) = M /\ ConfAt(state, row, a, F) = C
        /\ ExemptAt(row, a, F) = {x}
    BY <1>2, <1>3 DEF MembersAt, ConfAt, ExemptAt
  <2>4. BookAt(L, ix, store.addr[a], a, M, C, tip, {x})
    BY <1>2, <2>2, <2>3 DEF BookBy
  <2>5. BookAt(L2, ix, store.addr[a], a, M, C, tip, {x})
    BY ONLY <1>3, <2>0, <2>4, n = ix[x], BookHeight
  <2> QED BY <1>6, <2>3, <2>5 DEF BookBy
<1> QED BY <1>1, <1>2, <1>7, <1>9, <1>10, BookOthers

\* unconfirmTx()
LEMMA BookUnconfirmList ==
    ASSUME CacheInv, LedgerInv, BookInv, ~torn, StillWhole, UnconfirmList
    PROVE  Books'
<1> PICK a : a = Round
  OBVIOUS
<1> PICK old, x : old = GetAddressInfo(a) /\ x = row.tx
  OBVIOUS
<1> PICK P, F : P = Rest("list") /\ F = Full("list")
  OBVIOUS
<1> PICK M, C : M = MembersAt(state, row, a, P) /\ C = ConfAt(state, row, a, P)
  OBVIOUS
<1> PICK L, ix : L = store.list[a] /\ ix = store.idx[a]
  OBVIOUS
<1> PICK n : n = ix[x]
  OBVIOUS
<1>1. pc = "list" /\ row.type = "unconfirm"
  BY DEF UnconfirmList, In
<1>0. moving = NoMove
  BY <1>1 DEF BookInv, MoveTyped
<1>2. /\ a \in todo /\ a \in Affected(x) /\ row \in Rows /\ x \in Item
      /\ LedgerTyped(state, tip) /\ RowOK(state, tip, row) /\ a \in P /\ a \in F
      /\ ShapeOK(store)
      /\ BookBy(L, ix, state, tip, row, old, a, P)
      /\ Resumable => BookBy(L, ix, state, tip, row, store.addr[a], a, F)
  BY <1>0, <1>1, AtBook, AtSettled
<1>3. /\ x \in M /\ x \in C /\ M = HistoryOf(state, a)
      /\ C \ {x} = ConfirmedOf(state, a) /\ ExemptAt(row, a, P) = {x}
  BY ONLY <1>1, <1>2, x = row.tx, M = MembersAt(state, row, a, P), C = ConfAt(state, row, a, P),
     BookAhead
<1>4. BookAt(L, ix, old, a, M, C, tip, {x})
  BY <1>2, <1>3 DEF BookBy
<1>5. L[n].tx = x
  BY ONLY <1>3, <1>4, n = ix[x], BookNode
<1>6. /\ old.lastConfirmedTxIdx >= 0 /\ n = old.lastConfirmedTxIdx
      /\ store'.list[a] = [L EXCEPT ![n].height = -1] /\ store'.idx[a] = ix
      /\ \E info : ListEffect(a, info) /\ UnconfirmedInfo(old, info, x, a)
  <2>1. a = Round /\ old = GetAddressInfo(a) /\ x = row.tx
    OBVIOUS
  <2>2. L = store.list[a] /\ ix = store.idx[a] /\ n = ix[x]
    OBVIOUS
  <2>3. UnconfirmEffect(a, old, x, L, ix, n)
    BY ONLY <1>2, <1>5, <2>1, <2>2, CacheInv, StillWhole, UnconfirmList, UnconfirmListEffect
  <2> QED BY ONLY <2>3 DEF UnconfirmEffect
<1>7. PICK info : ListEffect(a, info) /\ UnconfirmedInfo(old, info, x, a)
  BY <1>6
<1>8. BookAt(store'.list[a], store'.idx[a], info, a, M, C \ {x}, tip, {})
  <2>1. BookAt([L EXCEPT ![n].height = -1], ix, info, a, M, C \ {x}, tip, {})
    BY ONLY <1>3, <1>4, <1>6, <1>7, n = ix[x], BookUnconfirm
  <2> QED BY <1>6, <2>1
<1>9. BookBy(store'.list[a], store'.idx[a], state, tip, row, info, a, P \ {a})
  BY <1>3, <1>8, BookDone
<1>10. ASSUME Resumable'
       PROVE  BookBy(store'.list[a], store'.idx[a], state, tip, row, store.addr[a], a, F)
  <2> PICK L2 : L2 = store'.list[a]
    OBVIOUS
  <2>0. L2 = [L EXCEPT ![n].height = -1]
    BY <1>6
  <2>1. pc \in Phases /\ pc # "save" /\ Done(a)
    BY <1>1, <1>7 DEF Phases, ListEffect
  <2>2. Resumable
    BY <1>2, <1>10, <2>1, RoundDone
  <2>3. /\ MembersAt(state, row, a, F) = M /\ ConfAt(state, row, a, F) = C
        /\ ExemptAt(row, a, F) = {x}
    BY <1>2, <1>3 DEF MembersAt, ConfAt, ExemptAt
  <2>4. BookAt(L, ix, store.addr[a], a, M, C, tip, {x})
    BY <1>2, <2>2, <2>3 DEF BookBy
  <2>5. BookAt(L2, ix, store.addr[a], a, M, C, tip, {x})
    BY ONLY <1>3, <2>0, <2>4, n = ix[x], BookHeight
  <2> QED BY <1>6, <2>3, <2>5 DEF BookBy
<1> QED BY <1>0, <1>1, <1>2, <1>7, <1>9, <1>10, BookOthers

-----------------------------------------------------------------------------
(* The exchange of two nodes. *)

\* The lists as sameness.
LEMMA NearSame ==
    ASSUME NEW L, NEW V, NEW ix, NEW x, NEW p, NEW m, NEW C, SameList(L, V)
    PROVE  /\ Near(L, ix, x, p, m) => Near(V, ix, x, p, m)
           /\ Near(L, ix, x, p, m) /\ Front(L, C, p, m) => Front(V, C, p, m)
BY DEF Near, Front, SameList

\* Where the exchange of two nodes begins.
LEMMA MoveBegins ==
    ASSUME CacheInv, LedgerInv, BookInv, ~torn, SwitchFirstNode, NEW a, a = Round,
           NEW L, L = store.list[a], NEW ix, ix = store.idx[a],
           NEW C, C = ConfAt(state, row, a, Rest("list")), NEW p, p = Place(a),
           NEW m, m = ix[row.tx]
    PROVE  /\ Near(L, ix, row.tx, p, m) /\ L[p].tx \notin C /\ L[m].tx \notin C
           /\ row.type = "confirm" => Front(L, C, p, m)
<1> PICK old, x : old = GetAddressInfo(a) /\ x = row.tx
  OBVIOUS
<1> PICK P : P = Rest("list")
  OBVIOUS
<1> PICK M : M = MembersAt(state, row, a, P)
  OBVIOUS
<1>1. /\ pc = "list" /\ row.type \in {"confirm", "reject"} /\ moving = NoMove
      /\ m \in DOMAIN L /\ p \in DOMAIN L /\ p # m
      /\ row.type = "confirm" => p = old.lastConfirmedTxIdx + 1
      /\ row.type = "reject" => p = old.txCount - 1
  BY DEF SwitchFirstNode, AtNode, AtPlace, In, NodeFound, Place, ConfirmPlace, RejectPlace
<1>2. /\ BookBy(L, Where(L), state, tip, row, old, a, P) /\ Links(L, ix, state, row, a, P)
      /\ a \in Affected(x) /\ row \in Rows /\ a \in P
      /\ LedgerTyped(state, tip) /\ RowOK(state, tip, row)
  BY <1>1, AtBook
<1>3. /\ NodesFree(L, old.txCount, M)
      /\ OrderOK(L, old.txCount, old.lastConfirmedTxIdx, C, tip)
  <2>1. ListAt(L, Where(L), old.txCount, old.lastConfirmedTxIdx, M, C, tip, ExemptAt(row, a, P))
    BY <1>2 DEF BookBy, BookAt
  <2> QED BY <2>1, NodesOf DEF ListAt
<1>4. x \in M /\ x \notin C
  <2>1. a \in Affected(row.tx) /\ M = MembersAt(state, row, a, P) /\ C = ConfAt(state, row, a, P)
    BY <1>2
  <2> QED BY ONLY <1>1, <1>2, <2>1, x = row.tx, BookAhead
<1>5. CASE row.type = "confirm"
  <2>1. Linked(L, ix, x, C, a \in P /\ row.type = "confirm")
    BY <1>2 DEF Links
  <2>2. Near(L, ix, x, p, m) /\ Front(L, C, p, m)
    <3>1. p = old.lastConfirmedTxIdx + 1 /\ p \in DOMAIN L /\ p # ix[x]
      BY <1>1, <1>5
    <3> QED BY ONLY <1>3, <1>4, <2>1, <3>1, m = ix[row.tx], x = row.tx, ConfirmBegins
  <2> QED BY <2>2 DEF Front
<1>6. CASE row.type = "reject"
  <2>1. Settled(L, ix)
    BY <1>2, <1>6, LinksSettled
  <2>2. p = old.txCount - 1 /\ p \in DOMAIN L /\ p # ix[x]
    BY <1>1, <1>6
  <2>3. Near(L, ix, x, p, m) /\ L[p].tx \notin C /\ L[m].tx \notin C
    BY ONLY <1>3, <1>4, <2>1, <2>2, m = ix[row.tx], x = row.tx, RejectBegins
  <2> QED BY <1>6, <2>3
<1> QED BY <1>1, <1>5, <1>6

\* What a write of an exchange leaves alone, and what it needs.
LEMMA SwitchKeeps ==
    ASSUME CacheInv, BookInv, ~torn, SwitchTxNode, NEW a, a = Round
    PROVE  /\ pc = "list" /\ row.type \in {"confirm", "reject"} /\ a \in Address
           /\ row \in Rows /\ a \in Rest("list") /\ a \in Full("list")
           /\ ShapeOK(store) /\ ShapeOK(store') /\ StoreOK(store) /\ Round' = a
           /\ state' = state /\ tip' = tip /\ row' = row /\ pc' = pc /\ torn' = torn
           /\ Rest("list")' = Rest("list") /\ Full("list")' = Full("list")
           /\ \A b \in Address : GetAddressInfo(b)' = GetAddressInfo(b)
           /\ store'.addr = store.addr /\ (Resumable' <=> Resumable)
           /\ \A b : b # a => /\ store'.list[b] = store.list[b] /\ store'.idx[b] = store.idx[b]
                              /\ ListView(b) = store.list[b] /\ ListView(b)' = store'.list[b]
           /\ BooksNow /\ (Resumable => BooksAgain) /\ LinksOK /\ MoveOK
<1>1. pc = "list" /\ row.type \in {"confirm", "reject"}
  <2>1. CASE SwitchFirstNode
    BY <2>1 DEF SwitchFirstNode, AtNode, In
  <2>2. CASE SwitchSecondNode \/ SwitchFirstIndex \/ SwitchSecondIndex
    <3>1. moving # NoMove
      BY <2>2 DEF SwitchSecondNode, SwitchFirstIndex, SwitchSecondIndex, NoMove
    <3> QED BY <3>1 DEF BookInv, MoveTyped
  <2> QED BY <2>1, <2>2 DEF SwitchTxNode
<1>2. /\ a \in todo /\ a \in Address /\ a \in Affected(row.tx) /\ row \in Rows /\ StoreOK(store)
      /\ pc \in Phases /\ pc # "aborted"
  BY <1>1, AtListRound
<1>3. /\ state' = state /\ tip' = tip /\ row' = row /\ pc' = pc /\ todo' = todo
      /\ cache' = cache /\ torn' = torn
  BY SwitchWrites
<1>4. a \in Rest("list") /\ a \in Full("list")
  BY <1>1, <1>2, FullList DEF Rest, Phases
<1>5. Rest("list")' = Rest("list") /\ Full("list")' = Full("list") /\ (Resumable' <=> Resumable)
  BY <1>3 DEF Rest, Full, Ahead, Resumable
<1>6. Round' = a
  BY <1>3 DEF Round
<1>7. /\ Others(store, store')
      /\ \A b : b # a => store'.list[b] = store.list[b] /\ store'.idx[b] = store.idx[b]
  BY <1>2, SwitchStores
<1>8. ShapeOK(store) /\ BooksNow /\ (Resumable => BooksAgain) /\ LinksOK /\ MoveOK
  BY <1>1, <1>2 DEF BookInv, Books
<1>9. ShapeOK(store')
  <2>1. DOMAIN store'.idx = Address /\ \A b \in Address : DOMAIN store'.idx[b] = Item
    <3>1. CASE \E n, u : NodeWritten(store, store', a, n, u)
      <4>1. store'.idx = store.idx
        BY <1>2, <3>1, NodeWrittenFacts DEF OnlyNode
      <4> QED BY <1>8, <4>1 DEF ShapeOK
    <3>2. CASE \E y, m : IndexWritten(store, store', a, y, m)
      <4>1. PICK y, m : IndexWritten(store, store', a, y, m)
        BY <3>2
      <4> PICK f, g : f = store.idx /\ g = store'.idx
        OBVIOUS
      <4>2. OnlyIndex(store, store', a, y, m)
        BY ONLY <4>1, <1>2, IndexWrittenFacts
      <4>3. g = [f EXCEPT ![a][y] = m]
        BY ONLY <4>2, f = store.idx, g = store'.idx DEF OnlyIndex
      <4>4. DOMAIN f = Address /\ \A b \in Address : DOMAIN f[b] = Item
        BY <1>8 DEF ShapeOK
      <4>5. DOMAIN g = Address /\ \A b \in Address : DOMAIN g[b] = Item
        BY ONLY <4>3, <4>4
      <4> QED BY <4>5
    <3> QED BY <3>1, <3>2, SwitchWrites
  <2> QED BY <1>7, <1>8, <2>1 DEF ShapeOK, Others
<1>10. store'.addr = store.addr /\ \A b \in Address : GetAddressInfo(b)' = GetAddressInfo(b)
  BY <1>3, <1>7, KeepInfo DEF Others
<1>11. \A b : b # a => ListView(b) = store.list[b] /\ ListView(b)' = store'.list[b]
  BY <1>6 DEF ListView
<1> QED BY <1>1, <1>2, <1>3, <1>4, <1>5, <1>6, <1>7, <1>8, <1>9, <1>10, <1>11

\* A write after which the same nodes are seen, or two unconfirmed ones exchanged.
LEMMA BookSwitch ==
    ASSUME CacheInv, BookInv, ~torn, SwitchTxNode, NEW a, a = Round,
           NEW C, C = ConfAt(state, row, a, Rest("list")),
           NEW V, V = ListView(a), NEW W, W = ListView(a)',
           \/ SameList(V, W)
           \/ \E n, m : Swapped(V, W, n, m) /\ V[n].tx \notin C /\ V[m].tx \notin C,
           moving' = NoMove => Settled(store'.list[a], store'.idx[a]),
           MoveOK'
    PROVE  Books'
<1>1. /\ a \in Address /\ a \in Rest("list") /\ a \in Full("list") /\ ShapeOK(store')
      /\ state' = state /\ tip' = tip /\ row' = row /\ Round' = a
      /\ Rest("list")' = Rest("list") /\ Full("list")' = Full("list")
      /\ \A b \in Address : GetAddressInfo(b)' = GetAddressInfo(b)
      /\ store'.addr = store.addr /\ (Resumable' <=> Resumable)
      /\ \A b : b # a => /\ store'.list[b] = store.list[b] /\ store'.idx[b] = store.idx[b]
                         /\ ListView(b) = store.list[b] /\ ListView(b)' = store'.list[b]
      /\ BooksNow /\ (Resumable => BooksAgain) /\ LinksOK
  BY SwitchKeeps
<1>2. ASSUME NEW i, NEW P, a \in P, BookBy(V, Where(V), state, tip, row, i, a, P)
      PROVE  BookBy(W, Where(W), state, tip, row, i, a, P)
  <2>1. C = ConfAt(state, row, a, P)
    BY <1>1, <1>2 DEF ConfAt
  <2>2. CASE SameList(V, W)
    BY <1>2, <2>2, BookSame
  <2>3. CASE \E n, m : Swapped(V, W, n, m) /\ V[n].tx \notin C /\ V[m].tx \notin C
    <3>1. PICK n, m : Swapped(V, W, n, m) /\ V[n].tx \notin C /\ V[m].tx \notin C
      BY <2>3
    <3> QED BY <1>2, <2>1, <3>1, BookSwap
  <2> QED BY <2>2, <2>3
<1>3. ASSUME NEW b \in Address, NEW i, NEW P, a \in P, Seen(b, i, P)
      PROVE  BookBy(ListView(b)', Where(ListView(b)'), state, tip, row, i, b, P)
  <2>1. CASE b = a
    BY <1>2, <1>3, <2>1 DEF Seen
  <2>2. CASE b # a
    <3>1. ListView(b)' = ListView(b)
      BY <1>1, <2>2
    <3> QED BY <1>3, <3>1 DEF Seen
  <2> QED BY <2>1, <2>2
<1>4. BooksNow'
  <2> SUFFICES ASSUME NEW b \in Address PROVE Seen(b, GetAddressInfo(b), Rest("list"))'
    BY DEF BooksNow
  <2>1. Seen(b, GetAddressInfo(b), Rest("list"))
    BY <1>1 DEF BooksNow
  <2>2. BookBy(ListView(b)', Where(ListView(b)'), state, tip, row, GetAddressInfo(b), b,
               Rest("list"))
    BY <1>1, <1>3, <2>1
  <2> QED BY <1>1, <2>2 DEF Seen
<1>5. ASSUME Resumable' PROVE BooksAgain'
  <2> SUFFICES ASSUME NEW b \in Address PROVE Seen(b, store.addr[b], Full("list"))'
    BY DEF BooksAgain
  <2>1. Seen(b, store.addr[b], Full("list"))
    BY <1>1, <1>5 DEF BooksAgain
  <2>2. BookBy(ListView(b)', Where(ListView(b)'), state, tip, row, store.addr[b], b,
               Full("list"))
    BY <1>1, <1>3, <2>1
  <2> QED BY <1>1, <2>2 DEF Seen
<1>6. LinksOK'
  <2> SUFFICES ASSUME NEW b \in Address, moving' = NoMove \/ b # a
               PROVE  Links(store'.list[b], store'.idx[b], state, row, b, Rest("list"))
    BY <1>1 DEF LinksOK
  <2>1. CASE b = a
    BY <2>1, LinksSettled
  <2>2. CASE b # a
    BY <1>1, <2>2 DEF LinksOK
  <2> QED BY <2>1, <2>2
<1> QED BY <1>1, <1>4, <1>5, <1>6 DEF Books

\* The first write: the node of the row is in both places, the other one is kept.
LEMMA BookFirstNode ==
    ASSUME CacheInv, LedgerInv, BookInv, ~torn, SwitchFirstNode
    PROVE  Books'
<1> PICK a : a = Round
  OBVIOUS
<1> PICK L, ix, C : L = store.list[a] /\ ix = store.idx[a] /\ C = ConfAt(state, row, a, Rest("list"))
  OBVIOUS
<1> PICK p, m : p = Place(a) /\ m = ix[row.tx]
  OBVIOUS
<1> PICK u, v : u = L[p] /\ v = L[m]
  OBVIOUS
<1> PICK K, W : K = store'.list[a] /\ W = ListView(a)'
  OBVIOUS
<1>1. SwitchTxNode /\ moving = NoMove
  BY DEF SwitchTxNode, SwitchFirstNode, AtNode
<1>2. /\ a \in Address /\ StoreOK(store) /\ Round' = a
      /\ state' = state /\ tip' = tip /\ row' = row /\ Rest("list")' = Rest("list")
  BY <1>1, SwitchKeeps
<1>3. moving' = [step |-> 1, place |-> p, from |-> m, first |-> u, second |-> v]
  BY DEF SwitchFirstNode
<1>4. K = [L EXCEPT ![p] = v] /\ store'.idx[a] = ix
  <2>1. NodeWritten(store, store', a, p, v)
    BY DEF SwitchFirstNode, Switching, NodeWritten
  <2>2. OnlyNode(store, store', a, p, v)
    BY ONLY <1>2, <2>1, NodeWrittenFacts
  <2>3. store'.list = [store.list EXCEPT ![a][p] = v] /\ store'.idx = store.idx
    BY ONLY <2>2 DEF OnlyNode
  <2>4. a \in DOMAIN store.list
    BY <1>2 DEF StoreOK
  <2> QED BY <2>3, <2>4
<1>5. /\ Near(L, ix, row.tx, p, m) /\ L[p].tx \notin C /\ L[m].tx \notin C
      /\ row.type = "confirm" => Front(L, C, p, m)
  BY MoveBegins
<1>6. p \in DOMAIN L /\ m \in DOMAIN L /\ p # m
  BY <1>5 DEF Near
<1>7. W = [K EXCEPT ![p] = u]
  BY <1>2, <1>3 DEF ListView
<1>8. SameList(L, W) /\ K[p] = v
  <2>1. /\ DOMAIN K = DOMAIN L /\ K[p] = v /\ \A i \in DOMAIN L : i # p => K[i] = L[i]
    BY ONLY <1>4, <1>6
  <2>2. /\ DOMAIN W = DOMAIN K /\ W[p] = u /\ \A i \in DOMAIN K : i # p => W[i] = K[i]
    BY ONLY <1>6, <1>7, <2>1
  <2> QED BY <2>1, <2>2 DEF SameList
<1>9. MoveOK'
  <2>1. /\ Near(W, ix, row.tx, p, m) /\ W[p].tx \notin C /\ W[m].tx \notin C
        /\ row.type = "confirm" => Front(W, C, p, m)
    BY <1>5, <1>6, <1>8, NearSame DEF SameList
  <2>2. W[p] = u /\ W[m] = v
    BY <1>6, <1>8 DEF SameList
  <2>3. MoveAt(W, K, ix, row, C, moving')
    BY <1>3, <1>8, <2>1, <2>2 DEF MoveAt
  <2> QED BY <1>2, <1>4, <2>3 DEF MoveOK
<1>10. L = ListView(a)
  BY <1>1, StillView
<1>11. moving' # NoMove
  BY <1>3 DEF NoMove
<1> QED BY <1>1, <1>8, <1>9, <1>10, <1>11, BookSwitch

\* The second write: the two nodes have changed places.
LEMMA BookSecondNode ==
    ASSUME CacheInv, LedgerInv, BookInv, ~torn, SwitchSecondNode
    PROVE  Books'
<1> PICK a : a = Round
  OBVIOUS
<1> PICK L, ix, C : L = store.list[a] /\ ix = store.idx[a] /\ C = ConfAt(state, row, a, Rest("list"))
  OBVIOUS
<1> PICK p, m : p = moving.place /\ m = moving.from
  OBVIOUS
<1> PICK u, v : u = moving.first /\ v = moving.second
  OBVIOUS
<1> PICK V, K : V = ListView(a) /\ K = store'.list[a]
  OBVIOUS
<1>1. SwitchTxNode /\ moving.step = 1 /\ moving # NoMove
  BY DEF SwitchTxNode, SwitchSecondNode, NoMove
<1>2. /\ a \in Address /\ StoreOK(store) /\ Round' = a
      /\ state' = state /\ tip' = tip /\ row' = row /\ Rest("list")' = Rest("list") /\ MoveOK
  BY <1>1, SwitchKeeps
<1>3. /\ moving'.step = 2 /\ moving'.place = p /\ moving'.from = m /\ moving'.first = u
      /\ moving'.second = v
  BY DEF SwitchSecondNode, BookInv, MoveTyped
<1>4. K = [L EXCEPT ![m] = u] /\ store'.idx[a] = ix
  <2>1. NodeWritten(store, store', a, m, u)
    BY DEF SwitchSecondNode, Switching, NodeWritten
  <2>2. OnlyNode(store, store', a, m, u)
    BY ONLY <1>2, <2>1, NodeWrittenFacts
  <2>3. store'.list = [store.list EXCEPT ![a][m] = u] /\ store'.idx = store.idx
    BY ONLY <2>2 DEF OnlyNode
  <2>4. a \in DOMAIN store.list
    BY <1>2 DEF StoreOK
  <2> QED BY <2>3, <2>4
<1>5. /\ Near(V, ix, row.tx, p, m) /\ V[p].tx \notin C /\ V[m].tx \notin C
      /\ row.type = "confirm" => Front(V, C, p, m)
      /\ V[p] = u /\ V[m] = v /\ L[p] = v
  BY <1>1, <1>2 DEF MoveOK, MoveAt
<1>6. V = [L EXCEPT ![p] = u] /\ ListView(a)' = K
  BY <1>1, <1>3 DEF ListView
<1>7. Swapped(V, K, p, m)
  <2>1. p \in DOMAIN V /\ m \in DOMAIN V /\ p # m
    BY <1>5 DEF Near
  <2>2. DOMAIN V = DOMAIN L /\ \A i \in DOMAIN L : i # p => V[i] = L[i]
    BY ONLY <1>6
  <2>3. /\ DOMAIN K = DOMAIN L /\ K[m] = u /\ \A i \in DOMAIN L : i # m => K[i] = L[i]
    BY ONLY <1>4, <2>1, <2>2
  <2> QED BY <1>5, <2>1, <2>2, <2>3 DEF Swapped
<1>8. MoveOK'
  <2>1. Near(K, ix, row.tx, p, m)
    BY <1>5, <1>7, NearSwapped
  <2>2. K[p] = v /\ K[m] = u
    BY <1>5, <1>7 DEF Swapped
  <2>3. K[p].tx \notin C /\ K[m].tx \notin C
    BY <1>5, <2>2
  <2>4. ASSUME row.type = "confirm" PROVE Front(K, C, p, m)
    <3>1. \A i \in DOMAIN K : i < p /\ i \notin {p, m} => K[i].tx \in C
      BY <1>5, <1>7, <2>4 DEF Front, Swapped
    <3>2. ~(p < p) /\ ~(m < p)
      <4>1. p \in Int /\ m \in Int
        BY <1>2, <1>4, <1>5, <1>6 DEF StoreOK, Near
      <4>2. ~(m < p)
        BY <1>5, <2>4 DEF Front, Near
      <4> QED BY <4>1, <4>2
    <3> QED BY <2>3, <3>1, <3>2 DEF Front
  <2>5. MoveAt(K, K, ix, row, C, moving')
    BY <1>3, <2>1, <2>2, <2>3, <2>4 DEF MoveAt
  <2> QED BY <1>2, <1>4, <1>6, <2>5 DEF MoveOK
<1>9. moving' # NoMove
  BY <1>3 DEF NoMove
<1> QED BY <1>1, <1>5, <1>6, <1>7, <1>8, <1>9, BookSwitch

\* What is seen of the list does not change while its index is written.
LEMMA IndexSeen ==
    ASSUME CacheInv, LedgerInv, BookInv, ~torn, SwitchFirstIndex \/ SwitchSecondIndex,
           NEW a, a = Round
    PROVE  /\ SwitchTxNode /\ ListView(a) = store.list[a] /\ ListView(a)' = store.list[a]
           /\ store'.list[a] = store.list[a] /\ SameList(store.list[a], store.list[a])
           /\ DOMAIN store.idx[a] = Item
           /\ \E T, M : NodesFree(store.list[a], T, M) /\ row.tx \in M
           /\ MoveAt(store.list[a], store.list[a], store.idx[a], row,
                     ConfAt(state, row, a, Rest("list")), moving)
<1>1. SwitchTxNode /\ moving.step \in {2, 3} /\ moving'.step \in {3, 0} /\ moving # NoMove
  <2>1. DOMAIN moving = {"step", "place", "from", "first", "second"}
    BY DEF BookInv, MoveTyped
  <2>2. CASE SwitchFirstIndex
    <3>1. moving.step = 2 /\ moving' = [moving EXCEPT !.step = 3]
      BY <2>2 DEF SwitchFirstIndex
    <3> QED BY <2>1, <2>2, <3>1 DEF SwitchTxNode, NoMove
  <2>3. CASE SwitchSecondIndex
    <3>1. moving.step = 3 /\ moving' = NoMove
      BY <2>3 DEF SwitchSecondIndex
    <3> QED BY <2>3, <3>1 DEF SwitchTxNode, NoMove
  <2> QED BY <2>2, <2>3
<1>2. /\ a \in Address /\ StoreOK(store) /\ Round' = a /\ ShapeOK(store) /\ BooksNow /\ MoveOK
      /\ pc = "list" /\ row.type \in {"confirm", "reject"} /\ a \in Rest("list")
  BY <1>1, SwitchKeeps
<1>3. store'.list = store.list
  <2>1. \E y, m : IndexWritten(store, store', a, y, m)
    BY DEF SwitchFirstIndex, SwitchSecondIndex, Switching, IndexWritten
  <2>2. PICK y, m : IndexWritten(store, store', a, y, m)
    BY <2>1
  <2>3. OnlyIndex(store, store', a, y, m)
    BY ONLY <1>2, <2>2, IndexWrittenFacts
  <2> QED BY <2>3 DEF OnlyIndex
<1>4. ListView(a) = store.list[a] /\ ListView(a)' = store.list[a]
  BY <1>1, <1>3 DEF ListView
<1>5. \E T, M : NodesFree(store.list[a], T, M) /\ row.tx \in M
  <2> PICK L, i, M : L = store.list[a] /\ i = GetAddressInfo(a) /\ M = MembersAt(state, row, a, Rest("list"))
    OBVIOUS
  <2>1. BookBy(L, Where(L), state, tip, row, i, a, Rest("list"))
    BY <1>2, <1>4 DEF BooksNow, Seen
  <2>2. NodesFree(L, i.txCount, M)
    BY <2>1, NodesOf DEF BookBy, BookAt, ListAt
  <2>3. row.tx \in M
    <3>1. a \in Affected(row.tx) /\ row \in Rows
      BY <1>2, AtListRound
    <3>2. LedgerTyped(state, tip) /\ RowOK(state, tip, row)
      BY DEF LedgerInv, LedgerOK
    <3> QED BY <1>2, <3>1, <3>2, BookAhead
  <2> QED BY <2>2, <2>3
<1>6. SameList(store.list[a], store.list[a])
  BY DEF SameList
<1>7. MoveAt(store.list[a], store.list[a], store.idx[a], row, ConfAt(state, row, a, Rest("list")), moving)
  BY <1>1, <1>2, <1>4 DEF MoveOK
<1> QED BY <1>1, <1>2, <1>3, <1>4, <1>5, <1>6, <1>7 DEF ShapeOK

\* The third write: the index of the displaced node.
LEMMA BookFirstIndex ==
    ASSUME CacheInv, LedgerInv, BookInv, ~torn, SwitchFirstIndex
    PROVE  Books'
<1> PICK a : a = Round
  OBVIOUS
<1> PICK L, ix, C : L = store.list[a] /\ ix = store.idx[a] /\ C = ConfAt(state, row, a, Rest("list"))
  OBVIOUS
<1> PICK p, m, u : p = moving.place /\ m = moving.from /\ u = moving.first
  OBVIOUS
<1> PICK y, jx : y = u.tx /\ jx = store'.idx[a]
  OBVIOUS
<1>1. /\ SwitchTxNode /\ ListView(a) = L /\ ListView(a)' = L
      /\ store'.list[a] = L /\ SameList(L, L)
      /\ DOMAIN ix = Item /\ MoveAt(L, L, ix, row, C, moving)
      /\ \E T, M : NodesFree(L, T, M) /\ row.tx \in M
  BY IndexSeen
<1>2. /\ a \in Address /\ StoreOK(store) /\ ShapeOK(store) /\ Round' = a
      /\ state' = state /\ tip' = tip /\ row' = row /\ Rest("list")' = Rest("list")
  BY <1>1, SwitchKeeps
<1>3. /\ moving.step = 2 /\ moving'.step = 3 /\ moving'.place = p /\ moving'.from = m
      /\ moving'.first = u /\ moving'.second = moving.second
  BY DEF SwitchFirstIndex, BookInv, MoveTyped
<1>4. jx = [ix EXCEPT ![y] = m]
  <2>1. IndexWritten(store, store', a, y, m)
    BY DEF SwitchFirstIndex, Switching, IndexWritten
  <2>2. OnlyIndex(store, store', a, y, m)
    BY ONLY <1>2, <2>1, IndexWrittenFacts
  <2>3. store'.idx = [store.idx EXCEPT ![a][y] = m]
    BY ONLY <2>2 DEF OnlyIndex
  <2>4. a \in DOMAIN store.idx
    BY <1>2 DEF ShapeOK
  <2> QED BY <2>3, <2>4
<1>5. PICK T, M : NodesFree(L, T, M) /\ row.tx \in M
  BY <1>1
<1>6. /\ Near(L, ix, row.tx, p, m) /\ L[p].tx \notin C /\ L[m].tx \notin C
      /\ row.type = "confirm" => Front(L, C, p, m)
      /\ L[m] = u /\ L[p] = moving.second
  BY <1>1, <1>3 DEF MoveAt
<1>7. Near(L, jx, row.tx, p, m) /\ jx[y] = m
  <2>1. y = L[m].tx
    BY <1>6
  <2>2. DOMAIN ix = Item /\ Near(L, ix, row.tx, p, m)
    BY <1>1, <1>6
  <2>3. IndexOf(jx, ix, y, m)
    BY <1>4 DEF IndexOf
  <2> QED BY ONLY <1>5, <2>1, <2>2, <2>3, NearIndexed
<1>8. MoveOK'
  <2>1. MoveAt(L, L, jx, row, C, moving')
    BY <1>3, <1>6, <1>7 DEF MoveAt
  <2> QED BY <1>1, <1>2, <2>1 DEF MoveOK
<1>9. moving' # NoMove
  BY <1>3 DEF NoMove
<1> QED BY <1>1, <1>8, <1>9, BookSwitch

\* The fourth write ends the exchange: the index is right again.
LEMMA BookSecondIndex ==
    ASSUME CacheInv, LedgerInv, BookInv, ~torn, SwitchSecondIndex
    PROVE  Books'
<1> PICK a : a = Round
  OBVIOUS
<1> PICK L, ix, C : L = store.list[a] /\ ix = store.idx[a] /\ C = ConfAt(state, row, a, Rest("list"))
  OBVIOUS
<1> PICK p, m, v : p = moving.place /\ m = moving.from /\ v = moving.second
  OBVIOUS
<1> PICK y, jx : y = v.tx /\ jx = store'.idx[a]
  OBVIOUS
<1>1. /\ SwitchTxNode /\ ListView(a) = L /\ ListView(a)' = L
      /\ store'.list[a] = L /\ SameList(L, L)
      /\ DOMAIN ix = Item /\ MoveAt(L, L, ix, row, C, moving)
      /\ \E T, M : NodesFree(L, T, M) /\ row.tx \in M
  BY IndexSeen
<1>2. a \in Address /\ StoreOK(store) /\ ShapeOK(store)
  BY <1>1, SwitchKeeps
<1>3. moving.step = 3 /\ moving' = NoMove
  BY DEF SwitchSecondIndex
<1>4. jx = [ix EXCEPT ![y] = p]
  <2>1. IndexWritten(store, store', a, y, p)
    BY DEF SwitchSecondIndex, Switching, IndexWritten
  <2>2. OnlyIndex(store, store', a, y, p)
    BY ONLY <1>2, <2>1, IndexWrittenFacts
  <2>3. store'.idx = [store.idx EXCEPT ![a][y] = p]
    BY ONLY <2>2 DEF OnlyIndex
  <2>4. a \in DOMAIN store.idx
    BY <1>2 DEF ShapeOK
  <2> QED BY <2>3, <2>4
<1>5. PICK T, M : NodesFree(L, T, M)
  BY <1>1
<1>6. /\ Near(L, ix, row.tx, p, m) /\ L[m] = moving.first /\ L[p] = v /\ ix[moving.first.tx] = m
  BY <1>1, <1>3 DEF MoveAt
<1>7. Settled(L, jx)
  <2>1. y = L[p].tx /\ ix[L[m].tx] = m
    BY <1>6
  <2> QED BY ONLY <1>1, <1>4, <1>5, <1>6, <2>1, NearSettled
<1>8. MoveOK'
  BY <1>3 DEF MoveOK
<1> QED BY <1>1, <1>7, <1>8, BookSwitch

-----------------------------------------------------------------------------
(* The other steps. *)

\* The initial load has no transaction, so every book is empty.
LEMMA BookInit ==
    ASSUME Init PROVE BookInv
<1>1. /\ store = InitStore /\ row = NoRow /\ pc = "idle" /\ cache = <<>> /\ moving = NoMove
      /\ state = [x \in Item |-> "absent"]
  BY DEF Init, Ledger!LedgerInit, Item
<1>2. ShapeOK(store)
  <2>1. /\ store.tx = [x \in Item |-> [height |-> -1, doubleSpend |-> FALSE]]
        /\ store.spentBy = [o \in Outpoint |-> NoTx]
        /\ store.idx = [a \in Address |-> [x \in Item |-> -1]]
    BY <1>1 DEF InitStore
  <2>2. DOMAIN store.unspentIdx = Address /\ \A a \in Address : DOMAIN store.unspentIdx[a] = Outpoint
    BY <1>1 DEF InitStore
  <2> QED BY <2>1, <2>2 DEF ShapeOK
<1>3. Rest("list") = {}
  BY <1>1 DEF Rest, Phases
<1>4. ASSUME NEW a \in Address
      PROVE  /\ BookBy(store.list[a], store.idx[a], state, tip, row, store.addr[a], a, {})
             /\ GetAddressInfo(a) = store.addr[a]
  <2>2. GetAddressInfo(a) = store.addr[a]
    BY <1>1 DEF GetAddressInfo
  <2>3. HistoryOf(state, a) = {} /\ ConfirmedOf(state, a) = {}
    BY <1>1 DEF HistoryOf, ConfirmedOf
  <2> PICK L, ix, i : L = store.list[a] /\ ix = store.idx[a] /\ i = store.addr[a]
    OBVIOUS
  <2>4. L = <<>> /\ ix = [x \in Item |-> -1]
    BY <1>1 DEF InitStore
  <2>5. /\ i.txCount = 0 /\ i.lastConfirmedTxIdx = -1 /\ i.unconfirmedTxCount = 0
        /\ i.received = 0 /\ i.sent = 0 /\ i.unconfirmedReceived = 0 /\ i.unconfirmedSent = 0
    BY <1>1 DEF InitStore, NewInfo
  <2>6. DOMAIN L = {}
    BY <2>4
  <2>7. 0..(0 - 1) = {}
    OBVIOUS
  <2>8. ListAt(L, ix, 0, -1, {}, {}, tip, {})
    <3>1. NodesOK(L, ix, 0, {})
      BY <2>4, <2>6, <2>7 DEF NodesOK
    <3>2. OrderOK(L, 0, -1, {}, tip) /\ HeightsOK(L, {}, tip, {})
      BY <2>6 DEF OrderOK, HeightsOK
    <3> QED BY <3>1, <3>2 DEF ListAt
  <2>9. {} \ {} = {} /\ Cardinality({}) = 0
    BY FS_EmptySet
  <2>10. TotalsAt(i, a, {}, {})
    BY <2>5, <2>9, SumEmpty DEF TotalsAt
  <2>11. BookAt(L, ix, i, a, HistoryOf(state, a), ConfirmedOf(state, a), tip, {})
    BY <2>3, <2>5, <2>8, <2>10 DEF BookAt
  <2>12. BookBy(L, ix, state, tip, row, i, a, {})
    BY <2>11, BookDone
  <2> QED BY <2>2, <2>12
<1>5. \A a : ListView(a) = store.list[a]
  BY <1>1, StillView
<1>6. BooksNow
  BY <1>3, <1>4, <1>5, BookSettled DEF BooksNow, Seen
<1>7. LinksOK
  BY <1>4, BookSettled, LinksSettled DEF LinksOK
<1>8. MoveOK /\ MoveTyped
  BY <1>1 DEF MoveOK, MoveTyped, NoMove
<1>9. pc \notin Phases
  BY <1>1 DEF Phases
<1> QED BY <1>2, <1>6, <1>7, <1>8, <1>9 DEF BookInv, Books

\* A row is taken.
LEMMA BookTakeStep ==
    ASSUME CacheInv, BookInv, CanTake, NEW type \in Types, NEW x \in Item, TakeRow(type, x),
           Takes(state, tip, state', tip', type, x)
    PROVE  Books'
<1> SUFFICES ASSUME ~torn' PROVE Books'
  BY DEF Books
<1>1. /\ pc = "idle" /\ row' = [type |-> type, tx |-> x] /\ row' \in Rows
      /\ store' = store /\ torn' = torn
      /\ Rest("list") = {} /\ Rest("list")' = Full("list")'
      /\ \A a \in Address : /\ GetAddressInfo(a) = store.addr[a]
                            /\ GetAddressInfo(a)' = store.addr[a]
  BY TakeFacts
<1>2. Full("list")' = Affected(x)
  <2>1. (row \in Rows => Full("list") = Affected(row.tx))'
    BY FullList, PTL
  <2> QED BY <1>1, <2>1
<1>3. ShapeOK(store) /\ BooksNow /\ LinksOK
  BY <1>1 DEF BookInv, Books
<1>4. moving = NoMove /\ moving' = moving
  BY <1>1 DEF BookInv, MoveTyped, TakeRow
<1>5. /\ \A a : ListView(a) = store.list[a] /\ ListView(a)' = store'.list[a]
      /\ MoveOK'
  BY <1>4, StillMoves
<1>6. ASSUME NEW a \in Address
      PROVE  BookBy(store.list[a], Where(store.list[a]), state', tip', row', store.addr[a], a, Affected(x))
  <2> PICK L, i : L = store.list[a] /\ i = store.addr[a]
    OBVIOUS
  <2>1. BookBy(L, Where(L), state, tip, row, i, a, {})
    BY <1>1, <1>3, <1>5 DEF BooksNow, Seen
  <2> QED BY <1>1, <2>1, BookTake
<1>7. BooksNow' /\ BooksAgain'
  BY <1>1, <1>2, <1>5, <1>6 DEF BooksNow, BooksAgain, Seen
<1>8. LinksOK'
  <2> SUFFICES ASSUME NEW a \in Address
               PROVE  Links(store.list[a], store.idx[a], state', row', a, Affected(x))
    BY <1>1, <1>2 DEF LinksOK
  <2>1. Links(store.list[a], store.idx[a], state, row, a, {})
    BY <1>1, <1>3, <1>4 DEF LinksOK
  <2>2. Settled(store.list[a], store.idx[a])
    BY <2>1, LinksSettled
  <2> QED BY <2>2, LinksSettled
<1> QED BY <1>1, <1>3, <1>5, <1>7, <1>8 DEF Books

\* The row is finished.
LEMMA BookSave ==
    ASSUME CacheInv, BookInv, SaveId
    PROVE  Books'
<1> SUFFICES ASSUME ~torn' PROVE Books'
  BY DEF Books
<1>1. /\ pc = "save" /\ row' = NoRow /\ store' = store /\ torn' = torn
      /\ state' = state /\ tip' = tip /\ pc' = "idle"
      /\ Rest("list") = {} /\ Rest("list")' = {}
      /\ \A a \in Address : GetAddressInfo(a)' = GetAddressInfo(a)
  BY SaveFacts
<1>2. ShapeOK(store) /\ BooksNow /\ LinksOK
  BY <1>1 DEF BookInv, Books
<1>3. moving = NoMove /\ moving' = moving
  BY <1>1 DEF BookInv, MoveTyped, SaveId
<1>4. /\ \A a : ListView(a) = store.list[a] /\ ListView(a)' = store'.list[a]
      /\ MoveOK'
  BY <1>3, StillMoves
<1>5. ASSUME NEW a \in Address
      PROVE  /\ Seen(a, GetAddressInfo(a), Rest("list"))'
             /\ Links(store.list[a], store.idx[a], state, NoRow, a, {})
  <2> PICK L, i : L = store.list[a] /\ i = GetAddressInfo(a)
    OBVIOUS
  <2>1. BookBy(L, Where(L), state, tip, row, i, a, {})
    BY <1>1, <1>2, <1>4 DEF BooksNow, Seen
  <2>2. BookBy(L, Where(L), state, tip, NoRow, i, a, {})
    BY <2>1, BookDone
  <2>3. Settled(store.list[a], store.idx[a])
    BY <1>1, <1>2, <1>3, LinksSettled DEF LinksOK
  <2> QED BY <1>1, <1>4, <2>2, <2>3, LinksSettled DEF Seen
<1>6. BooksNow' /\ LinksOK'
  BY <1>1, <1>5 DEF BooksNow, LinksOK
<1>7. pc' \notin Phases
  BY <1>1 DEF Phases
<1> QED BY <1>1, <1>2, <1>4, <1>6, <1>7 DEF Books

\* A crash: what would be seen is what is seen, and an exchange that it ends leaves
\* its nodes exchanged and an index that lags behind.
LEMMA BookCrash ==
    ASSUME CacheInv, BookInv, Crash
    PROVE  Books'
<1> SUFFICES ASSUME ~torn' PROVE Books'
  BY DEF Books
<1>1. /\ ~torn /\ row' = row /\ store' = store /\ state' = state /\ tip' = tip
      /\ pc' = "down" /\ pc # "aborted" /\ moving' = NoMove
      /\ Rest("list")' = Full("list")
      /\ \A a \in Address : GetAddressInfo(a)' = store.addr[a]
      /\ \/ /\ Rest("list") = Full("list")
            /\ \A a \in Address : GetAddressInfo(a) = store.addr[a]
         \/ pc \in Phases /\ Resumable
  BY CrashFacts
<1>2. ShapeOK(store) /\ BooksNow /\ (pc \in Phases /\ Resumable => BooksAgain) /\ LinksOK /\ MoveOK
  BY <1>1 DEF BookInv, Books
<1>3. moving # NoMove => pc = "list" /\ row.type = "confirm" /\ moving.step # 1
  <2>1. moving # NoMove => pc = "list" /\ row.type \in {"confirm", "reject"}
    BY DEF BookInv, MoveTyped
  <2> QED BY <2>1, CrashFacts
<1>4. \A a : ListView(a) = store.list[a]
  <2>1. CASE moving = NoMove
    BY <2>1, StillView
  <2>2. CASE moving # NoMove
    BY <1>3, <2>2 DEF ListView
  <2> QED BY <2>1, <2>2
<1>5. \A a : ListView(a)' = store.list[a]
  <2>1. (moving = NoMove => \A a : ListView(a) = store.list[a])'
    BY StillView, PTL
  <2> QED BY <1>1, <2>1
<1>6. BooksNow'
  <2>1. BooksAgain
    BY <1>1, <1>2 DEF BooksNow, BooksAgain
  <2> QED BY <1>1, <1>4, <1>5, <2>1 DEF BooksNow, BooksAgain, Seen
<1>7. ASSUME NEW a \in Address
      PROVE  Links(store.list[a], store.idx[a], state, row, a, Full("list"))
  <2> PICK L, ix : L = store.list[a] /\ ix = store.idx[a]
    OBVIOUS
  <2>1. Links(L, ix, state, row, a, Rest("list"))
    <3>1. CASE moving = NoMove \/ a # Round
      BY <1>2, <3>1 DEF LinksOK
    <3>2. CASE moving # NoMove /\ a = Round
      <4>1. a \in Rest("list")
        BY <1>3, <3>2, AtListRound DEF Rest, Phases
      <4> PICK C : C = ConfAt(state, row, a, Rest("list"))
        OBVIOUS
      <4>2. MoveAt(L, L, ix, row, C, moving)
        BY <1>2, <1>4, <3>2 DEF MoveOK
      <4>3. Near(L, ix, row.tx, moving.place, moving.from) /\ Front(L, C, moving.place, moving.from)
        BY <1>3, <3>2, <4>2 DEF MoveAt
      <4>4. Linked(L, ix, row.tx, C, TRUE)
        BY <4>3 DEF Linked
      <4> QED BY <1>3, <3>2, <4>1, <4>4 DEF Links
    <3> QED BY <3>1, <3>2
  <2>2. CASE a \in Rest("list")
    <3>1. a \in Full("list")
      BY <2>2, RestInFull DEF CacheInv
    <3> QED BY <2>1, <2>2, <3>1, LinksKeep
  <2>3. CASE a \notin Rest("list")
    BY <2>1, <2>3, LinksSettled
  <2> QED BY <2>2, <2>3
<1>8. LinksOK' /\ MoveOK'
  BY <1>1, <1>7 DEF LinksOK, MoveOK
<1>9. pc' \notin Phases
  BY <1>1 DEF Phases
<1> QED BY <1>1, <1>2, <1>6, <1>8, <1>9 DEF Books

\* The row comes again.
LEMMA BookRestart ==
    ASSUME CacheInv, BookInv, Restart
    PROVE  Books'
<1> SUFFICES ASSUME ~torn' PROVE Books'
  BY DEF Books
<1>1. /\ pc = "down" /\ row' = row /\ store' = store /\ torn' = torn
      /\ state' = state /\ tip' = tip
      /\ Rest("list")' = Full("list") /\ Rest("list") = Full("list")
      /\ Full("list")' = Full("list")
      /\ \A a \in Address : /\ GetAddressInfo(a)' = store.addr[a]
                            /\ GetAddressInfo(a) = store.addr[a]
  BY RestartFacts
<1>2. ShapeOK(store) /\ BooksNow /\ LinksOK
  BY <1>1 DEF BookInv, Books
<1>3. moving = NoMove /\ moving' = moving
  BY <1>1 DEF BookInv, MoveTyped, Restart
<1>4. /\ \A a : ListView(a) = store.list[a] /\ ListView(a)' = store'.list[a]
      /\ MoveOK'
  BY <1>3, StillMoves
<1>5. BooksNow' /\ BooksAgain'
  BY <1>1, <1>2, <1>4 DEF BooksNow, BooksAgain, Seen
<1>6. LinksOK'
  BY <1>1, <1>2, <1>3 DEF LinksOK
<1> QED BY <1>1, <1>2, <1>4, <1>5, <1>6 DEF Books

\* A handler that ends the process leaves the books.
LEMMA BookFail == ASSUME Fail PROVE Books'
BY DEF Fail, Books

\* Every step keeps the books.
LEMMA BookNext ==
    ASSUME StillWhole, CacheInv, LedgerInv, BookInv, [Next]_vars
    PROVE  BookInv'
<1>0. MoveTyped'
  BY NextMove DEF BookInv
<1>1. CASE UNCHANGED vars
  <2>1. Books
    BY DEF BookInv
  <2>2. Books'
    BY <1>1, <2>1 DEF vars, ledger, bounds, Books, BooksNow, BooksAgain, Seen, ListView, Round,
           LinksOK, MoveOK, GetAddressInfo, Rest, Full, Ahead, Resumable
  <2> QED BY <1>0, <2>2 DEF BookInv
<1>2. CASE Next
  <2> SUFFICES Books'
    BY <1>0 DEF BookInv
  <2>2. CASE Rounds
    <3>1. CASE torn
      <4>1. torn'
        BY <2>2, <3>1, RoundsDone DEF Done
      <4> QED BY <4>1 DEF Books
    <3>2. CASE ~torn
      <4>1. pc # "aborted"
        BY <2>2, RoundsDone DEF Phases
      <4>2. ShapeOK(store)
        BY <3>2, <4>1 DEF BookInv, Books
      <4>3. CASE AcceptOutput \/ AcceptInput \/ RejectInput \/ RejectOutput \/ KeyRound
                   \/ FlushAddressInfo
        BY <3>2, <4>2, <4>3, QuietRound, BookQuiet
      <4>4. CASE AcceptList
        BY <3>2, <4>4, BookAcceptList
      <4>5. CASE ConfirmList
        BY <3>2, <4>5, BookConfirmList
      <4>6. CASE UnconfirmList
        BY <3>2, <4>6, BookUnconfirmList
      <4>7. CASE RejectList
        BY <3>2, <4>7, BookRejectList
      <4> QED BY <2>2, <4>3, <4>4, <4>5, <4>6, <4>7 DEF Rounds, KeyRound
    <3> QED BY <3>1, <3>2
  <2>3. CASE SwitchTxNode
    <3>1. CASE torn
      BY <2>3, <3>1, SwitchWrites DEF Books
    <3>2. CASE ~torn
      BY <2>3, <3>2, BookFirstNode, BookSecondNode, BookFirstIndex, BookSecondIndex
         DEF SwitchTxNode
    <3> QED BY <3>1, <3>2
  <2>4. CASE UnspentMissing \/ ListFails
    BY <2>4, BookFail DEF UnspentMissing, ListFails
  <2>5. ASSUME CanTake, NEW type \in Types, NEW x \in Item, TakeRow(type, x),
               Takes(state, tip, state', tip', type, x)
        PROVE  Books'
    BY <2>5, BookTakeStep
  <2> QED BY <1>2, Steps, <2>2, <2>3, <2>4, <2>5, BookSave, BookCrash, BookRestart
<1> QED BY <1>1, <1>2

\* The names of the specification for the transactions of an address.
LEMMA BookNames ==
    ASSUME NEW a
    PROVE  /\ History(a) = HistoryOf(state, a)
           /\ Unconfirmed(a) = {x \in HistoryOf(state, a) : state[x] = "unconfirmed"}
BY DEF History, Unconfirmed, HistoryOf, Ledger!Present

\* Between two rows, the book of an address as the store has it.
LEMMA BookAtRest ==
    ASSUME CacheInv, BookInv, AtRest, NEW a \in Address
    PROVE  BookAt(store.list[a], store.idx[a], store.addr[a], a, HistoryOf(state, a),
                  ConfirmedOf(state, a), tip, {})
<1> PICK L, ix, i : L = store.list[a] /\ ix = store.idx[a] /\ i = store.addr[a]
  OBVIOUS
<1>1. pc = "idle" /\ ~torn
  BY DEF AtRest
<1>2. ShapeOK(store) /\ BooksNow /\ LinksOK /\ moving = NoMove
  BY <1>1 DEF BookInv, Books, MoveTyped
<1>3. Rest("list") = {}
  BY <1>1 DEF Rest, Phases
<1>4. GetAddressInfo(a) = i
  BY <1>1, IdleInfo
<1>5. BookBy(L, Where(L), state, tip, row, i, a, {})
  BY <1>2, <1>3, <1>4, StillView DEF BooksNow, Seen
<1>6. DOMAIN ix = Item /\ Settled(L, ix)
  BY <1>2, <1>3, LinksSettled DEF LinksOK, ShapeOK
<1>7. BookBy(L, ix, state, tip, row, i, a, {})
  BY <1>5, <1>6, BookReindex
<1> QED BY <1>7, BookDone

\* The lists follow from the books.
LEMMA ListsFollow ==
    ASSUME CacheInv, BookInv PROVE ListsExact
<1> SUFFICES ASSUME AtRest, NEW a \in Address
             PROVE  /\ DOMAIN store.list[a] = 0..(Cardinality(History(a)) - 1)
                    /\ \A x \in History(a) : \E n \in DOMAIN store.list[a] :
                          store.list[a][n].tx = x /\ store.idx[a][x] = n
  BY DEF ListsExact
<1> PICK L, ix, i, M : L = store.list[a] /\ ix = store.idx[a] /\ i = store.addr[a]
                       /\ M = HistoryOf(state, a)
  OBVIOUS
<1>1. BookAt(L, ix, i, a, M, ConfirmedOf(state, a), tip, {})
  BY BookAtRest
<1>2. NodesOK(L, ix, i.txCount, M) /\ Cardinality(M) = i.txCount
  BY <1>1, BookMembers
<1>3. DOMAIN L = 0..(Cardinality(M) - 1) /\ \A x \in M : ix[x] \in DOMAIN L /\ L[ix[x]].tx = x
  BY <1>2 DEF NodesOK
<1> QED BY <1>3, BookNames

-----------------------------------------------------------------------------
(* The 01_, 02_ and 03_ keys and the counter. *)

\* The phases that the programs have.
LEMMA PhasesOf ==
    ASSUME NEW r \in Rows
    PROVE  /\ PhaseOf(r, "object") /\ PhaseOf(r, "pool")
           /\ PhaseOf(r, "mempool") <=> r.type = "accept"
           /\ \A p \in {"spends", "outputs", "inputs"} :
                PhaseOf(r, p) <=> r.type \in {"accept", "reject"}
<1>1. r.type \in Types
  BY NoRowFacts
<1>2. CASE r.type = "accept"
  <2> PICK P : P = Program[r.type]
    OBVIOUS
  <2>1. P = <<"outputs", "object", "inputs", "spends", "list", "mempool", "flush", "pool", "save">>
    BY <1>2 DEF Program
  <2>2. /\ Len(P) = 9 /\ P[1] = "outputs" /\ P[2] = "object" /\ P[3] = "inputs"
        /\ P[4] = "spends" /\ P[6] = "mempool" /\ P[8] = "pool"
    BY <2>1
  <2> QED BY <1>2, <2>2 DEF PhaseOf
<1>3. CASE r.type = "reject"
  <2> PICK P : P = Program[r.type]
    OBVIOUS
  <2>1. P = <<"spends", "inputs", "outputs", "object", "list", "flush", "pool", "save">>
    BY <1>3 DEF Program
  <2>2. /\ Len(P) = 8 /\ P[1] = "spends" /\ P[2] = "inputs" /\ P[3] = "outputs"
        /\ P[4] = "object" /\ P[7] = "pool"
        /\ \A i \in 1..8 : P[i] # "mempool"
    BY <2>1
  <2>3. /\ PhaseOf(r, "object") /\ PhaseOf(r, "pool") /\ PhaseOf(r, "spends")
        /\ PhaseOf(r, "outputs") /\ PhaseOf(r, "inputs")
    BY <2>2 DEF PhaseOf
  <2>4. ~PhaseOf(r, "mempool")
    BY <2>2 DEF PhaseOf
  <2> QED BY <1>3, <2>3, <2>4
<1>4. CASE r.type \in {"confirm", "unconfirm"}
  <2> PICK P : P = Program[r.type]
    OBVIOUS
  <2>1. P = <<"list", "object", "flush", "pool", "save">>
    BY <1>4 DEF Program
  <2>2. /\ Len(P) = 5 /\ P[2] = "object" /\ P[4] = "pool"
        /\ \A i \in 1..5 : P[i] \notin {"mempool", "spends", "outputs", "inputs"}
    BY <2>1
  <2> QED BY <1>4, <2>2 DEF PhaseOf
<1> QED BY <1>1, <1>2, <1>3, <1>4 DEF Types

\* The rounds of these phases.
LEMMA FullFacts ==
    ASSUME row \in Rows
    PROVE  /\ Full("object") = {row.tx} /\ Full("pool") = {row.tx}
           /\ row.type = "accept" => Full("mempool") = {row.tx}
           /\ row.type \in {"accept", "reject"} =>
                /\ Full("spends") = {row.tx}
                /\ Full("outputs") = Entries(Outs(row.tx))
                /\ Full("inputs") = Entries(Ins(row.tx))
           /\ row.type \notin {"accept", "reject"} => Full("outputs") = {} /\ Full("inputs") = {}
<1>1. row # NoRow
  BY NoRowFacts
<1> QED BY <1>1, PhasesOf DEF Full, Work

\* The type of the row whose handler is in a phase.
LEMMA PhaseType ==
    ASSUME CacheInv, pc \in Phases
    PROVE  /\ row \in Rows /\ pc = "mempool" => row.type = "accept"
           /\ pc \in {"spends", "outputs", "inputs"} => row.type \in {"accept", "reject"}
<1>1. row \in Rows /\ PhaseOf(row, pc)
  BY AtPhase DEF InPhase
<1> QED BY <1>1, PhasesOf

\* What a row makes of the unspent outputs.
LEMMA UnspentMoves ==
    ASSUME NEW s, NEW b, NEW u, NEW d, NEW type \in Types, NEW x \in Item,
           Takes(s, b, u, d, type, x), NEW r, r = [type |-> type, tx |-> x]
    PROVE  /\ SpentOK(u, r)
           /\ type = "accept" => UnspentIn(u) = (UnspentIn(s) \cup Outs(x)) \ Ins(x)
           /\ type = "accept" => /\ \A o \in Ins(x) : o \in UnspentIn(s)
                                 /\ \A o \in Outs(x) : o \notin UnspentIn(s)
           /\ type = "reject" => UnspentIn(u) = (UnspentIn(s) \cup Ins(x)) \ Outs(x)
           /\ type = "reject" => /\ \A o \in Outs(x) : o \in UnspentIn(s)
                                 /\ \A o \in Ins(x) : o \notin UnspentIn(s)
           /\ type \in {"confirm", "unconfirm"} => UnspentIn(u) = UnspentIn(s)
<1>1. /\ LedgerOK(s, b) /\ Moves(s, u, x, StateAfter(type)) /\ s[x] = StateBefore(type)
      /\ r.type = type /\ r.tx = x
  BY DEF Takes
<1>2. u[x] = StateAfter(type) /\ \A y \in Item : y # x => u[y] = s[y]
  BY <1>1 DEF Moves
<1>3. NoConflicts(s) /\ ParentsPresent(s)
  BY <1>1 DEF LedgerOK
<1>4. \A o : o \in Created(s) <=> o \in OldOut \/ \E y \in Item : s[y] # "absent" /\ o \in Outs(y)
  BY DEF Created
<1>5. \A o : o \in Created(u) <=> o \in OldOut \/ \E y \in Item : u[y] # "absent" /\ o \in Outs(y)
  BY DEF Created
<1>6. \A o : o \in SpentIn(s) <=> \E y \in Item : s[y] # "absent" /\ o \in Ins(y)
  BY DEF SpentIn
<1>7. \A o : o \in SpentIn(u) <=> \E y \in Item : u[y] # "absent" /\ o \in Ins(y)
  BY DEF SpentIn
<1>8. \A y \in Item : Outs(y) \cap OldOut = {}
  BY OutputAssumption
<1>9. \A y, z \in Item : y # z => Outs(y) \cap Outs(z) = {}
  BY OutputAssumption
<1>10. ASSUME NEW y \in Item, NEW o \in Ins(y)
       PROVE  y \in Tx /\ o \in Vin[y] /\ (o \in OldOut \/ \E p \in Parents(y) : o \in Outs(p))
  <2>1. y \in Tx /\ o \in Vin[y]
    BY DEF Ins
  <2>2. o \in OldOut \/ \E p \in Tx : o \in Vout[p]
    BY <2>1, OutputAssumption
  <2>3. \A p \in Tx : o \in Vout[p] => p \in Parents(y) /\ o \in Outs(p)
    BY <2>1 DEF Parents, Outs
  <2> QED BY <2>1, <2>2, <2>3
<1>11. ASSUME NEW y \in Item, NEW z \in Item, NEW o, o \in Outs(y), o \in Ins(z)
       PROVE  y \in Parents(z) /\ y \in Tx /\ z \in Tx
  <2>1. PICK p \in Parents(z) : o \in Outs(p)
    BY <1>8, <1>10, <1>11
  <2>2. p \in Tx /\ p \in Item /\ z \in Tx
    BY <1>10, <1>11 DEF Parents, Item
  <2>3. p = y
    BY <1>9, <1>11, <2>1, <2>2
  <2> QED BY <2>1, <2>2, <2>3
<1>12. ASSUME type = "accept"
       PROVE  /\ \A o \in Ins(x) : o \in UnspentIn(s)
              /\ \A o \in Outs(x) : o \notin UnspentIn(s)
              /\ \A o \in Outs(x) : o \notin SpentIn(s) /\ o \notin Ins(x)
              /\ s[x] = "absent" /\ u[x] # "absent"
  <2>1. s[x] = "absent" /\ u[x] # "absent"
    BY <1>1, <1>2, <1>12 DEF StateBefore, StateAfter
  <2>2. x \in Tx => /\ \A v \in Conflicts(x) : s[v] = "absent"
                    /\ \A p \in Parents(x) : s[p] # "absent"
    BY <1>12 DEF Takes
  <2>3. ASSUME NEW o \in Ins(x) PROVE o \in Created(s) /\ o \notin SpentIn(s)
    <3>1. x \in Tx /\ o \in Vin[x] /\ (o \in OldOut \/ \E p \in Parents(x) : o \in Outs(p))
      BY <1>10
    <3>2. o \in Created(s)
      BY <1>4, <2>2, <3>1 DEF Parents, Item
    <3>3. ASSUME NEW y \in Item, s[y] # "absent", o \in Ins(y) PROVE FALSE
      <4>1. y \in Tx /\ o \in Vin[y] /\ y # x
        BY <1>10, <2>1, <3>3
      <4>2. y \in Conflicts(x)
        BY <3>1, <4>1 DEF Conflicts
      <4> QED BY <2>2, <3>1, <3>3, <4>2
    <3> QED BY <1>6, <3>2, <3>3
  <2>4. ASSUME NEW o \in Outs(x) PROVE o \notin Created(s) /\ o \notin SpentIn(s) /\ o \notin Ins(x)
    <3>1. o \notin Created(s)
      BY <1>4, <1>8, <1>9, <2>1
    <3>2. ASSUME NEW y \in Item, s[y] # "absent" \/ y = x, o \in Ins(y) PROVE FALSE
      <4>1. x \in Parents(y) /\ x \in Tx /\ y \in Tx
        BY <1>11, <3>2
      <4>2. s[x] # "absent"
        BY <1>3, <2>2, <3>2, <4>1 DEF ParentsPresent
      <4> QED BY <2>1, <4>2
    <3> QED BY <1>6, <3>1, <3>2
  <2> QED BY <2>1, <2>3, <2>4 DEF UnspentIn
<1>13. ASSUME type = "reject"
       PROVE  /\ \A o \in Outs(x) : o \in UnspentIn(s)
              /\ \A o \in Ins(x) : o \notin UnspentIn(s)
              /\ \A o \in Ins(x) : o \in Created(u) /\ o \notin SpentIn(u)
              /\ s[x] # "absent" /\ u[x] = "absent"
  <2>1. s[x] # "absent" /\ u[x] = "absent"
    BY <1>1, <1>2, <1>13 DEF StateBefore, StateAfter
  <2>2. x \in Tx => \A c \in Tx : x \in Parents(c) => s[c] = "absent"
    BY <1>13 DEF Takes
  <2>3. ASSUME NEW o \in Outs(x) PROVE o \in UnspentIn(s)
    <3>1. o \in Created(s)
      BY <1>4, <2>1
    <3>2. ASSUME NEW y \in Item, s[y] # "absent", o \in Ins(y) PROVE FALSE
      <4>1. x \in Parents(y) /\ x \in Tx /\ y \in Tx
        BY <1>11, <3>2
      <4> QED BY <2>2, <3>2, <4>1
    <3> QED BY <1>6, <3>1, <3>2 DEF UnspentIn
  <2>4. ASSUME NEW o \in Ins(x)
        PROVE  o \in SpentIn(s) /\ o \in Created(u) /\ o \notin SpentIn(u)
    <3>1. x \in Tx /\ o \in Vin[x] /\ (o \in OldOut \/ \E p \in Parents(x) : o \in Outs(p))
      BY <1>10
    <3>2. o \in SpentIn(s)
      BY <1>6, <2>1
    <3>3. \A p \in Parents(x) : p \in Item /\ s[p] # "absent" /\ p # x
      BY <1>3, <2>1, <2>2, <3>1 DEF ParentsPresent, Parents, Item
    <3>4. o \in Created(u)
      BY <1>2, <1>5, <3>1, <3>3
    <3>5. ASSUME NEW y \in Item, u[y] # "absent", o \in Ins(y) PROVE FALSE
      <4>1. y \in Tx /\ o \in Vin[y] /\ y # x /\ s[y] # "absent"
        BY <1>2, <1>10, <2>1, <3>5
      <4> QED BY <1>3, <2>1, <3>1, <4>1 DEF NoConflicts
    <3> QED BY <1>7, <3>2, <3>4, <3>5
  <2> QED BY <2>1, <2>3, <2>4 DEF UnspentIn
<1>14. ASSUME type = "accept" PROVE UnspentIn(u) = (UnspentIn(s) \cup Outs(x)) \ Ins(x)
  <2>1. \A o : o \in Created(u) <=> o \in Created(s) \/ o \in Outs(x)
    BY <1>2, <1>4, <1>5, <1>12, <1>14
  <2>2. \A o : o \in SpentIn(u) <=> o \in SpentIn(s) \/ o \in Ins(x)
    BY <1>2, <1>6, <1>7, <1>12, <1>14
  <2> QED BY <1>12, <1>14, <2>1, <2>2 DEF UnspentIn
<1>15. ASSUME type = "reject" PROVE UnspentIn(u) = (UnspentIn(s) \cup Ins(x)) \ Outs(x)
  <2>1. \A o : o \in Created(s) <=> o \in Created(u) \/ o \in Outs(x)
    BY <1>2, <1>4, <1>5, <1>13, <1>15
  <2>2. \A o : o \in SpentIn(s) <=> o \in SpentIn(u) \/ o \in Ins(x)
    BY <1>2, <1>6, <1>7, <1>13, <1>15
  <2>3. \A o \in Outs(x) : o \notin Created(u)
    BY <1>2, <1>5, <1>8, <1>9, <1>13, <1>15
  <2> QED BY <1>13, <1>15, <2>1, <2>2, <2>3 DEF UnspentIn
<1>16. ASSUME type \in {"confirm", "unconfirm"} PROVE UnspentIn(u) = UnspentIn(s)
  <2>1. \A y \in Item : u[y] # "absent" <=> s[y] # "absent"
    BY <1>1, <1>2, <1>16 DEF StateBefore, StateAfter
  <2>2. \A o : (o \in Created(u) <=> o \in Created(s)) /\ (o \in SpentIn(u) <=> o \in SpentIn(s))
    BY <1>4, <1>5, <1>6, <1>7, <2>1
  <2> QED BY <2>2 DEF UnspentIn
<1>17. SpentOK(u, r)
  <2>1. CASE type = "accept"
    BY <1>1, <1>12, <1>14, <2>1 DEF SpentOK
  <2>2. CASE type = "reject"
    BY <1>1, <1>13, <1>15, <2>2 DEF SpentOK, UnspentIn
  <2>3. CASE type \notin {"accept", "reject"}
    BY <1>1, <2>3 DEF SpentOK
  <2> QED BY <2>1, <2>2, <2>3
<1> QED BY <1>12, <1>13, <1>14, <1>15, <1>16, <1>17

\* It holds at the start.
LEMMA SpentInit ==
    ASSUME Init PROVE SpentInv
BY DEF Init, NoRow, SpentInv, SpentOK

\* Every step keeps it: the ledger fixes what a row may spend when it is taken.
LEMMA SpentNext ==
    ASSUME CacheInv, LedgerInv, SpentInv, [Next]_vars
    PROVE  SpentInv'
<1>1. CASE UNCHANGED vars
  BY <1>1 DEF vars, ledger, SpentInv
<1>2. CASE Next
  <2>1. \/ /\ CanTake
           /\ \E type \in Types, x \in Item :
                TakeRow(type, x) /\ Takes(state, tip, state', tip', type, x)
        \/ state' = state /\ (row' = row \/ row' = NoRow)
    BY <1>2, StepKinds DEF LedgerInv
  <2>2. ASSUME NEW type \in Types, NEW x \in Item, TakeRow(type, x),
               Takes(state, tip, state', tip', type, x)
        PROVE  SpentInv'
    <3>1. row' = [type |-> type, tx |-> x]
      BY <2>2 DEF TakeRow
    <3>2. SpentOK(state', row')
      BY <2>2, <3>1, UnspentMoves
    <3> QED BY <3>2 DEF SpentInv
  <2>3. SpentOK(state, NoRow)
    BY DEF SpentOK, NoRow
  <2>4. CASE state' = state /\ (row' = row \/ row' = NoRow)
    BY <2>3, <2>4 DEF SpentInv
  <2> QED BY <2>1, <2>2, <2>4
<1> QED BY <1>1, <1>2

\* The node that a round of the phase "list" works on is that of the row.
LEMMA ListNode ==
    ASSUME CacheInv, LedgerInv, BookInv, ~torn, ConfirmList \/ UnconfirmList \/ RejectList,
           NEW a, a = Round, NEW L, L = store.list[a], NEW n, n = store.idx[a][row.tx]
    PROVE  /\ pc = "list" /\ a \in todo /\ a \in Address /\ ShapeOK(store)
           /\ L[n].tx = row.tx
<1> PICK ix, old, x : ix = store.idx[a] /\ old = GetAddressInfo(a) /\ x = row.tx
  OBVIOUS
<1> PICK P : P = Rest("list")
  OBVIOUS
<1> PICK M, C, X : /\ M = MembersAt(state, row, a, P) /\ C = ConfAt(state, row, a, P)
                   /\ X = ExemptAt(row, a, P)
  OBVIOUS
<1>1. /\ pc = "list" /\ row.type \in {"confirm", "unconfirm", "reject"} /\ moving = NoMove
      /\ row.type = "confirm" => Settled(L, ix)
  <2>1. CASE ConfirmList
    BY <2>1, ConfirmAtPlace DEF ConfirmList, AtNode, In
  <2>2. CASE UnconfirmList
    BY <2>2 DEF UnconfirmList, In, BookInv, MoveTyped
  <2>3. CASE RejectList
    BY <2>3 DEF RejectList, AtNode, In
  <2> QED BY <2>1, <2>2, <2>3
<1>2. /\ a \in todo /\ a \in Address /\ a \in Affected(row.tx) /\ row \in Rows
      /\ LedgerTyped(state, tip) /\ RowOK(state, tip, row) /\ a \in P /\ ShapeOK(store)
      /\ BookBy(L, ix, state, tip, row, old, a, P)
  BY <1>1, AtBook, AtSettled
<1>3. x \in M
  <2>1. M = MembersAt(state, row, a, P) /\ C = ConfAt(state, row, a, P)
    OBVIOUS
  <2> QED BY ONLY <1>1, <1>2, <2>1, x = row.tx, BookAhead
<1>4. BookAt(L, ix, old, a, M, C, tip, X)
  BY <1>2 DEF BookBy
<1>5. n = ix[x] /\ x = row.tx
  OBVIOUS
<1>6. L[n].tx = x
  BY ONLY <1>3, <1>4, <1>5, BookNode
<1> QED BY <1>1, <1>2, <1>5, <1>6

\* A round of the phase "list" is a list effect.
LEMMA ListRound ==
    ASSUME CacheInv, LedgerInv, BookInv, ~torn, StillWhole,
           AcceptList \/ ConfirmList \/ UnconfirmList \/ RejectList
    PROVE  pc = "list" /\ Round \in todo /\ Round \in Address /\ \E info : ListEffect(Round, info)
<1> PICK a, x, old : a = Round /\ x = row.tx /\ old = GetAddressInfo(a)
  OBVIOUS
<1> PICK L, ix : L = store.list[a] /\ ix = store.idx[a]
  OBVIOUS
<1> PICK n : n = ix[x]
  OBVIOUS
<1>0. /\ a = Round /\ old = GetAddressInfo(a) /\ x = row.tx
      /\ L = store.list[a] /\ ix = store.idx[a] /\ n = ix[x]
  OBVIOUS
<1>1. CASE AcceptList
  <2>1. pc = "list"
    BY <1>1 DEF AcceptList, In
  <2>2. a \in todo /\ a \in Address /\ ShapeOK(store)
    <3>1. a \in todo /\ a \in Address
      BY <2>1, AtListRound
    <3> QED BY <2>1, <3>1 DEF BookInv, Books
  <2>3. \E info : ListEffect(a, info)
    BY <1>1, <2>2, AcceptListEffect
  <2> QED BY <2>1, <2>2, <2>3
<1>2. CASE ConfirmList \/ UnconfirmList \/ RejectList
  <2>1. pc = "list" /\ a \in todo /\ a \in Address /\ ShapeOK(store) /\ L[n].tx = x
    BY <1>2, ListNode
  <2>2. \E info : ListEffect(a, info)
    <3>1. CASE ConfirmList
      <4>1. ConfirmEffect(a, old, x, L, ix, n)
        BY ONLY <1>0, <2>1, <3>1, CacheInv, StillWhole, ConfirmListEffect
      <4> QED BY <4>1 DEF ConfirmEffect
    <3>2. CASE UnconfirmList
      <4>1. UnconfirmEffect(a, old, x, L, ix, n)
        BY ONLY <1>0, <2>1, <3>2, CacheInv, StillWhole, UnconfirmListEffect
      <4> QED BY <4>1 DEF UnconfirmEffect
    <3>3. CASE RejectList
      BY ONLY <1>0, <2>1, <3>3, CacheInv, StillWhole, RejectListEffect
    <3> QED BY <1>2, <3>1, <3>2, <3>3
  <2> QED BY <2>1, <2>2
<1> QED BY <1>1, <1>2

\* Every round is quiet or one of the lists.
LEMMA RoundKinds ==
    ASSUME CacheInv, LedgerInv, BookInv, ~torn, StillWhole, Rounds
    PROVE  /\ ShapeOK(store) /\ pc # "aborted" /\ pc \in Phases
           /\ \/ Quiet
              \/ pc = "list" /\ Round \in todo /\ Round \in Address /\ \E info : ListEffect(Round, info)
<1>1. pc \in Phases
  BY RoundsDone
<1>2. pc # "aborted"
  BY <1>1 DEF Phases
<1>3. ShapeOK(store)
  BY <1>2 DEF BookInv, Books
<1>4. CASE AcceptList \/ ConfirmList \/ UnconfirmList \/ RejectList
  BY <1>1, <1>2, <1>3, <1>4, ListRound
<1>5. CASE ~(AcceptList \/ ConfirmList \/ UnconfirmList \/ RejectList)
  <2>1. AcceptOutput \/ AcceptInput \/ RejectInput \/ RejectOutput \/ KeyRound \/ FlushAddressInfo
    BY <1>5 DEF Rounds, KeyRound
  <2> QED BY <1>1, <1>2, <1>3, <2>1, QuietRound
<1> QED BY <1>4, <1>5

\* The 01_ object of a row.
LEMMA ObjectEffect ==
    ASSUME CacheInv, ShapeOK(store), SetObject, NEW x, x = row.tx
    PROVE  /\ \A y \in Item : y # x => store'.tx[y] = store.tx[y]
           /\ row.type \in {"accept", "unconfirm"} => store'.tx[x].height = -1
           /\ row.type = "confirm" => store'.tx[x].height = Height[tip]
           /\ row.type = "accept" => store'.unconfirmed = store.unconfirmed
           /\ row.type = "unconfirm" => store'.unconfirmed = store.unconfirmed \cup {x}
           /\ row.type \in {"confirm", "reject"} => store'.unconfirmed = store.unconfirmed \ {x}
<1>1. x \in Item /\ row.type \in Types /\ StoreOK(store)
  BY SingleRound DEF SetObject
<1>2. DOMAIN store.tx = Item /\ DOMAIN store.tx[x] = {"height", "doubleSpend"}
  BY <1>1 DEF ShapeOK
<1>3. CASE row.type = "accept"
  <2>1. store' = [store EXCEPT !.tx[x] = [height |-> -1, doubleSpend |-> FALSE]]
    BY <1>3 DEF SetObject
  <2>2. /\ store'.tx = [store.tx EXCEPT ![x] = [height |-> -1, doubleSpend |-> FALSE]]
        /\ store'.unconfirmed = store.unconfirmed
    BY <1>1, <2>1 DEF StoreOK
  <2> QED BY <1>1, <1>2, <1>3, <2>2
<1>4. CASE row.type = "confirm"
  <2>1. store' = [store EXCEPT !.tx[x].height = Height[tip], !.unconfirmed = @ \ {x}]
    BY <1>4 DEF SetObject
  <2>2. /\ store'.tx = [store.tx EXCEPT ![x].height = Height[tip]]
        /\ store'.unconfirmed = store.unconfirmed \ {x}
    BY <1>1, <2>1 DEF StoreOK
  <2> QED BY <1>1, <1>2, <1>4, <2>2
<1>5. CASE row.type = "unconfirm"
  <2>1. store' = [store EXCEPT !.tx[x].height = -1, !.unconfirmed = @ \cup {x}]
    BY <1>5 DEF SetObject
  <2>2. /\ store'.tx = [store.tx EXCEPT ![x].height = -1]
        /\ store'.unconfirmed = store.unconfirmed \cup {x}
    BY <1>1, <2>1 DEF StoreOK
  <2> QED BY <1>1, <1>2, <1>5, <2>2
<1>6. CASE row.type = "reject"
  <2>1. store' = [store EXCEPT !.tx[x].doubleSpend = TRUE, !.unconfirmed = @ \ {x}]
    BY <1>6 DEF SetObject
  <2>2. /\ store'.tx = [store.tx EXCEPT ![x].doubleSpend = TRUE]
        /\ store'.unconfirmed = store.unconfirmed \ {x}
    BY <1>1, <2>1 DEF StoreOK
  <2> QED BY <1>1, <1>2, <1>6, <2>2
<1> QED BY <1>1, <1>3, <1>4, <1>5, <1>6 DEF Types

\* What a round of the phases of the 01_, 02_ and 03_ keys finds.
LEMMA AtKeys ==
    ASSUME CacheInv, LedgerInv, KeysInv, ~torn, KeyRound, NEW x, x = row.tx
    PROVE  /\ pc \in Phases /\ pc # "save" /\ pc # "aborted" /\ row \in Rows /\ x \in Item
           /\ row.type \in Types /\ todo = {x} /\ x \in todo /\ Done(x) /\ count = store.pool
           /\ RowOK(state, tip, row) /\ LedgerOK(state, tip) /\ state[x] = StateAfter(row.type)
           /\ TxKeys(store, state, tip, row, Rest("object"))
           /\ PoolKeys(store, state, row, Rest(PoolPhase(row)))
           /\ PoolCount(store, state, row, Rest("pool"))
           /\ SpendKeys(store, state, row, Rest("spends"))
           /\ row' = row /\ torn' = torn /\ state' = state /\ tip' = tip
           /\ \A p : Rest(p)' = IF p = pc THEN {} ELSE Rest(p)
           /\ Rest(pc) = {x}
<1>1. pc \in {"spends", "object", "mempool", "pool"} /\ Done(x)
  BY DEF KeyRound, SetSpends, SetObject, SetUnconfirmed, CountUnconfirmed, In
<1>2. /\ pc \in Phases /\ pc # "save" /\ x \in todo /\ todo = {x} /\ x \in Item
      /\ row.type \in Types /\ count = store.pool
  BY <1>1, SingleRound
<1>3. /\ row \in Rows /\ row' = row /\ torn' = torn /\ state' = state /\ tip' = tip
      /\ \A p : Rest(p)' = IF p = pc THEN Rest(p) \ {x} ELSE Rest(p)
      /\ Rest(pc) = todo
  BY <1>1, <1>2, RoundDone
<1>4. \A p : Rest(p)' = IF p = pc THEN {} ELSE Rest(p)
  BY <1>2, <1>3
<1>5. pc # "aborted"
  BY <1>1
<1>6. RowOK(state, tip, row) /\ LedgerOK(state, tip)
  BY DEF LedgerInv
<1>7. state[x] = StateAfter(row.type)
  BY <1>3, <1>6, NoRowFacts DEF RowOK
<1> QED BY <1>1, <1>2, <1>3, <1>4, <1>5, <1>6, <1>7 DEF KeysInv

\* The phase "spends".
LEMMA KeysSpends ==
    ASSUME CacheInv, LedgerInv, BookInv, SpentInv, KeysInv, ~torn, SetSpends
    PROVE  KeysInv'
<1> PICK x : x = row.tx
  OBVIOUS
<1>1. KeyRound /\ pc = "spends" /\ row.type \in {"accept", "reject"}
  BY DEF KeyRound, SetSpends, In
<1>2. /\ row \in Rows /\ x \in Item /\ StateAfter(row.type) = state[x] /\ pc # "aborted"
      /\ NoConflicts(state)
      /\ TxKeys(store, state, tip, row, Rest("object"))
      /\ PoolKeys(store, state, row, Rest(PoolPhase(row)))
      /\ PoolCount(store, state, row, Rest("pool"))
      /\ SpendKeys(store, state, row, Rest("spends"))
      /\ row' = row /\ torn' = torn /\ state' = state /\ tip' = tip
      /\ Rest("object")' = Rest("object") /\ Rest("pool")' = Rest("pool")
      /\ Rest("spends")' = {} /\ Rest(PoolPhase(row))' = Rest(PoolPhase(row))
  BY <1>1, AtKeys DEF LedgerOK, PoolPhase
<1>3. ShapeOK(store) /\ StoreOK(store)
  BY <1>2 DEF BookInv, Books, CacheInv
<1>4. store'.pool = store.pool /\ store'.tx = store.tx /\ store'.unconfirmed = store.unconfirmed
  BY <1>1, <1>3, KeyRoundEffect
<1>5. \A o \in Outpoint : store'.spentBy[o] = IF o \notin Ins(x) THEN store.spentBy[o]
                                              ELSE IF row.type = "accept" THEN x ELSE NoTx
  <2>1. store' = [store EXCEPT !.spentBy = [o \in Outpoint |->
                     IF o \notin Ins(x) THEN @[o] ELSE IF row.type = "accept" THEN x ELSE NoTx]]
    BY DEF SetSpends
  <2>2. store'.spentBy = [o \in Outpoint |-> IF o \notin Ins(x) THEN store.spentBy[o]
                                             ELSE IF row.type = "accept" THEN x ELSE NoTx]
    BY <1>3, <2>1 DEF StoreOK
  <2> QED BY <2>2
<1>6. SpendKeys(store', state, row, {})
  <2> SUFFICES ASSUME NEW o \in Outpoint, NEW y \in Tx
               PROVE  store'.spentBy[o] = y <=> (state[y] # "absent" /\ o \in Vin[y])
    BY DEF SpendKeys
  <2>1. CASE o \notin Ins(x)
    BY <1>2, <1>5, <2>1 DEF SpendKeys
  <2>2. CASE o \in Ins(x) /\ row.type = "accept"
    <3>1. x \in Tx /\ o \in Vin[x] /\ state[x] # "absent"
      BY <1>2, <2>2 DEF Ins, StateAfter
    <3>2. store'.spentBy[o] = x
      BY <1>5, <2>2
    <3> QED BY <1>2, <3>1, <3>2 DEF NoConflicts
  <2>3. CASE o \in Ins(x) /\ row.type = "reject"
    <3>1. o \in UnspentIn(state)
      BY <2>3 DEF SpentInv, SpentOK
    <3>2. ~(state[y] # "absent" /\ o \in Vin[y])
      BY <3>1 DEF UnspentIn, SpentIn, Ins, Item
    <3>3. store'.spentBy[o] = NoTx /\ NoTx # y
      BY <1>5, <2>3, TxGraphAssumption
    <3> QED BY <3>2, <3>3
  <2> QED BY <1>1, <2>1, <2>2, <2>3
<1>7. /\ TxKeys(store', state, tip, row, Rest("object"))
      /\ PoolKeys(store', state, row, Rest(PoolPhase(row)))
      /\ PoolCount(store', state, row, Rest("pool"))
  BY <1>2, <1>4 DEF TxKeys, PoolKeys, PoolCount
<1> QED BY <1>2, <1>6, <1>7 DEF KeysInv

\* The phase "object".
LEMMA KeysObject ==
    ASSUME CacheInv, LedgerInv, BookInv, KeysInv, ~torn, SetObject
    PROVE  KeysInv'
<1> PICK x : x = row.tx
  OBVIOUS
<1>1. KeyRound /\ pc = "object"
  BY DEF KeyRound, SetObject
<1>2. /\ row \in Rows /\ x \in Item /\ row.type \in Types /\ state[x] = StateAfter(row.type)
      /\ pc # "aborted" /\ RowOK(state, tip, row)
      /\ TxKeys(store, state, tip, row, Rest("object"))
      /\ PoolKeys(store, state, row, Rest(PoolPhase(row)))
      /\ PoolCount(store, state, row, Rest("pool"))
      /\ SpendKeys(store, state, row, Rest("spends"))
      /\ row' = row /\ torn' = torn /\ state' = state /\ tip' = tip
      /\ Rest("object")' = {} /\ Rest("pool")' = Rest("pool")
      /\ Rest("spends")' = Rest("spends") /\ Rest("object") = {x}
      /\ Rest("mempool")' = Rest("mempool")
  BY <1>1, AtKeys
<1>3. ShapeOK(store)
  BY <1>2 DEF BookInv, Books
<1>4. store'.pool = store.pool /\ store'.spentBy = store.spentBy
  BY <1>1, <1>3, KeyRoundEffect
<1>5. /\ \A y \in Item : y # x => store'.tx[y] = store.tx[y]
      /\ row.type \in {"accept", "unconfirm"} => store'.tx[x].height = -1
      /\ row.type = "confirm" => store'.tx[x].height = Height[tip]
      /\ row.type = "accept" => store'.unconfirmed = store.unconfirmed
      /\ row.type = "unconfirm" => store'.unconfirmed = store.unconfirmed \cup {x}
      /\ row.type \in {"confirm", "reject"} => store'.unconfirmed = store.unconfirmed \ {x}
  BY <1>3, ObjectEffect
<1>6. TxKeys(store', state, tip, row, {})
  <2> SUFFICES ASSUME NEW y \in Item, state[y] # "absent"
               PROVE  store'.tx[y].height = IF state[y] = "confirmed" THEN Pos(tip, y)[1] ELSE -1
    BY DEF TxKeys
  <2>1. CASE y # x
    BY <1>2, <1>5, <2>1 DEF TxKeys
  <2>2. CASE y = x /\ row.type \in {"accept", "unconfirm"}
    BY <1>2, <1>5, <2>2 DEF StateAfter
  <2>3. CASE y = x /\ row.type = "confirm"
    <3>1. Pos(tip, x)[1] = Height[tip] /\ state[x] = "confirmed"
      BY <1>2, <2>3, NoRowFacts DEF RowOK, StateAfter
    <3> QED BY <1>5, <2>3, <3>1
  <2>4. CASE y = x /\ row.type = "reject"
    BY <1>2, <2>4 DEF StateAfter
  <2> QED BY <1>2, <2>1, <2>2, <2>3, <2>4 DEF Types
<1>7. PoolKeys(store', state, row, Rest(PoolPhase(row))')
  <2>1. CASE row.type = "accept"
    <3>1. PoolPhase(row) = "mempool" /\ PoolPhase(row)' = "mempool"
      BY <1>2, <2>1 DEF PoolPhase
    <3>2. Rest(PoolPhase(row))' = Rest("mempool") /\ Rest(PoolPhase(row)) = Rest("mempool")
      BY <1>2, <3>1
    <3> QED BY <1>2, <1>5, <2>1, <3>2 DEF PoolKeys
  <2>2. CASE row.type # "accept"
    <3>1. PoolPhase(row) = "object" /\ PoolPhase(row)' = "object"
      BY <1>2, <2>2 DEF PoolPhase
    <3>2. Rest(PoolPhase(row))' = {} /\ Rest(PoolPhase(row)) = {x}
      BY <1>2, <3>1
    <3>3. PoolKeys(store, state, row, {x})
      BY <1>2, <3>2
    <3>4. CASE row.type = "unconfirm"
      BY <1>2, <1>5, <3>3, <3>4 DEF PoolKeys, StateAfter
    <3>5. CASE row.type \in {"confirm", "reject"}
      BY <1>2, <1>5, <3>3, <3>5 DEF PoolKeys, StateAfter
    <3>6. PoolKeys(store', state, row, {})
      BY <1>2, <2>2, <3>4, <3>5, <3>2 DEF Types
    <3> QED BY <3>2, <3>6
  <2> QED BY <2>1, <2>2
<1>8. PoolCount(store', state, row, Rest("pool")) /\ SpendKeys(store', state, row, Rest("spends"))
  BY <1>2, <1>4 DEF PoolCount, SpendKeys
<1> QED BY <1>2, <1>6, <1>7, <1>8 DEF KeysInv

\* The phase "mempool".
LEMMA KeysMempool ==
    ASSUME CacheInv, LedgerInv, BookInv, KeysInv, ~torn, SetUnconfirmed
    PROVE  KeysInv'
<1> PICK x : x = row.tx
  OBVIOUS
<1>1. KeyRound /\ pc = "mempool"
  BY DEF KeyRound, SetUnconfirmed
<1>2. /\ row \in Rows /\ x \in Item /\ state[x] = StateAfter(row.type)
      /\ pc # "aborted" /\ pc \in Phases
      /\ TxKeys(store, state, tip, row, Rest("object"))
      /\ PoolKeys(store, state, row, Rest(PoolPhase(row)))
      /\ PoolCount(store, state, row, Rest("pool"))
      /\ SpendKeys(store, state, row, Rest("spends"))
      /\ row' = row /\ torn' = torn /\ state' = state /\ tip' = tip
      /\ Rest("object")' = Rest("object") /\ Rest("pool")' = Rest("pool")
      /\ Rest("spends")' = Rest("spends") /\ Rest("mempool") = {x}
      /\ Rest("mempool")' = {}
  BY <1>1, AtKeys
<1>3. ShapeOK(store) /\ StoreOK(store)
  BY <1>2 DEF BookInv, Books, CacheInv
<1>4. store'.pool = store.pool /\ store'.tx = store.tx /\ store'.spentBy = store.spentBy
  BY <1>1, <1>3, KeyRoundEffect
<1>5. store'.unconfirmed = store.unconfirmed \cup {x}
  BY <1>3 DEF SetUnconfirmed, StoreOK
<1>6. row.type = "accept"
  BY <1>1, <1>2, PhaseType
<1>7. PoolPhase(row) = "mempool" /\ PoolPhase(row)' = "mempool"
  BY <1>2, <1>6 DEF PoolPhase
<1>8. Rest(PoolPhase(row))' = {} /\ Rest(PoolPhase(row)) = {x}
  BY <1>2, <1>7
<1>9. PoolKeys(store, state, row, {x})
  BY <1>2, <1>8
<1>10. PoolKeys(store', state, row, {})
  BY <1>2, <1>5, <1>6, <1>9 DEF PoolKeys, StateAfter
<1>11. /\ TxKeys(store', state, tip, row, Rest("object"))
       /\ PoolCount(store', state, row, Rest("pool"))
       /\ SpendKeys(store', state, row, Rest("spends"))
  BY <1>2, <1>4 DEF TxKeys, PoolCount, SpendKeys
<1> QED BY <1>2, <1>8, <1>10, <1>11 DEF KeysInv

\* The phase "pool".
LEMMA KeysPool ==
    ASSUME CacheInv, LedgerInv, BookInv, KeysInv, ~torn, CountUnconfirmed
    PROVE  KeysInv'
<1> PICK x : x = row.tx
  OBVIOUS
<1>1. KeyRound /\ pc = "pool"
  BY DEF KeyRound, CountUnconfirmed
<1>2. /\ row \in Rows /\ x \in Item /\ LedgerOK(state, tip) /\ row.type \in Types
      /\ pc # "aborted" /\ pc \in Phases /\ count = store.pool
      /\ TxKeys(store, state, tip, row, Rest("object"))
      /\ PoolKeys(store, state, row, Rest(PoolPhase(row)))
      /\ PoolCount(store, state, row, Rest("pool"))
      /\ SpendKeys(store, state, row, Rest("spends"))
      /\ row' = row /\ torn' = torn /\ state' = state /\ tip' = tip
      /\ Rest("object")' = Rest("object") /\ Rest("pool")' = {} /\ Rest("pool") = {x}
      /\ Rest("spends")' = Rest("spends") /\ Rest("mempool")' = Rest("mempool")
  BY <1>1, AtKeys
<1>3. ShapeOK(store) /\ StoreOK(store)
  BY <1>2 DEF BookInv, Books, CacheInv
<1>4. /\ store'.unconfirmed = store.unconfirmed /\ store'.tx = store.tx
      /\ store'.spentBy = store.spentBy
  BY <1>1, <1>3, KeyRoundEffect
<1>5. store'.pool = IF row.type \in {"accept", "unconfirm"} THEN store.pool + 1 ELSE store.pool - 1
  <2>1. /\ count' = IF row.type \in {"accept", "unconfirm"} THEN count + 1 ELSE count - 1
        /\ store' = [store EXCEPT !.pool = count']
    BY DEF CountUnconfirmed
  <2> QED BY <1>2, <1>3, <2>1 DEF StoreOK
<1>6. Cardinality(UnconfirmedIn(state)) \in Nat
  <2>1. IsFiniteSet(PresentIn(state))
    BY <1>2 DEF LedgerOK, LedgerTyped
  <2>2. UnconfirmedIn(state) \subseteq PresentIn(state)
    BY DEF UnconfirmedIn, PresentIn
  <2> QED BY <2>1, <2>2, FS_Subset, FS_CardinalityType
<1>7. PoolCount(store', state, row, {})
  <2> PICK n : n = Cardinality(UnconfirmedIn(state))
    OBVIOUS
  <2>1. store.pool = n - (IF row.type \in {"accept", "unconfirm"} THEN 1 ELSE -1)
    BY <1>2 DEF PoolCount
  <2>2. store'.pool = n
    BY <1>5, <1>6, <2>1
  <2>3. n - 0 = n
    BY <1>6
  <2> QED BY <2>2, <2>3 DEF PoolCount
<1>8. PoolKeys(store', state, row, Rest(PoolPhase(row))')
  <2>1. PoolPhase(row)' = PoolPhase(row)
    BY <1>2 DEF PoolPhase
  <2>2. Rest(PoolPhase(row))' = Rest(PoolPhase(row))
    BY <1>2, <2>1 DEF PoolPhase
  <2> QED BY <1>2, <1>4, <2>2 DEF PoolKeys
<1>9. TxKeys(store', state, tip, row, Rest("object")) /\ SpendKeys(store', state, row, Rest("spends"))
  BY <1>2, <1>4 DEF TxKeys, SpendKeys
<1> QED BY <1>2, <1>7, <1>8, <1>9 DEF KeysInv

\* The other phases.
LEMMA KeysOther ==
    ASSUME CacheInv, KeysInv, ~torn, KeptKeys(store, store'), pc \in {"outputs", "inputs", "flush", "list"},
           NEW e \in todo, Done(e)
    PROVE  KeysInv'
<1>1. pc \in Phases /\ pc # "save" /\ pc # "aborted"
  BY DEF Phases
<1>2. /\ row' = row /\ state' = state /\ tip' = tip /\ torn' = torn
      /\ \A p : Rest(p)' = IF p = pc THEN Rest(p) \ {e} ELSE Rest(p)
  BY <1>1, RoundDone
<1>3. /\ TxKeys(store, state, tip, row, Rest("object"))
      /\ PoolKeys(store, state, row, Rest(PoolPhase(row)))
      /\ PoolCount(store, state, row, Rest("pool"))
      /\ SpendKeys(store, state, row, Rest("spends"))
  BY <1>1 DEF KeysInv
<1>4. /\ Rest("object")' = Rest("object") /\ Rest("pool")' = Rest("pool")
      /\ Rest("spends")' = Rest("spends") /\ Rest("mempool")' = Rest("mempool")
  BY <1>2
<1>5. Rest(PoolPhase(row))' = Rest(PoolPhase(row))
  <2>1. PoolPhase(row)' = PoolPhase(row)
    BY <1>2 DEF PoolPhase
  <2> QED BY <1>4, <2>1 DEF PoolPhase
<1>6. /\ TxKeys(store', state, tip, row, Rest("object"))
      /\ PoolKeys(store', state, row, Rest(PoolPhase(row)))
      /\ PoolCount(store', state, row, Rest("pool"))
      /\ SpendKeys(store', state, row, Rest("spends"))
  BY <1>3 DEF TxKeys, PoolKeys, PoolCount, SpendKeys, KeptKeys
<1> QED BY <1>2, <1>4, <1>5, <1>6 DEF KeysInv

\* A write of an exchange of two list nodes.
LEMMA KeysSwitch ==
    ASSUME CacheInv, KeysInv, SwitchTxNode
    PROVE  KeysInv'
<1>1. /\ state' = state /\ tip' = tip /\ row' = row /\ pc' = pc /\ todo' = todo /\ torn' = torn
  BY SwitchWrites
<1>2. Others(store, store')
  BY SwitchStores DEF CacheInv
<1>3. \A p : Rest(p)' = Rest(p)
  BY <1>1 DEF Rest, Full, Ahead
<1>4. PoolPhase(row)' = PoolPhase(row)
  BY <1>1 DEF PoolPhase
<1>5. Rest(PoolPhase(row))' = Rest(PoolPhase(row))
  BY <1>3, <1>4 DEF PoolPhase
<1>6. /\ Rest("object")' = Rest("object") /\ Rest("pool")' = Rest("pool")
      /\ Rest("spends")' = Rest("spends")
  BY <1>3
<1> SUFFICES ASSUME ~torn, pc # "aborted" PROVE KeysInv'
  BY <1>1 DEF KeysInv
<1>7. /\ TxKeys(store', state, tip, row, Rest("object"))
      /\ PoolKeys(store', state, row, Rest(PoolPhase(row)))
      /\ PoolCount(store', state, row, Rest("pool"))
      /\ SpendKeys(store', state, row, Rest("spends"))
  <2>1. /\ TxKeys(store, state, tip, row, Rest("object"))
        /\ PoolKeys(store, state, row, Rest(PoolPhase(row)))
        /\ PoolCount(store, state, row, Rest("pool"))
        /\ SpendKeys(store, state, row, Rest("spends"))
    BY DEF KeysInv
  <2> QED BY <1>2, <2>1 DEF TxKeys, PoolKeys, PoolCount, SpendKeys, Others
<1> QED BY <1>1, <1>5, <1>6, <1>7 DEF KeysInv

\* A row is taken: its keys are all to be written.
LEMMA KeysTake ==
    ASSUME NEW st, NEW s, NEW b, NEW r0, NEW u, NEW d, NEW type \in Types, NEW x \in Item,
           Takes(s, b, u, d, type, x), NEW r, r = [type |-> type, tx |-> x],
           TxKeys(st, s, b, r0, {}), PoolKeys(st, s, r0, {}), PoolCount(st, s, r0, {}),
           SpendKeys(st, s, r0, {}), NEW S, type \in {"accept", "reject"} => S = {x}
    PROVE  /\ TxKeys(st, u, d, r, {x}) /\ PoolKeys(st, u, r, {x}) /\ PoolCount(st, u, r, {x})
           /\ SpendKeys(st, u, r, S)
<1>1. /\ LedgerOK(s, b) /\ Moves(s, u, x, StateAfter(type)) /\ s[x] = StateBefore(type)
      /\ \A c \in Item : s[c] = "confirmed" => Pos(d, c) = Pos(b, c)
      /\ r.type = type /\ r.tx = x
  BY DEF Takes
<1>2. u[x] = StateAfter(type) /\ \A y \in Item : y # x => u[y] = s[y]
  BY <1>1 DEF Moves
<1>3. TxKeys(st, u, d, r, {x})
  BY <1>1, <1>2 DEF TxKeys
<1>4. PoolKeys(st, u, r, {x})
  BY <1>1, <1>2 DEF PoolKeys
<1>5. PoolCount(st, u, r, {x})
  <2> PICK U, V : U = UnconfirmedIn(s) /\ V = UnconfirmedIn(u)
    OBVIOUS
  <2>1. IsFiniteSet(U)
    <3>1. IsFiniteSet(PresentIn(s))
      BY <1>1 DEF LedgerOK, LedgerTyped
    <3>2. U \subseteq PresentIn(s)
      BY DEF UnconfirmedIn, PresentIn
    <3> QED BY <3>1, <3>2, FS_Subset
  <2>2. st.pool = Cardinality(U) /\ Cardinality(U) \in Nat
    <3>1. Cardinality(U) \in Nat
      BY <2>1, FS_CardinalityType
    <3>2. st.pool = Cardinality(U) - 0
      BY DEF PoolCount
    <3> QED BY <3>1, <3>2
  <2>3. CASE type \in {"accept", "unconfirm"}
    <3>1. x \notin U /\ V = U \cup {x}
      BY <1>1, <1>2, <2>3 DEF UnconfirmedIn, StateBefore, StateAfter
    <3>2. Cardinality(V) = Cardinality(U) + 1
      BY <2>1, <3>1, FS_AddElement
    <3>3. st.pool = Cardinality(V) - 1
      BY <2>2, <3>2
    <3> QED BY <1>1, <2>3, <3>3 DEF PoolCount
  <2>4. CASE type \in {"confirm", "reject"}
    <3>1. x \in U /\ V = U \ {x}
      BY <1>1, <1>2, <2>4 DEF UnconfirmedIn, StateBefore, StateAfter
    <3>2. Cardinality(V) = Cardinality(U) - 1
      BY <2>1, <3>1, FS_RemoveElement
    <3>3. st.pool = Cardinality(V) - (-1)
      BY <2>2, <3>2
    <3> QED BY <1>1, <2>4, <3>3 DEF PoolCount
  <2> QED BY <2>3, <2>4 DEF Types
<1>6. SpendKeys(st, u, r, S)
  <2> SUFFICES ASSUME NEW o \in Outpoint, ~(S # {} /\ o \in Ins(x)), NEW y \in Tx
               PROVE  st.spentBy[o] = y <=> (u[y] # "absent" /\ o \in Vin[y])
    BY <1>1 DEF SpendKeys
  <2>1. st.spentBy[o] = y <=> (s[y] # "absent" /\ o \in Vin[y])
    BY DEF SpendKeys
  <2>2. y \in Item
    BY DEF Item
  <2>3. CASE y # x
    BY <1>2, <2>1, <2>2, <2>3
  <2>4. CASE y = x /\ type \in {"accept", "reject"}
    <3>1. o \notin Vin[y]
      BY <2>4 DEF Ins
    <3> QED BY <2>1, <3>1
  <2>5. CASE y = x /\ type \in {"confirm", "unconfirm"}
    BY <1>1, <1>2, <2>1, <2>5 DEF StateBefore, StateAfter
  <2> QED BY <2>3, <2>4, <2>5 DEF Types
<1> QED BY <1>3, <1>4, <1>5, <1>6

\* Taking a row: the keys are as the row before left them, all its rounds to come.
LEMMA KeysTakeStep ==
    ASSUME CacheInv, KeysInv, CanTake, NEW type \in Types, NEW x \in Item, TakeRow(type, x),
           Takes(state, tip, state', tip', type, x)
    PROVE  KeysInv'
<1> SUFFICES ASSUME ~torn' PROVE KeysInv'
  BY DEF KeysInv
<1>1. /\ pc = "idle" /\ row' = [type |-> type, tx |-> x] /\ row' \in Rows
      /\ store' = store /\ torn' = torn
      /\ \A p : Rest(p) = {} /\ Rest(p)' = Full(p)'
  BY TakeFacts
<1>2. (row \in Rows => /\ Full("object") = {row.tx} /\ Full("pool") = {row.tx}
                       /\ row.type = "accept" => Full("mempool") = {row.tx}
                       /\ row.type \in {"accept", "reject"} => Full("spends") = {row.tx})'
  <2>1. row \in Rows => /\ Full("object") = {row.tx} /\ Full("pool") = {row.tx}
                        /\ row.type = "accept" => Full("mempool") = {row.tx}
                        /\ row.type \in {"accept", "reject"} => Full("spends") = {row.tx}
    BY FullFacts
  <2> QED BY <2>1, FullFacts, PTL
<1>3. row'.tx = x /\ row'.type = type
  BY <1>1
<1>4. /\ Rest("object")' = {x} /\ Rest("pool")' = {x}
      /\ type = "accept" => Rest("mempool")' = {x}
      /\ type \in {"accept", "reject"} => Rest("spends")' = {x}
  BY <1>1, <1>2, <1>3
<1>5. Rest(PoolPhase(row))' = {x}
  BY <1>3, <1>4 DEF PoolPhase
<1>6. Rest("object") = {} /\ Rest("pool") = {} /\ Rest("spends") = {} /\ Rest(PoolPhase(row)) = {}
  BY <1>1
<1>7. /\ TxKeys(store, state, tip, row, {}) /\ PoolKeys(store, state, row, {})
      /\ PoolCount(store, state, row, {}) /\ SpendKeys(store, state, row, {})
  BY <1>1, <1>6 DEF KeysInv
<1>8. /\ TxKeys(store, state', tip', row', {x}) /\ PoolKeys(store, state', row', {x})
      /\ PoolCount(store, state', row', {x}) /\ SpendKeys(store, state', row', Rest("spends")')
  <2> PICK r : r = row'
    OBVIOUS
  <2> PICK S : S = Rest("spends")'
    OBVIOUS
  <2>1. r = [type |-> type, tx |-> x] /\ (type \in {"accept", "reject"} => S = {x})
    BY <1>1, <1>4
  <2>2. Takes(state, tip, state', tip', type, x) /\ type \in Types /\ x \in Item
    OBVIOUS
  <2>3. /\ TxKeys(store, state', tip', r, {x}) /\ PoolKeys(store, state', r, {x})
        /\ PoolCount(store, state', r, {x}) /\ SpendKeys(store, state', r, S)
    BY ONLY <1>7, <2>1, <2>2, KeysTake
  <2> QED BY <2>3
<1> QED BY <1>1, <1>4, <1>5, <1>8 DEF KeysInv

\* The row is finished, interrupted where it can be repeated, or comes again.
LEMMA KeysEnds ==
    ASSUME CacheInv, KeysInv, SaveId \/ Crash \/ Restart
    PROVE  KeysInv'
<1> SUFFICES ASSUME ~torn' PROVE KeysInv'
  BY DEF KeysInv
<1>1. CASE SaveId
  <2>1. /\ pc = "save" /\ store' = store /\ torn' = torn /\ state' = state /\ tip' = tip
        /\ \A p : p # "save" => Rest(p) = {}
        /\ \A p : Rest(p)' = {}
    BY <1>1, SaveFacts
  <2>2. /\ Rest("object") = {} /\ Rest("pool") = {} /\ Rest("spends") = {}
        /\ Rest(PoolPhase(row)) = {}
    BY <2>1 DEF PoolPhase
  <2>3. /\ TxKeys(store, state, tip, row, {}) /\ PoolKeys(store, state, row, {})
        /\ PoolCount(store, state, row, {}) /\ SpendKeys(store, state, row, {})
    BY <2>1, <2>2 DEF KeysInv
  <2>4. /\ TxKeys(store, state, tip, row', {}) /\ PoolKeys(store, state, row', {})
        /\ PoolCount(store, state, row', {}) /\ SpendKeys(store, state, row', {})
    BY <2>3 DEF TxKeys, PoolKeys, PoolCount, SpendKeys
  <2>5. /\ Rest("object")' = {} /\ Rest("pool")' = {} /\ Rest("spends")' = {}
        /\ Rest(PoolPhase(row))' = {}
    BY <2>1
  <2> QED BY <2>1, <2>4, <2>5 DEF KeysInv
<1>2. CASE Crash
  <2>1. /\ ~torn /\ row' = row /\ store' = store /\ state' = state /\ tip' = tip
        /\ pc # "aborted"
        /\ \A p : Rest(p)' = Full(p)
        /\ (\A p : Rest(p) = Full(p)) \/ (pc \in Phases /\ Resumable)
    BY <1>2, CrashFacts
  <2>2. \A p : Rest(p) \subseteq Full(p)
    BY RestInFull DEF CacheInv
  <2>3. Rest("pool") = Full("pool")
    <3>1. CASE \A p : Rest(p) = Full(p)
      BY <3>1
    <3>2. CASE pc \in Phases /\ Resumable
      BY <3>2, AtPhase, PoolAhead
    <3> QED BY <2>1, <3>1, <3>2
  <2>4. /\ TxKeys(store, state, tip, row, Rest("object"))
        /\ PoolKeys(store, state, row, Rest(PoolPhase(row)))
        /\ PoolCount(store, state, row, Rest("pool"))
        /\ SpendKeys(store, state, row, Rest("spends"))
    BY <2>1 DEF KeysInv
  <2>5. /\ TxKeys(store, state, tip, row, Full("object"))
        /\ PoolKeys(store, state, row, Full(PoolPhase(row)))
        /\ PoolCount(store, state, row, Full("pool"))
        /\ SpendKeys(store, state, row, Full("spends"))
    <3>1. /\ Rest("object") # {} => Full("object") # {}
          /\ Rest("spends") # {} => Full("spends") # {}
          /\ Rest(PoolPhase(row)) # {} => Full(PoolPhase(row)) # {}
      BY <2>2
    <3> QED BY <2>3, <2>4, <3>1 DEF TxKeys, PoolKeys, SpendKeys
  <2>6. Rest(PoolPhase(row))' = Full(PoolPhase(row))
    <3>1. PoolPhase(row)' = PoolPhase(row)
      BY <2>1 DEF PoolPhase
    <3> QED BY <2>1, <3>1 DEF PoolPhase
  <2> QED BY <2>1, <2>5, <2>6 DEF KeysInv
<1>3. CASE Restart
  <2>1. /\ pc = "down" /\ row' = row /\ store' = store /\ torn' = torn
        /\ state' = state /\ tip' = tip
        /\ \A p : Rest(p)' = Full(p) /\ Rest(p) = Full(p)
    BY <1>3, RestartFacts
  <2>2. Rest(PoolPhase(row))' = Rest(PoolPhase(row))
    <3>1. PoolPhase(row)' = PoolPhase(row)
      BY <2>1 DEF PoolPhase
    <3> QED BY <2>1, <3>1 DEF PoolPhase
  <2>3. /\ TxKeys(store, state, tip, row, Rest("object"))
        /\ PoolKeys(store, state, row, Rest(PoolPhase(row)))
        /\ PoolCount(store, state, row, Rest("pool"))
        /\ SpendKeys(store, state, row, Rest("spends"))
    BY <2>1 DEF KeysInv
  <2>4. /\ Rest("object")' = Rest("object") /\ Rest("pool")' = Rest("pool")
        /\ Rest("spends")' = Rest("spends")
    BY <2>1
  <2> QED BY <2>1, <2>2, <2>3, <2>4 DEF KeysInv
<1> QED BY <1>1, <1>2, <1>3

\* No key is there at the start.
LEMMA KeysInit ==
    ASSUME Init PROVE KeysInv
<1>1. /\ store = InitStore /\ row = NoRow /\ pc = "idle" /\ state = [x \in Item |-> "absent"]
  BY DEF Init, Ledger!LedgerInit, Item
<1>2. \A p : Rest(p) = {}
  BY <1>1 DEF Rest, Phases
<1>3. /\ store.spentBy = [o \in Outpoint |-> NoTx] /\ store.unconfirmed = {} /\ store.pool = 0
  BY <1>1 DEF InitStore
<1>4. TxKeys(store, state, tip, row, {}) /\ PoolKeys(store, state, row, {})
  BY <1>1, <1>3 DEF TxKeys, PoolKeys
<1>5. PoolCount(store, state, row, {})
  <2>1. UnconfirmedIn(state) = {}
    BY <1>1 DEF UnconfirmedIn
  <2>2. Cardinality({}) = 0
    BY FS_EmptySet
  <2> QED BY <1>3, <2>1, <2>2 DEF PoolCount
<1>6. SpendKeys(store, state, row, {})
  BY <1>1, <1>3, TxGraphAssumption DEF SpendKeys, Item
<1>7. Rest(PoolPhase(row)) = {} /\ Rest("object") = {} /\ Rest("pool") = {} /\ Rest("spends") = {}
  BY <1>2
<1> QED BY <1>4, <1>5, <1>6, <1>7 DEF KeysInv

\* Every step keeps the keys.
LEMMA KeysNext ==
    ASSUME StillWhole, CacheInv, LedgerInv, BookInv, SpentInv, KeysInv, [Next]_vars
    PROVE  KeysInv'
<1>1. CASE UNCHANGED vars
  BY <1>1 DEF vars, ledger, bounds, KeysInv, Rest, Full, Ahead, PoolPhase
<1>2. CASE Next
  <2>2. CASE Rounds
    <3>1. CASE torn
      <4>1. torn'
        BY <2>2, <3>1, RoundsDone DEF Done
      <4> QED BY <4>1 DEF KeysInv
    <3>2. CASE ~torn /\ KeyRound
      BY <3>2, KeysSpends, KeysObject, KeysMempool, KeysPool DEF KeyRound
    <3>3. CASE ~torn /\ ~KeyRound
      <4>1. \/ Quiet
            \/ pc = "list" /\ Round \in todo /\ Round \in Address /\ \E info : ListEffect(Round, info)
        BY <2>2, <3>3, RoundKinds
      <4>2. pc \in {"outputs", "inputs", "flush", "list"}
        BY <2>2, <3>3 DEF Rounds, KeyRound, AcceptOutput, AcceptInput, RejectInput, RejectOutput,
             AcceptList, ConfirmList, UnconfirmList, RejectList, FlushAddressInfo, In, AtNode
      <4>3. KeptKeys(store, store') /\ \E e \in todo : Done(e)
        BY <4>1, <4>2 DEF Quiet, ListEffect
      <4> QED BY <3>3, <4>2, <4>3, KeysOther
    <3> QED BY <3>1, <3>2, <3>3
  <2>3. CASE UnspentMissing \/ ListFails
    BY <2>3 DEF UnspentMissing, ListFails, Fail, KeysInv
  <2>4. ASSUME CanTake, NEW type \in Types, NEW x \in Item, TakeRow(type, x),
               Takes(state, tip, state', tip', type, x)
        PROVE  KeysInv'
    BY <2>4, KeysTakeStep
  <2> QED BY <1>2, Steps, <2>2, <2>3, <2>4, KeysEnds, KeysSwitch
<1> QED BY <1>1, <1>2

\* Between two rows every key is written.
LEMMA KeysAtRest ==
    ASSUME KeysInv, AtRest
    PROVE  /\ TxKeys(store, state, tip, row, {}) /\ PoolKeys(store, state, row, {})
           /\ PoolCount(store, state, row, {}) /\ SpendKeys(store, state, row, {})
<1>1. pc = "idle" /\ ~torn
  BY DEF AtRest
<1>2. \A p : Rest(p) = {}
  BY <1>1 DEF Rest, Phases
<1>3. Rest(PoolPhase(row)) = {} /\ Rest("object") = {} /\ Rest("pool") = {} /\ Rest("spends") = {}
  BY <1>2
<1> QED BY <1>1, <1>3 DEF KeysInv

\* The order and the heights of the lists follow from the books and the keys.
LEMMA OrderFollows ==
    ASSUME CacheInv, LedgerInv, BookInv, KeysInv PROVE ConfirmedFirst
<1> SUFFICES ASSUME AtRest, NEW a \in Address, NEW n \in DOMAIN store.list[a]
             PROVE  LET x == store.list[a][n].tx
                        confirmed == n <= store.addr[a].lastConfirmedTxIdx
                    IN  /\ confirmed <=> state[x] = "confirmed"
                        /\ store.list[a][n].height = (IF confirmed THEN ChainPos(x)[1] ELSE -1)
                        /\ store.tx[x].height = store.list[a][n].height
                        /\ (confirmed /\ n > 0) =>
                              Before(ChainPos(store.list[a][n - 1].tx), ChainPos(x))
  BY DEF ConfirmedFirst
<1> PICK L, ix, i, M, C : L = store.list[a] /\ ix = store.idx[a] /\ i = store.addr[a]
                          /\ M = HistoryOf(state, a) /\ C = ConfirmedOf(state, a)
  OBVIOUS
<1> PICK T, k, x : T = i.txCount /\ k = i.lastConfirmedTxIdx /\ x = L[n].tx
  OBVIOUS
<1>1. BookAt(L, ix, i, a, M, C, tip, {})
  BY BookAtRest
<1>2. NodesOK(L, ix, T, M) /\ OrderOK(L, T, k, C, tip) /\ HeightsOK(L, C, tip, {})
  BY <1>1 DEF BookAt, ListAt
<1>3. x \in M /\ n \in Nat /\ n < T
  BY <1>2 DEF NodesOK
<1>4. tip \in Block \cup {Begin}
  BY DEF LedgerInv, LedgerOK, LedgerTyped
<1>5. \A y : ChainPos(y) = Pos(tip, y)
  BY <1>4, ChainPosFacts
<1>6. n <= k <=> x \in C
  BY <1>2 DEF OrderOK
<1>7. x \in C <=> state[x] = "confirmed"
  BY <1>3 DEF HistoryOf, ConfirmedOf
<1>8. L[n].height = IF x \in C THEN Pos(tip, x)[1] ELSE -1
  BY <1>2 DEF HeightsOK, HeightOf
<1>9. store.tx[x].height = IF state[x] = "confirmed" THEN Pos(tip, x)[1] ELSE -1
  <2>1. x \in Item /\ state[x] # "absent"
    BY <1>3 DEF HistoryOf
  <2> QED BY <2>1, KeysAtRest DEF TxKeys
<1>10. ASSUME n <= k, n > 0 PROVE Before(Pos(tip, L[n - 1].tx), Pos(tip, x))
  <2>1. n - 1 \in DOMAIN L /\ n - 1 < n
    BY <1>2, <1>3, <1>10 DEF NodesOK
  <2> QED BY <1>2, <1>10, <2>1 DEF OrderOK
<1> QED BY <1>5, <1>6, <1>7, <1>8, <1>9, <1>10

\* The totals follow from the books and the keys.
LEMMA TotalsFollow ==
    ASSUME CacheInv, LedgerInv, BookInv, KeysInv PROVE TotalsExact
<1> SUFFICES ASSUME AtRest
             PROVE  /\ store.unconfirmed = {x \in Item : state[x] = "unconfirmed"}
                    /\ store.pool = Cardinality(store.unconfirmed)
                    /\ \A a \in Address :
                      LET received == [x \in Item |-> Received(x, a)]
                          sent == [x \in Item |-> Sent(x, a)]
                          info == store.addr[a]
                      IN  /\ info.txCount = Cardinality(History(a))
                          /\ info.unconfirmedTxCount = Cardinality(Unconfirmed(a))
                          /\ info.received = SumOver(received, History(a))
                          /\ info.sent = SumOver(sent, History(a))
                          /\ info.unconfirmedReceived = SumOver(received, Unconfirmed(a))
                          /\ info.unconfirmedSent = SumOver(sent, Unconfirmed(a))
  BY DEF TotalsExact
<1>1. PoolKeys(store, state, row, {}) /\ PoolCount(store, state, row, {})
  BY KeysAtRest
<1>2. store.unconfirmed = UnconfirmedIn(state)
  BY <1>1 DEF PoolKeys, UnconfirmedIn
<1>3. store.pool = Cardinality(UnconfirmedIn(state))
  <2>1. IsFiniteSet(PresentIn(state))
    BY DEF LedgerInv, LedgerOK, LedgerTyped
  <2>2. UnconfirmedIn(state) \subseteq PresentIn(state)
    BY DEF UnconfirmedIn, PresentIn
  <2>3. Cardinality(UnconfirmedIn(state)) \in Nat
    BY <2>1, <2>2, FS_Subset, FS_CardinalityType
  <2>4. store.pool = Cardinality(UnconfirmedIn(state)) - 0
    BY <1>1 DEF PoolCount
  <2> QED BY <2>3, <2>4
<1>4. ASSUME NEW a \in Address
      PROVE  /\ store.addr[a].txCount = Cardinality(History(a))
             /\ store.addr[a].unconfirmedTxCount = Cardinality(Unconfirmed(a))
             /\ store.addr[a].received = SumOver(Rcv(a), History(a))
             /\ store.addr[a].sent = SumOver(Snt(a), History(a))
             /\ store.addr[a].unconfirmedReceived = SumOver(Rcv(a), Unconfirmed(a))
             /\ store.addr[a].unconfirmedSent = SumOver(Snt(a), Unconfirmed(a))
  <2> PICK M, C, i : M = HistoryOf(state, a) /\ C = ConfirmedOf(state, a) /\ i = store.addr[a]
    OBVIOUS
  <2>1. BookAt(store.list[a], store.idx[a], i, a, M, C, tip, {})
    BY BookAtRest
  <2>2. Cardinality(M) = i.txCount
    BY <2>1, BookMembers
  <2>3. TotalsAt(i, a, M, C)
    BY <2>1 DEF BookAt
  <2>4. M \ C = {x \in M : state[x] = "unconfirmed"}
    BY DEF LedgerInv, LedgerOK, LedgerTyped, States, HistoryOf, ConfirmedOf
  <2>5. M = History(a) /\ M \ C = Unconfirmed(a)
    BY <2>4, BookNames
  <2> QED BY <2>2, <2>3, <2>5 DEF TotalsAt
<1> QED BY <1>2, <1>3, <1>4 DEF UnconfirmedIn, Rcv, Snt

-----------------------------------------------------------------------------
(* The unspent outputs of an address. *)

\* Sets of outputs are finite.
LEMMA OutputsFinite ==
    ASSUME NEW S \in SUBSET Outpoint
    PROVE  /\ IsFiniteSet(S) /\ Cardinality(S) \in Nat
           /\ \A o \in S : Cardinality(S \ {o}) = Cardinality(S) - 1 /\ Cardinality(S) >= 1
<1>1. IsFiniteSet(S) /\ Cardinality(S) \in Nat
  BY AddressAssumption, FS_Subset, FS_CardinalityType
<1>2. ASSUME NEW o \in S PROVE Cardinality(S \ {o}) = Cardinality(S) - 1 /\ Cardinality(S) >= 1
  <2>1. IsFiniteSet(S \ {o}) /\ Cardinality(S \ {o}) \in Nat
    BY <1>1, FS_Subset, FS_CardinalityType
  <2>2. Cardinality(S \ {o}) = Cardinality(S) - 1
    BY <1>1, FS_RemoveElement
  <2> QED BY <1>1, <2>1, <2>2
<1> QED BY <1>1, <1>2

\* _acceptTx_insertAddressUnspent(): an output that was to be inserted.
LEMMA UnspentInsert ==
    ASSUME NEW K, NEW X, NEW m, NEW I, NEW D, NEW U, UnspentAt(K, X, m, I, D, U),
           PendingOK(I, D, U), NEW o \in I, DOMAIN X = Outpoint
    PROVE  UnspentAt(With(K, m + 1, o), [X EXCEPT ![o] = m + 1], m + 1, I \ {o}, D, U)
<1> PICK L, Y, n : L = With(K, m + 1, o) /\ Y = [X EXCEPT ![o] = m + 1] /\ n = m + 1
  OBVIOUS
<1>1. DOMAIN L = DOMAIN K \cup {n} /\ L[n] = o /\ \A i \in DOMAIN K : i # n => L[i] = K[i]
  BY DEF With
<1>2. m \in Nat \cup {-1} /\ n \in Nat /\ DOMAIN K \subseteq Nat
  BY DEF UnspentAt
<1>3. o \in Outpoint /\ o \in U /\ I \subseteq Outpoint
  BY DEF PendingOK
<1>4. Y[o] = n /\ \A p \in Outpoint : p # o => Y[p] = X[p]
  BY <1>3
<1>5. ASSUME NEW p \in Outpoint \ (I \ {o})
      PROVE  IF p \in U \cup D THEN Y[p] \in DOMAIN L /\ Y[p] <= n /\ L[Y[p]] = p ELSE Y[p] = -1
  <2>1. CASE p = o
    BY <1>1, <1>2, <1>3, <1>4, <2>1
  <2>2. CASE p # o
    <3>1. IF p \in U \cup D THEN X[p] \in DOMAIN K /\ X[p] <= m /\ K[X[p]] = p ELSE X[p] = -1
      BY <2>2 DEF UnspentAt
    <3>2. CASE p \in U \cup D
      <4>1. X[p] \in DOMAIN K /\ X[p] <= m /\ K[X[p]] = p /\ X[p] \in Nat
        BY <1>2, <3>1, <3>2
      <4>2. X[p] # n /\ X[p] <= n
        BY <1>2, <4>1
      <4> QED BY <1>1, <1>4, <2>2, <3>2, <4>1, <4>2
    <3> QED BY <1>4, <2>2, <3>1, <3>2
  <2> QED BY <2>1, <2>2
<1>6. ASSUME NEW i \in DOMAIN L, i <= n PROVE L[i] \in Outpoint \ (I \ {o}) /\ Y[L[i]] = i
  <2>1. CASE i = n
    BY <1>1, <1>3, <1>4, <2>1
  <2>2. CASE i # n
    <3>1. i \in DOMAIN K /\ i <= m
      BY <1>1, <1>2, <1>6, <2>2
    <3>2. K[i] \in Outpoint \ I /\ X[K[i]] = i
      BY <3>1 DEF UnspentAt
    <3> QED BY <1>1, <1>4, <2>2, <3>1, <3>2
  <2> QED BY <2>1, <2>2
<1>7. ASSUME NEW i \in DOMAIN L PROVE i <= n + Cardinality(I \ {o})
  <2>1. /\ Cardinality(I \ {o}) = Cardinality(I) - 1 /\ Cardinality(I) >= 1
        /\ Cardinality(I) \in Nat
    BY <1>3, OutputsFinite
  <2>2. i \in DOMAIN K => i <= m + Cardinality(I)
    BY DEF UnspentAt
  <2>3. i \in Nat /\ (i \in DOMAIN K \/ i = n)
    BY <1>1, <1>2
  <2> QED BY <1>2, <2>1, <2>2, <2>3
<1>8. UnspentAt(L, Y, n, I \ {o}, D, U)
  BY <1>1, <1>2, <1>5, <1>6, <1>7 DEF UnspentAt
<1> QED BY <1>8

\* The same, seen with an object whose index m is not above the new index.
LEMMA UnspentInsertAgain ==
    ASSUME NEW K, NEW X, NEW m, NEW I, NEW D, NEW U, UnspentAt(K, X, m, I, D, U),
           PendingOK(I, D, U), NEW o \in I, DOMAIN X = Outpoint,
           NEW n \in Nat, n > m, n <= m + Cardinality(I)
    PROVE  UnspentAt(With(K, n, o), [X EXCEPT ![o] = n], m, I, D, U)
<1> PICK L, Y : L = With(K, n, o) /\ Y = [X EXCEPT ![o] = n]
  OBVIOUS
<1>1. DOMAIN L = DOMAIN K \cup {n} /\ \A i \in DOMAIN K : i # n => L[i] = K[i]
  BY DEF With
<1>2. m \in Nat \cup {-1} /\ DOMAIN K \subseteq Nat
  BY DEF UnspentAt
<1>3. \A p \in Outpoint : p # o => Y[p] = X[p]
  OBVIOUS
<1>4. ASSUME NEW p \in Outpoint \ I
      PROVE  IF p \in U \cup D THEN Y[p] \in DOMAIN L /\ Y[p] <= m /\ L[Y[p]] = p ELSE Y[p] = -1
  <2>1. IF p \in U \cup D THEN X[p] \in DOMAIN K /\ X[p] <= m /\ K[X[p]] = p ELSE X[p] = -1
    BY DEF UnspentAt
  <2>2. Y[p] = X[p]
    BY <1>3
  <2>3. CASE p \in U \cup D
    <3>1. X[p] \in DOMAIN K /\ X[p] <= m /\ K[X[p]] = p /\ X[p] # n
      BY <1>2, <2>1, <2>3
    <3> QED BY <1>1, <2>2, <2>3, <3>1
  <2> QED BY <2>1, <2>2, <2>3
<1>5. ASSUME NEW i \in DOMAIN L, i <= m PROVE L[i] \in Outpoint \ I /\ Y[L[i]] = i
  <2>1. i \in DOMAIN K /\ i # n
    BY <1>1, <1>2, <1>5
  <2>2. K[i] \in Outpoint \ I /\ X[K[i]] = i
    BY <1>5, <2>1 DEF UnspentAt
  <2> QED BY <1>1, <1>3, <2>1, <2>2
<1>6. ASSUME NEW i \in DOMAIN L PROVE i <= m + Cardinality(I)
  BY <1>1, <1>6 DEF UnspentAt
<1>7. UnspentAt(L, Y, m, I, D, U)
  BY <1>1, <1>2, <1>4, <1>5, <1>6 DEF UnspentAt
<1> QED BY <1>7

\* The deletion of an output that was to be deleted.
LEMMA UnspentDelete ==
    ASSUME NEW K, NEW X, NEW m, NEW I, NEW D, NEW U, UnspentAt(K, X, m, I, D, U),
           PendingOK(I, D, U), NEW o \in D, DOMAIN X = Outpoint
    PROVE  UnspentAt(Without(K, X[o]), [X EXCEPT ![o] = -1], m, I, D \ {o}, U)
<1> PICK n : n = X[o]
  OBVIOUS
<1> PICK L, Y : L = Without(K, n) /\ Y = [X EXCEPT ![o] = -1]
  OBVIOUS
<1>1. DOMAIN L = DOMAIN K \ {n} /\ \A i \in DOMAIN L : L[i] = K[i]
  BY DEF Without
<1>2. m \in Nat \cup {-1} /\ DOMAIN K \subseteq Nat
  BY DEF UnspentAt
<1>3. o \in Outpoint \ I /\ o \notin U
  BY DEF PendingOK
<1>4. n \in DOMAIN K /\ n <= m /\ K[n] = o
  BY <1>3 DEF UnspentAt
<1>5. Y[o] = -1 /\ \A p \in Outpoint : p # o => Y[p] = X[p]
  BY <1>3
<1>6. ASSUME NEW p \in Outpoint \ I
      PROVE  IF p \in U \cup (D \ {o}) THEN Y[p] \in DOMAIN L /\ Y[p] <= m /\ L[Y[p]] = p
             ELSE Y[p] = -1
  <2>1. CASE p = o
    BY <1>3, <1>5, <2>1
  <2>2. CASE p # o
    <3>1. IF p \in U \cup D THEN X[p] \in DOMAIN K /\ X[p] <= m /\ K[X[p]] = p ELSE X[p] = -1
      BY DEF UnspentAt
    <3>2. p \in U \cup (D \ {o}) <=> p \in U \cup D
      BY <2>2
    <3>3. p \in U \cup D => X[p] # n
      BY <1>4, <2>2, <3>1
    <3> QED BY <1>1, <1>5, <2>2, <3>1, <3>2, <3>3
  <2> QED BY <2>1, <2>2
<1>7. ASSUME NEW i \in DOMAIN L, i <= m PROVE L[i] \in Outpoint \ I /\ Y[L[i]] = i
  <2>1. i \in DOMAIN K /\ i # n
    BY <1>1
  <2>2. K[i] \in Outpoint \ I /\ X[K[i]] = i
    BY <1>7, <2>1 DEF UnspentAt
  <2>3. K[i] # o
    BY <2>1, <2>2
  <2> QED BY <1>1, <1>5, <2>2, <2>3
<1>8. \A i \in DOMAIN L : i <= m + Cardinality(I)
  BY <1>1 DEF UnspentAt
<1>9. UnspentAt(L, Y, m, I, D \ {o}, U)
  BY <1>1, <1>2, <1>6, <1>7, <1>8 DEF UnspentAt
<1> QED BY <1>9

\* A row is taken: I are its outputs that become unspent, D those that are no longer.
LEMMA UnspentTake ==
    ASSUME NEW K, NEW X, NEW m, NEW U, UnspentAt(K, X, m, {}, {}, U),
           NEW I \in SUBSET Outpoint, NEW D \in SUBSET Outpoint, D \subseteq U, I \cap U = {},
           NEW V, V = (U \cup I) \ D
    PROVE  UnspentAt(K, X, m, I, D, V)
<1>1. m \in Nat \cup {-1} /\ DOMAIN K \subseteq Nat
  BY DEF UnspentAt
<1>2. ASSUME NEW o \in Outpoint \ I
      PROVE  IF o \in V \cup D THEN X[o] \in DOMAIN K /\ X[o] <= m /\ K[X[o]] = o ELSE X[o] = -1
  <2>1. IF o \in U \cup {} THEN X[o] \in DOMAIN K /\ X[o] <= m /\ K[X[o]] = o ELSE X[o] = -1
    BY DEF UnspentAt
  <2>2. o \in V \cup D <=> o \in U \cup {}
    OBVIOUS
  <2> QED BY <2>1, <2>2
<1>3. ASSUME NEW n \in DOMAIN K, n <= m PROVE K[n] \in Outpoint \ I /\ X[K[n]] = n
  <2>1. K[n] \in Outpoint \ {} /\ X[K[n]] = n
    BY <1>3 DEF UnspentAt
  <2>2. X[K[n]] # -1
    BY <1>1, <2>1
  <2>3. K[n] \in U \cup {}
    BY <2>1, <2>2 DEF UnspentAt
  <2> QED BY <2>1, <2>3
<1>4. ASSUME NEW n \in DOMAIN K PROVE n <= m + Cardinality(I)
  <2>1. n <= m + Cardinality({}) /\ Cardinality({}) = 0
    BY FS_EmptySet DEF UnspentAt
  <2>2. Cardinality(I) \in Nat
    BY OutputsFinite
  <2> QED BY <1>1, <2>1, <2>2
<1> QED BY <1>1, <1>2, <1>3, <1>4 DEF UnspentAt

\* The counter covers the new outputs.
LEMMA CountedTake ==
    ASSUME NEW c, NEW U \in SUBSET Outpoint, CountedAt(c, {}, 0, U),
           NEW I \in SUBSET Outpoint, NEW D \in SUBSET Outpoint, D \subseteq U, I \cap U = {},
           NEW V, V = (U \cup I) \ D, NEW d, d \in {0, Cardinality(D)}
    PROVE  CountedAt(c, I, d, V)
<1>1. /\ IsFiniteSet(U) /\ IsFiniteSet(I) /\ IsFiniteSet(D) /\ IsFiniteSet(V)
      /\ Cardinality(U) \in Nat /\ Cardinality(I) \in Nat /\ Cardinality(D) \in Nat
      /\ Cardinality(V) \in Nat
  BY OutputsFinite
<1>2. Cardinality(U \cup I) = Cardinality(U) + Cardinality(I)
  <2>1. Cardinality(U \cup I) = Cardinality(U) + Cardinality(I) - Cardinality(U \cap I)
    BY <1>1, FS_Union
  <2>2. U \cap I = {}
    OBVIOUS
  <2>3. Cardinality({}) = 0
    BY FS_EmptySet
  <2>4. Cardinality(U \cap I) = 0
    BY <2>2, <2>3
  <2>5. Cardinality(U \cup I) = Cardinality(U) + Cardinality(I) - 0
    BY <2>1, <2>4
  <2> QED BY <1>1, <2>5
<1>3. Cardinality(V \cup D) = Cardinality(V) + Cardinality(D)
  <2>1. Cardinality(V \cup D) = Cardinality(V) + Cardinality(D) - Cardinality(V \cap D)
    BY <1>1, FS_Union
  <2>2. V \cap D = {}
    OBVIOUS
  <2>3. Cardinality({}) = 0
    BY FS_EmptySet
  <2>4. Cardinality(V \cap D) = 0
    BY <2>2, <2>3
  <2>5. Cardinality(V \cup D) = Cardinality(V) + Cardinality(D) - 0
    BY <2>1, <2>4
  <2> QED BY <1>1, <2>5
<1>4. V \cup D = U \cup I
  OBVIOUS
<1>5. c \in Int /\ c >= Cardinality(U)
  <2>1. c \in Int /\ c + Cardinality({}) - 0 >= Cardinality(U) /\ Cardinality({}) = 0
    BY FS_EmptySet DEF CountedAt
  <2> QED BY <1>1, <2>1
<1> PICK u, i, v, w : u = Cardinality(U) /\ i = Cardinality(I) /\ v = Cardinality(V) /\ w = Cardinality(D)
  OBVIOUS
<1>6. v + w = u + i
  BY <1>2, <1>3, <1>4
<1>7. c + i - d >= v
  BY <1>1, <1>5, <1>6
<1> QED BY <1>5, <1>7 DEF CountedAt

\* An output is inserted: the counter is one higher.
LEMMA CountedInsert ==
    ASSUME NEW c, NEW U \in SUBSET Outpoint, NEW I \in SUBSET Outpoint, NEW d \in Int,
           CountedAt(c, I, d, U), NEW o \in I
    PROVE  CountedAt(c + 1, I \ {o}, d, U)
<1> PICK u, i, j : u = Cardinality(U) /\ i = Cardinality(I) /\ j = Cardinality(I \ {o})
  OBVIOUS
<1>1. u \in Nat /\ i \in Nat /\ j = i - 1
  BY OutputsFinite
<1>2. c \in Int /\ c + i - d >= u
  BY DEF CountedAt
<1>3. c + 1 \in Int /\ (c + 1) + j - d >= u
  BY <1>1, <1>2
<1> QED BY <1>3 DEF CountedAt

\* acceptTx() deletes one: the counter is one lower, as was foreseen.
LEMMA CountedDelete ==
    ASSUME NEW c, NEW U \in SUBSET Outpoint, NEW I \in SUBSET Outpoint, NEW D \in SUBSET Outpoint,
           CountedAt(c, I, Cardinality(D), U), NEW o \in D
    PROVE  CountedAt(c - 1, I, Cardinality(D \ {o}), U)
<1> PICK u, i, d, e : /\ u = Cardinality(U) /\ i = Cardinality(I) /\ d = Cardinality(D)
                      /\ e = Cardinality(D \ {o})
  OBVIOUS
<1>1. u \in Nat /\ i \in Nat /\ d \in Nat /\ e = d - 1
  BY OutputsFinite
<1>2. c \in Int /\ c + i - d >= u
  BY DEF CountedAt
<1>3. c - 1 \in Int /\ (c - 1) + i - e >= u
  BY <1>1, <1>2
<1> QED BY <1>3 DEF CountedAt

\* The outputs of the rounds over O that name an address are those of O that pay it.
LEMMA OutsOfEntries ==
    ASSUME NEW O \in SUBSET Outpoint, NEW a
    PROVE  /\ OutsOf(Entries(O), a) = {o \in O : Pays(o, a)}
           /\ OutsOf({}, a) = {} /\ OutsOf(Entries(O), a) \subseteq Outpoint
<1>1. ASSUME NEW o \in O, Pays(o, a) PROVE o \in OutsOf(Entries(O), a)
  <2>1. PICK j \in 1..Len(PayTo[o]) : PayTo[o][j] = a
    BY <1>1 DEF Pays
  <2> PICK e : e = <<o, j>>
    OBVIOUS
  <2>2. e \in Entries(O)
    BY DEF Entries
  <2>3. e[1] = o /\ AddressOf(e) = a
    BY <2>1 DEF AddressOf
  <2> QED BY <2>2, <2>3 DEF OutsOf
<1>2. ASSUME NEW o \in OutsOf(Entries(O), a) PROVE o \in O /\ Pays(o, a)
  <2>1. PICK e \in Entries(O) : e[1] = o /\ AddressOf(e) = a
    BY DEF OutsOf
  <2>2. PICK p \in O : \E j \in 1..Len(PayTo[p]) : e = <<p, j>>
    BY DEF Entries
  <2>3. PICK j \in 1..Len(PayTo[p]) : e = <<p, j>>
    BY <2>2
  <2>4. p = o /\ PayTo[o][j] = a
    BY <2>1, <2>3 DEF AddressOf
  <2> QED BY <2>3, <2>4 DEF Pays
<1>3. OutsOf({}, a) = {} /\ OutsOf(Entries(O), a) \subseteq Outpoint
  BY DEF OutsOf
<1> QED BY <1>1, <1>2, <1>3

\* One entry is taken out of the rounds: one output of one address.
LEMMA OutsOfRemove ==
    ASSUME PaysOnce, NEW O \in SUBSET Outpoint, NEW E \in SUBSET Entries(O), NEW e \in E
    PROVE  /\ e[1] \in OutsOf(E, AddressOf(e))
           /\ OutsOf(E \ {e}, AddressOf(e)) = OutsOf(E, AddressOf(e)) \ {e[1]}
           /\ \A b : b # AddressOf(e) => OutsOf(E \ {e}, b) = OutsOf(E, b)
<1>1. ASSUME NEW g \in Entries(O)
      PROVE  g[1] \in Outpoint /\ \E j \in 1..Len(PayTo[g[1]]) : g = <<g[1], j>>
  <2>1. PICK p \in O : \E j \in 1..Len(PayTo[p]) : g = <<p, j>>
    BY DEF Entries
  <2>2. g[1] = p
    BY <2>1
  <2> QED BY <2>1, <2>2
<1>2. ASSUME NEW g \in E, g[1] = e[1], AddressOf(g) = AddressOf(e) PROVE g = e
  <2> PICK o : o = e[1]
    OBVIOUS
  <2>1. PICK i \in 1..Len(PayTo[o]) : e = <<o, i>>
    BY <1>1
  <2>2. PICK j \in 1..Len(PayTo[o]) : g = <<o, j>>
    BY <1>1, <1>2
  <2>3. PayTo[o][i] = PayTo[o][j] /\ o \in Outpoint
    BY <1>1, <1>2, <2>1, <2>2 DEF AddressOf
  <2> QED BY <2>1, <2>2, <2>3 DEF PaysOnce
<1>3. e[1] \in OutsOf(E, AddressOf(e))
  BY <1>1 DEF OutsOf
<1>4. OutsOf(E \ {e}, AddressOf(e)) = OutsOf(E, AddressOf(e)) \ {e[1]}
  BY <1>2 DEF OutsOf
<1>5. \A b : b # AddressOf(e) => OutsOf(E \ {e}, b) = OutsOf(E, b)
  BY DEF OutsOf
<1> QED BY <1>3, <1>4, <1>5

\* Fewer entries, fewer outputs.
LEMMA OutsOfWithin ==
    ASSUME NEW E, NEW F, E \subseteq F, NEW a
    PROVE  OutsOf(E, a) \subseteq OutsOf(F, a) /\ OutsOf(E, a) \subseteq Outpoint
BY DEF OutsOf

\* What is still to be inserted becomes unspent, what is still to be deleted is not.
LEMMA PendingFacts ==
    ASSUME CacheInv, SpentInv, NEW a, NEW U, U = UnspentOf(state, a)
    PROVE  /\ PendingOK(OutsOf(Full(Gain(row)), a), OutsOf(Full(Loss(row)), a), U)
           /\ PendingOK(OutsOf(Rest(Gain(row)), a), OutsOf(Rest(Loss(row)), a), U)
           /\ U \in SUBSET Outpoint
<1> PICK g, l : g = Gain(row) /\ l = Loss(row)
  OBVIOUS
<1>1. row \in Rows \cup {NoRow} /\ Control
  BY DEF CacheInv, Control
<1>2. /\ \A o \in OutsOf(Full(g), a) : o \in U
      /\ \A o \in OutsOf(Full(l), a) : o \notin U
  <2>1. CASE row = NoRow
    <3>1. Full(g) = {} /\ Full(l) = {}
      BY <2>1 DEF Full
    <3> QED BY <3>1 DEF OutsOf
  <2>2. CASE row \in Rows
    <3> PICK x : x = row.tx
      OBVIOUS
    <3>1. x \in Item /\ row.type \in Types
      BY <2>2, NoRowFacts
    <3>2. Outs(x) \in SUBSET Outpoint /\ Ins(x) \in SUBSET Outpoint
      BY <3>1, AffectedFacts
    <3>3. /\ OutsOf(Entries(Outs(x)), a) = {o \in Outs(x) : Pays(o, a)}
          /\ OutsOf(Entries(Ins(x)), a) = {o \in Ins(x) : Pays(o, a)}
          /\ OutsOf({}, a) = {}
      BY <3>2, OutsOfEntries
    <3>4. CASE row.type = "accept"
      <4>1. Full(g) = Entries(Outs(x)) /\ Full(l) = Entries(Ins(x))
        BY <2>2, <3>4, FullFacts DEF Gain, Loss
      <4> QED BY <3>2, <3>3, <3>4, <4>1 DEF UnspentOf, SpentInv, SpentOK
    <3>5. CASE row.type = "reject"
      <4>1. Full(l) = Entries(Outs(x)) /\ Full(g) = Entries(Ins(x))
        BY <2>2, <3>5, FullFacts DEF Gain, Loss
      <4> QED BY <3>2, <3>3, <3>5, <4>1 DEF UnspentOf, SpentInv, SpentOK
    <3>6. CASE row.type \notin {"accept", "reject"}
      <4>1. Full(l) = {} /\ Full(g) = {}
        BY <2>2, <3>6, FullFacts DEF Gain, Loss
      <4> QED BY <3>3, <4>1
    <3> QED BY <3>4, <3>5, <3>6
  <2> QED BY <1>1, <2>1, <2>2
<1>3. Rest(g) \subseteq Full(g) /\ Rest(l) \subseteq Full(l)
  BY <1>1, RestInFull
<1>4. /\ OutsOf(Rest(g), a) \subseteq OutsOf(Full(g), a) /\ OutsOf(Full(g), a) \subseteq Outpoint
      /\ OutsOf(Rest(l), a) \subseteq OutsOf(Full(l), a) /\ OutsOf(Full(l), a) \subseteq Outpoint
  BY <1>3, OutsOfWithin
<1>5. U \in SUBSET Outpoint
  BY DEF UnspentOf
<1> QED BY <1>2, <1>4, <1>5 DEF PendingOK

\* The indices of the unspent outputs at the start: 0, 1, ..., each once.
LEMMA OldIndexFacts ==
    ASSUME NEW a, NEW S, S = OldEntries(a), NEW c, c = Cardinality(S), NEW f, f = OldIndex(a)
    PROVE  /\ S \in SUBSET Outpoint /\ c \in Nat /\ f \in [S -> 0..(c - 1)]
           /\ \A o, p \in S : o # p => f[o] # f[p]
           /\ \A n \in 0..(c - 1) : \E o \in S : f[o] = n
<1>0. S \in SUBSET Outpoint
  BY AddressAssumption DEF OldEntries
<1>1. IsFiniteSet(S) /\ c \in Nat /\ ExistsBijection(1..c, S)
  BY <1>0, AddressAssumption, FS_Subset, FS_CardinalityType
<1>2. PICK b : b \in Bijection(1..c, S)
  BY <1>1 DEF ExistsBijection
<1>3. /\ b \in [1..c -> S] /\ (\A i, j \in 1..c : b[i] = b[j] => i = j)
      /\ (\A o \in S : \E i \in 1..c : b[i] = o)
  BY <1>2 DEF Bijection, Injection, Surjection, IsInjective
<1> DEFINE at(o) == CHOOSE i \in 1..c : b[i] = o
           h == [o \in S |-> at(o) - 1]
<1>4. \A o \in S : at(o) \in 1..c /\ b[at(o)] = o
  BY <1>3
<1> HIDE DEF at
<1>5. h \in [S -> 0..(c - 1)]
  <2>1. \A o \in S : at(o) - 1 \in 0..(c - 1)
    BY <1>1, <1>4
  <2> QED BY <2>1
<1>6. \A o, p \in S : o # p => h[o] # h[p]
  <2> SUFFICES ASSUME NEW o \in S, NEW p \in S, h[o] = h[p] PROVE o = p
    OBVIOUS
  <2>1. at(o) = at(p)
    BY <1>1, <1>4
  <2> QED BY <1>4, <2>1
<1> HIDE DEF h
<1>7. f \in [S -> 0..(c - 1)] /\ \A o, p \in S : o # p => f[o] # f[p]
  <2>1. /\ h \in [OldEntries(a) -> 0..(Cardinality(OldEntries(a)) - 1)]
        /\ \A o, p \in OldEntries(a) : o # p => h[o] # h[p]
    BY <1>5, <1>6
  <2>2. /\ OldIndex(a) \in [OldEntries(a) -> 0..(Cardinality(OldEntries(a)) - 1)]
        /\ \A o, p \in OldEntries(a) : o # p => OldIndex(a)[o] # OldIndex(a)[p]
    BY <2>1 DEF OldIndex
  <2> QED BY <2>2
<1>8. f \in Injection(S, 0..(c - 1))
  BY <1>7 DEF Injection, IsInjective
<1>9. IsFiniteSet(0..(c - 1)) /\ Cardinality(0..(c - 1)) = c
  <2>1. 0 \in Int /\ c - 1 \in Int
    BY <1>1
  <2>2. /\ IsFiniteSet(0..(c - 1))
        /\ Cardinality(0..(c - 1)) = IF 0 > c - 1 THEN 0 ELSE (c - 1) - 0 + 1
    BY <2>1, FS_Interval
  <2> QED BY <1>1, <2>2
<1>10. f \in Surjection(S, 0..(c - 1))
  BY <1>8, <1>9, FS_Injection
<1>11. \A n \in 0..(c - 1) : \E o \in S : f[o] = n
  BY <1>10 DEF Surjection
<1> QED BY <1>0, <1>1, <1>7, <1>11

\* The store at the start has the unspent outputs.
LEMMA UnspentInit ==
    ASSUME Init PROVE UnspentInv
<1>1. /\ store = InitStore /\ row = NoRow /\ pc = "idle" /\ cache = <<>>
      /\ state = [x \in Item |-> "absent"]
  BY DEF Init, Ledger!LedgerInit, Item
<1>2. \A p : Rest(p) = {}
  BY <1>1 DEF Rest, Phases
<1>3. \A x \in Item : state[x] = "absent"
  BY <1>1
<1>4. UnspentIn(state) = OldOut
  BY <1>3 DEF UnspentIn, Created, SpentIn
<1>5. \A a : UnspentOf(state, a) = OldEntries(a)
  BY <1>4, AddressAssumption DEF UnspentOf, OldEntries, Pays
<1>6. ASSUME NEW a \in Address
      PROVE  UnspentBy(store, state, GetAddressInfo(a), a, {}, {}, "none")
  <2> PICK S, c, f : S = OldEntries(a) /\ c = Cardinality(S) /\ f = OldIndex(a)
    OBVIOUS
  <2>2. /\ S \in SUBSET Outpoint /\ c \in Nat /\ f \in [S -> 0..(c - 1)]
        /\ \A o, p \in S : o # p => f[o] # f[p]
        /\ \A n \in 0..(c - 1) : \E o \in S : f[o] = n
    BY OldIndexFacts
  <2> PICK K, X, i : K = store.unspent[a] /\ X = store.unspentIdx[a] /\ i = GetAddressInfo(a)
    OBVIOUS
  <2>3. DOMAIN K = 0..(c - 1) /\ \A n \in 0..(c - 1) : K[n] \in S /\ f[K[n]] = n
    <3>1. store.unspent[a] = [n \in 0..(Cardinality(OldEntries(a)) - 1) |->
                                CHOOSE o \in OldEntries(a) : OldIndex(a)[o] = n]
      BY <1>1 DEF InitStore
    <3>2. \A n \in 0..(Cardinality(OldEntries(a)) - 1) :
            \E o \in OldEntries(a) : OldIndex(a)[o] = n
      BY <2>2
    <3>3. /\ DOMAIN store.unspent[a] = 0..(Cardinality(OldEntries(a)) - 1)
          /\ \A n \in 0..(Cardinality(OldEntries(a)) - 1) :
                /\ store.unspent[a][n] \in OldEntries(a)
                /\ OldIndex(a)[store.unspent[a][n]] = n
      BY <3>1, <3>2
    <3> QED BY <3>3
  <2>4. \A o \in Outpoint : X[o] = IF o \in S THEN f[o] ELSE -1
    BY <1>1 DEF InitStore
  <2>5. i.unspentTxCount = c /\ i.unspentTxIndex = c - 1
    <3>1. DOMAIN cache = {}
      BY <1>1
    <3>2. i = store.addr[a]
      BY <3>1 DEF GetAddressInfo
    <3>3. i = [NewInfo EXCEPT !.unspentTxCount = c, !.unspentTxIndex = c - 1]
      BY <1>1, <3>2 DEF InitStore
    <3> QED BY <3>3 DEF NewInfo
  <2>7. ASSUME NEW o \in Outpoint \ {}
        PROVE  IF o \in S \cup {} THEN X[o] \in DOMAIN K /\ X[o] <= c - 1 /\ K[X[o]] = o ELSE X[o] = -1
    <3>1. CASE o \in S
      <4>1. X[o] = f[o] /\ f[o] \in 0..(c - 1)
        BY <2>2, <2>4, <3>1
      <4>2. K[f[o]] = o
        BY <2>2, <2>3, <3>1, <4>1
      <4> QED BY <2>2, <2>3, <3>1, <4>1, <4>2
    <3>2. CASE o \notin S
      BY <2>4, <3>2
    <3> QED BY <3>1, <3>2
  <2>8. \A n \in DOMAIN K : n <= c - 1 => K[n] \in Outpoint \ {} /\ X[K[n]] = n
    BY <2>2, <2>3, <2>4
  <2>9. \A n \in DOMAIN K : n <= (c - 1) + Cardinality({})
    <3>1. Cardinality({}) = 0
      BY FS_EmptySet
    <3> QED BY <2>2, <2>3, <3>1
  <2>10. DOMAIN K \subseteq Nat /\ c - 1 \in Nat \cup {-1}
    BY <2>2, <2>3
  <2>11. UnspentAt(K, X, c - 1, {}, {}, S)
    BY <2>7, <2>8, <2>9, <2>10 DEF UnspentAt
  <2>12. CountedAt(c, {}, 0, S)
    <3>1. Cardinality({}) = 0
      BY FS_EmptySet
    <3>2. c + 0 - 0 >= c
      BY <2>2
    <3> QED BY <2>2, <3>1, <3>2 DEF CountedAt
  <2>13. OutsOf({}, a) = {}
    BY DEF OutsOf
  <2> QED BY <1>5, <2>5, <2>11, <2>12, <2>13 DEF UnspentBy
<1>7. Rest(Gain(row)) = {} /\ Rest(Loss(row)) = {} /\ row.type = "none"
  BY <1>1, <1>2 DEF NoRow
<1>8. UnspentNow
  BY <1>6, <1>7 DEF UnspentNow
<1>9. pc \notin Phases
  BY <1>1 DEF Phases
<1> QED BY <1>8, <1>9 DEF UnspentInv

\* The round e, which concerns the output o of a, while g are the insertions and l
\* the deletions.
UnspentRound(e, a, o, g, l) ==
    /\ row' = row /\ state' = state /\ torn' = torn /\ pc \in Phases /\ row \in Rows
    /\ row.type \in {"accept", "reject"} /\ pc \in {g, l} /\ g # l
    /\ Gain(row)' = g /\ Loss(row)' = l
    /\ \A p : Full(p)' = Full(p)
    /\ \A p : Rest(p)' = IF p = pc THEN Rest(p) \ {e} ELSE Rest(p)
    /\ o \in OutsOf(Rest(pc), a) /\ OutsOf(Rest(pc) \ {e}, a) = OutsOf(Rest(pc), a) \ {o}
    /\ \A b \in Address : b # a => OutsOf(Rest(pc) \ {e}, b) = OutsOf(Rest(pc), b)
    /\ Resumable' => Resumable /\ pc # l
    /\ UnspentNow /\ (Resumable => UnspentAgain)
    /\ a \in Address /\ o \in Outpoint
    /\ OutsOf(Rest(pc), a) \subseteq OutsOf(Full(pc), a)

\* What a round of the phases of unspent outputs finds and leaves to do.
LEMMA AtUnspent ==
    ASSUME PaysOnce, CacheInv, UnspentInv, ~torn, pc \in {"outputs", "inputs"}, NEW e, e = Round,
           Done(e), NEW a, a = AddressOf(e), NEW o, o = e[1],
           NEW g, g = Gain(row), NEW l, l = Loss(row)
    PROVE  UnspentRound(e, a, o, g, l)
<1>1. pc \in Phases /\ pc # "save" /\ pc # "aborted" /\ e \in todo
  BY AtUnspentRound DEF Phases
<1>2. /\ row' = row /\ torn' = torn /\ state' = state /\ row \in Rows
      /\ \A p : Full(p)' = Full(p)
      /\ \A p : Rest(p)' = IF p = pc THEN Rest(p) \ {e} ELSE Rest(p)
      /\ Rest(pc) = todo
  BY <1>1, RoundDone
<1>3. row.type \in {"accept", "reject"}
  BY <1>1, PhaseType
<1>4. pc \in {g, l} /\ g # l
  BY <1>3 DEF Gain, Loss
<1>5. Gain(row)' = g /\ Loss(row)' = l
  BY <1>2 DEF Gain, Loss
<1>6. Resumable' => Resumable /\ pc # l
  <2> SUFFICES ASSUME Resumable' PROVE Resumable /\ pc # l
    OBVIOUS
  <2>1. InPhase
    BY <1>1, AtPhase
  <2>2. Resumable /\ pc \in {Program[row.type][1], Program[row.type][2]}
    BY <1>1, <2>1, ResumableStep
  <2>3. row.type = "accept" => pc # l
    BY <2>2, FirstPhases DEF Loss
  <2>4. row.type = "reject" => pc # l
    BY <2>2, FirstPhases DEF Loss
  <2> QED BY <1>3, <2>2, <2>3, <2>4
<1>7. UnspentNow /\ (Resumable => UnspentAgain)
  BY <1>1 DEF UnspentInv
<1>8. a \in Address /\ o \in Outpoint
  BY AtUnspentRound
<1>9. Rest(pc) \subseteq Full(pc)
  BY RestInFull DEF CacheInv
<1>10. PICK O \in SUBSET Outpoint : Full(pc) = Entries(O)
  <2>1. row.tx \in Item
    BY <1>2, NoRowFacts
  <2>2. Outs(row.tx) \in SUBSET Outpoint /\ Ins(row.tx) \in SUBSET Outpoint
    BY <2>1, AffectedFacts
  <2>3. Full("outputs") = Entries(Outs(row.tx)) /\ Full("inputs") = Entries(Ins(row.tx))
    BY <1>2, <1>3, FullFacts
  <2> QED BY <2>2, <2>3
<1>11. /\ o \in OutsOf(Rest(pc), a) /\ OutsOf(Rest(pc) \ {e}, a) = OutsOf(Rest(pc), a) \ {o}
       /\ \A b : b # a => OutsOf(Rest(pc) \ {e}, b) = OutsOf(Rest(pc), b)
  <2> PICK E : E = Rest(pc)
    OBVIOUS
  <2>1. E \in SUBSET Entries(O) /\ e \in E
    BY <1>1, <1>2, <1>9, <1>10
  <2>2. /\ e[1] \in OutsOf(E, AddressOf(e))
        /\ OutsOf(E \ {e}, AddressOf(e)) = OutsOf(E, AddressOf(e)) \ {e[1]}
        /\ \A b : b # AddressOf(e) => OutsOf(E \ {e}, b) = OutsOf(E, b)
    BY <2>1, OutsOfRemove
  <2> QED BY <2>2
<1>12. OutsOf(Rest(pc), a) \subseteq OutsOf(Full(pc), a)
  BY <1>9, OutsOfWithin
<1> QED BY <1>1, <1>2, <1>3, <1>4, <1>5, <1>6, <1>7, <1>8, <1>11, <1>12 DEF UnspentRound

\* A round that concerns no unspent output of the address, or none at all.
LEMMA UnspentKeep ==
    ASSUME NEW st, NEW q, NEW s, NEW i, NEW j, NEW a, NEW G, NEW L, NEW type,
           UnspentBy(st, s, i, a, G, L, type),
           q.unspent[a] = st.unspent[a], q.unspentIdx[a] = st.unspentIdx[a], SameUnspent(i, j),
           NEW H, NEW M, OutsOf(H, a) = OutsOf(G, a), OutsOf(M, a) = OutsOf(L, a)
    PROVE  UnspentBy(q, s, j, a, H, M, type)
BY DEF UnspentBy, SameUnspent

\* A round of another phase.
LEMMA UnspentCalm ==
    ASSUME CacheInv, UnspentInv, ~torn, KeptUnspent(store, store'),
           \A b \in Address : SameUnspent(GetAddressInfo(b), GetAddressInfo(b)'),
           pc \in Phases, pc \notin {"outputs", "inputs", "save"},
           pc # "flush" => store'.addr = store.addr, NEW e \in todo, Done(e)
    PROVE  UnspentInv'
<1> PICK g, l : g = Gain(row) /\ l = Loss(row)
  OBVIOUS
<1>1. pc # "aborted" /\ g # pc /\ l # pc
  BY DEF Phases, Gain, Loss
<1>2. /\ row' = row /\ state' = state /\ torn' = torn
      /\ Full(g)' = Full(g) /\ Full(l)' = Full(l)
      /\ Rest(g)' = Rest(g) /\ Rest(l)' = Rest(l)
      /\ Resumable' => Resumable /\ pc # "flush"
  BY <1>1, RoundDone
<1>3. Gain(row)' = g /\ Loss(row)' = l
  BY <1>2 DEF Gain, Loss
<1>4. /\ Rest(Gain(row))' = Rest(g) /\ Rest(Loss(row))' = Rest(l)
      /\ Full(Gain(row))' = Full(g) /\ Full(Loss(row))' = Full(l)
  BY <1>2, <1>3 DEF Gain, Loss
<1>5. UnspentNow /\ (Resumable => UnspentAgain)
  BY <1>1 DEF UnspentInv
<1>6. ASSUME NEW a \in Address
      PROVE  store'.unspent[a] = store.unspent[a] /\ store'.unspentIdx[a] = store.unspentIdx[a]
  BY DEF KeptUnspent
<1>7. UnspentNow'
  <2> SUFFICES ASSUME NEW a \in Address
               PROVE  UnspentBy(store', state', GetAddressInfo(a)', a, Rest(Gain(row))',
                                Rest(Loss(row))', row'.type)
    BY DEF UnspentNow
  <2>1. UnspentBy(store, state, GetAddressInfo(a), a, Rest(g), Rest(l), row.type)
    BY <1>5 DEF UnspentNow
  <2>2. SameUnspent(GetAddressInfo(a), GetAddressInfo(a)')
    OBVIOUS
  <2>3. UnspentBy(store', state, GetAddressInfo(a)', a, Rest(g), Rest(l), row.type)
    BY <1>6, <2>1, <2>2, UnspentKeep
  <2> QED BY <1>2, <1>4, <2>3
<1>8. ASSUME Resumable' PROVE UnspentAgain'
  <2> SUFFICES ASSUME NEW a \in Address
               PROVE  /\ UnspentBy(store', state', store'.addr[a], a, Full(Gain(row))',
                                   Full(Loss(row))', row'.type)
                      /\ GetAddressInfo(a)'.unspentTxIndex + Cardinality(OutsOf(Rest(Gain(row))', a)) =
                           store'.addr[a].unspentTxIndex + Cardinality(OutsOf(Full(Gain(row))', a))
    BY DEF UnspentAgain, OutsOf
  <2>1. store'.addr = store.addr /\ Resumable
    BY <1>2, <1>8
  <2>2. /\ UnspentBy(store, state, store.addr[a], a, Full(g), Full(l), row.type)
        /\ GetAddressInfo(a).unspentTxIndex + Cardinality(OutsOf(Rest(g), a)) =
             store.addr[a].unspentTxIndex + Cardinality(OutsOf(Full(g), a))
    BY <1>5, <2>1 DEF UnspentAgain
  <2>3. SameUnspent(store.addr[a], store.addr[a])
    BY DEF SameUnspent
  <2>4. UnspentBy(store', state, store.addr[a], a, Full(g), Full(l), row.type)
    BY <1>6, <2>2, <2>3, UnspentKeep
  <2>5. GetAddressInfo(a)'.unspentTxIndex = GetAddressInfo(a).unspentTxIndex
    BY DEF SameUnspent
  <2> QED BY <1>2, <1>4, <2>1, <2>2, <2>4, <2>5
<1> QED BY <1>7, <1>8 DEF UnspentInv

\* _acceptTx_insertAddressUnspent(), for a new output or one that is unspent again.
LEMMA UnspentInserted ==
    ASSUME StillWhole, PaysOnce, CacheInv, BookInv, SpentInv, UnspentInv, ~torn,
           AcceptOutput \/ RejectInput
    PROVE  UnspentInv'
<1> PICK e, g, l : e = Round /\ g = Gain(row) /\ l = Loss(row)
  OBVIOUS
<1> PICK a, o, old : a = AddressOf(e) /\ o = e[1] /\ old = GetAddressInfo(a)
  OBVIOUS
<1>1. pc \in {"outputs", "inputs"} /\ InsertAddressUnspent(e) /\ Done(e) /\ pc = g
  BY DEF AcceptOutput, RejectInput, In, Gain
<1>2. /\ row' = row /\ state' = state /\ torn' = torn /\ pc \in Phases /\ g # l
      /\ Gain(row)' = g /\ Loss(row)' = l
      /\ Full(g)' = Full(g) /\ Full(l)' = Full(l)
      /\ Rest(g)' = Rest(g) \ {e} /\ Rest(l)' = Rest(l)
      /\ o \in OutsOf(Rest(g), a) /\ OutsOf(Rest(g) \ {e}, a) = OutsOf(Rest(g), a) \ {o}
      /\ \A b \in Address : b # a => OutsOf(Rest(g) \ {e}, b) = OutsOf(Rest(g), b)
      /\ Resumable' => Resumable
      /\ UnspentNow /\ (Resumable => UnspentAgain)
      /\ a \in Address /\ o \in Outpoint
      /\ OutsOf(Rest(g), a) \subseteq OutsOf(Full(g), a)
  <2>1. UnspentRound(e, a, o, g, l)
    BY <1>1, AtUnspent
  <2> QED BY <1>1, <2>1 DEF UnspentRound
<1>3. /\ Rest(Gain(row))' = Rest(g) \ {e} /\ Rest(Loss(row))' = Rest(l)
      /\ Full(Gain(row))' = Full(g) /\ Full(Loss(row))' = Full(l)
  BY <1>2 DEF Gain, Loss
<1>4. ShapeOK(store) /\ StoreOK(store) /\ InfoOK(old)
  BY <1>1, <1>2, AtUnspentRound DEF BookInv, Books, Phases
<1> PICK n, info : /\ n = old.unspentTxIndex + 1
                   /\ info = [old EXCEPT !.unspentTxIndex = @ + 1, !.unspentTxCount = @ + 1]
  OBVIOUS
<1>5. /\ store'.addr = store.addr /\ OneInfo(a, info)
      /\ store'.unspentIdx = [store.unspentIdx EXCEPT ![a][o] = n]
      /\ store'.unspent = [store.unspent EXCEPT ![a] = With(@, n, o)]
  <2>1. AddressOf(e) \in Address /\ e[1] \in Outpoint
    BY <1>2
  <2>2. store'.addr = store.addr /\ OneInfo(a, info)
    BY <1>1, <1>4, <2>1, InsertEffect
  <2>3. info.unspentTxIndex = n
    BY <1>4 DEF InfoOK
  <2>4. store' = [store EXCEPT !.unspentIdx[a][o] = n, !.unspent[a] = With(@, n, o)]
    BY <1>1, <2>3 DEF InsertAddressUnspent
  <2> QED BY <1>4, <2>2, <2>4 DEF StoreOK
<1> PICK K, X : K = store.unspent[a] /\ X = store.unspentIdx[a]
  OBVIOUS
<1>6. /\ store'.unspentIdx[a] = [X EXCEPT ![o] = n] /\ store'.unspent[a] = With(K, n, o)
      /\ DOMAIN X = Outpoint
      /\ \A b \in Address : b # a => /\ store'.unspentIdx[b] = store.unspentIdx[b]
                                     /\ store'.unspent[b] = store.unspent[b]
  BY <1>2, <1>4, <1>5 DEF ShapeOK, StoreOK
<1>7. /\ GetAddressInfo(a)' = info
      /\ \A b \in Address : b # a => SameUnspent(GetAddressInfo(b), GetAddressInfo(b)')
  BY <1>2, <1>5 DEF OneInfo, SameUnspent
<1>8. /\ info.unspentTxIndex = n /\ info.unspentTxCount = old.unspentTxCount + 1
      /\ n \in Nat /\ old.unspentTxIndex \in Nat \cup {-1}
  BY <1>4 DEF InfoOK
<1> PICK U, I, D, F, H : /\ U = UnspentOf(state, a) /\ I = OutsOf(Rest(g), a)
                         /\ D = OutsOf(Rest(l), a) /\ F = OutsOf(Full(g), a)
                         /\ H = OutsOf(Full(l), a)
  OBVIOUS
<1>9. PendingOK(F, H, U) /\ PendingOK(I, D, U) /\ U \in SUBSET Outpoint /\ o \in I /\ I \subseteq F
  BY <1>2, PendingFacts
<1>10. UnspentNow'
  <2> SUFFICES ASSUME NEW b \in Address
               PROVE  UnspentBy(store', state', GetAddressInfo(b)', b, Rest(Gain(row))',
                                Rest(Loss(row))', row'.type)
    BY DEF UnspentNow
  <2>1. UnspentBy(store, state, GetAddressInfo(b), b, Rest(g), Rest(l), row.type)
    BY <1>2 DEF UnspentNow
  <2>2. CASE b = a
    <3> PICK d : d = IF row.type = "accept" THEN Cardinality(D) ELSE 0
      OBVIOUS
    <3>1. UnspentAt(K, X, old.unspentTxIndex, I, D, U) /\ CountedAt(old.unspentTxCount, I, d, U)
      BY <2>1, <2>2 DEF UnspentBy
    <3>2. UnspentAt(With(K, n, o), [X EXCEPT ![o] = n], n, I \ {o}, D, U)
      BY <1>6, <1>9, <3>1, UnspentInsert
    <3>3. D \in SUBSET Outpoint /\ I \in SUBSET Outpoint
      BY DEF OutsOf
    <3>4. d \in Int
      BY <3>3, OutputsFinite
    <3>5. CountedAt(old.unspentTxCount + 1, I \ {o}, d, U)
      BY <1>9, <3>1, <3>3, <3>4, CountedInsert
    <3>6. OutsOf(Rest(g) \ {e}, a) = I \ {o}
      BY <1>2
    <3>7. UnspentBy(store', state, info, a, Rest(g) \ {e}, Rest(l), row.type)
      BY <1>6, <1>8, <3>2, <3>5, <3>6 DEF UnspentBy
    <3> QED BY <1>2, <1>3, <1>7, <2>2, <3>7
  <2>3. CASE b # a
    <3>1. OutsOf(Rest(g) \ {e}, b) = OutsOf(Rest(g), b)
      BY <1>2, <2>3
    <3>2. SameUnspent(GetAddressInfo(b), GetAddressInfo(b)')
      BY <1>7, <2>3
    <3>3. UnspentBy(store', state, GetAddressInfo(b)', b, Rest(g) \ {e}, Rest(l), row.type)
      BY <1>6, <2>1, <2>3, <3>1, <3>2, UnspentKeep
    <3> QED BY <1>2, <1>3, <3>3
  <2> QED BY <2>2, <2>3
<1>11. ASSUME Resumable' PROVE UnspentAgain'
  <2> SUFFICES ASSUME NEW b \in Address
               PROVE  /\ UnspentBy(store', state', store'.addr[b], b, Full(Gain(row))',
                                   Full(Loss(row))', row'.type)
                      /\ GetAddressInfo(b)'.unspentTxIndex + Cardinality(OutsOf(Rest(Gain(row))', b)) =
                           store'.addr[b].unspentTxIndex + Cardinality(OutsOf(Full(Gain(row))', b))
    BY DEF UnspentAgain, OutsOf
  <2>1. /\ UnspentBy(store, state, store.addr[b], b, Full(g), Full(l), row.type)
        /\ GetAddressInfo(b).unspentTxIndex + Cardinality(OutsOf(Rest(g), b)) =
             store.addr[b].unspentTxIndex + Cardinality(OutsOf(Full(g), b))
    BY <1>2, <1>11 DEF UnspentAgain
  <2>2. CASE b = a
    <3> PICK m, i, f, j : /\ m = store.addr[a].unspentTxIndex /\ i = Cardinality(I)
                          /\ f = Cardinality(F) /\ j = Cardinality(I \ {o})
      OBVIOUS
    <3>1. m \in Nat \cup {-1}
      BY <1>2, <1>4 DEF StoreOK, InfoOK
    <3>2. I \in SUBSET Outpoint /\ F \in SUBSET Outpoint
      BY DEF OutsOf
    <3>3. /\ i \in Nat /\ f \in Nat /\ i >= 1 /\ j = i - 1 /\ i <= f
      <4>1. i \in Nat /\ f \in Nat /\ i >= 1 /\ j = i - 1
        BY <1>9, <3>2, OutputsFinite
      <4>2. i <= f
        BY <1>9, <3>2, OutputsFinite, FS_Subset
      <4> QED BY <4>1, <4>2
    <3>4. old.unspentTxIndex + i = m + f
      BY <2>1, <2>2
    <3>5. n + j = m + f /\ n > m /\ n <= m + f
      BY <1>8, <3>1, <3>3, <3>4
    <3>6. UnspentAt(K, X, m, F, H, U)
      BY <2>1, <2>2 DEF UnspentBy
    <3>7. UnspentAt(With(K, n, o), [X EXCEPT ![o] = n], m, F, H, U)
      BY <1>6, <1>8, <1>9, <3>5, <3>6, UnspentInsertAgain
    <3>8. UnspentBy(store', state, store.addr[a], a, Full(g), Full(l), row.type)
      BY <1>6, <2>1, <2>2, <3>7 DEF UnspentBy
    <3>9. OutsOf(Rest(g) \ {e}, a) = I \ {o}
      BY <1>2
    <3> QED BY <1>2, <1>3, <1>5, <1>7, <1>8, <2>2, <3>5, <3>8, <3>9
  <2>3. CASE b # a
    <3>1. SameUnspent(store.addr[b], store.addr[b])
      BY DEF SameUnspent
    <3>2. UnspentBy(store', state, store.addr[b], b, Full(g), Full(l), row.type)
      BY <1>6, <2>1, <2>3, <3>1, UnspentKeep
    <3>3. GetAddressInfo(b)'.unspentTxIndex = GetAddressInfo(b).unspentTxIndex
      BY <1>7, <2>3 DEF SameUnspent
    <3>4. OutsOf(Rest(g) \ {e}, b) = OutsOf(Rest(g), b)
      BY <1>2, <2>3
    <3> QED BY <1>2, <1>3, <1>5, <2>1, <3>2, <3>3, <3>4
  <2> QED BY <2>2, <2>3
<1> QED BY <1>10, <1>11 DEF UnspentInv

\* A deletion, by acceptTx() or by rejectTx(): the row cannot be repeated any more.
LEMMA UnspentDeleted ==
    ASSUME StillWhole, PaysOnce, CacheInv, BookInv, SpentInv, UnspentInv, ~torn,
           AcceptInput \/ RejectOutput
    PROVE  UnspentInv'
<1> PICK e, g, l : e = Round /\ g = Gain(row) /\ l = Loss(row)
  OBVIOUS
<1> PICK a, o, old : a = AddressOf(e) /\ o = e[1] /\ old = GetAddressInfo(a)
  OBVIOUS
<1>1. pc \in {"outputs", "inputs"} /\ DeleteUnspent(e) /\ Done(e) /\ pc = l
  BY DEF AcceptInput, RejectOutput, In, Loss
<1>2. /\ row' = row /\ state' = state /\ torn' = torn /\ pc \in Phases /\ g # l
      /\ Gain(row)' = g /\ Loss(row)' = l
      /\ Rest(g)' = Rest(g) /\ Rest(l)' = Rest(l) \ {e}
      /\ o \in OutsOf(Rest(l), a) /\ OutsOf(Rest(l) \ {e}, a) = OutsOf(Rest(l), a) \ {o}
      /\ \A b \in Address : b # a => OutsOf(Rest(l) \ {e}, b) = OutsOf(Rest(l), b)
      /\ ~Resumable'
      /\ UnspentNow
      /\ a \in Address /\ o \in Outpoint
  <2>1. UnspentRound(e, a, o, g, l)
    BY <1>1, AtUnspent
  <2> QED BY <1>1, <2>1 DEF UnspentRound
<1>3. Rest(Gain(row))' = Rest(g) /\ Rest(Loss(row))' = Rest(l) \ {e}
  BY <1>2 DEF Gain, Loss
<1>4. ShapeOK(store) /\ StoreOK(store) /\ InfoOK(old)
  BY <1>1, <1>2, AtUnspentRound DEF BookInv, Books, Phases
<1> PICK K, X : K = store.unspent[a] /\ X = store.unspentIdx[a]
  OBVIOUS
<1>5. /\ store'.addr = store.addr
      /\ store'.unspentIdx[a] = [X EXCEPT ![o] = -1] /\ store'.unspent[a] = Without(K, X[o])
      /\ DOMAIN X = Outpoint
      /\ \A b \in Address : b # a => /\ store'.unspentIdx[b] = store.unspentIdx[b]
                                     /\ store'.unspent[b] = store.unspent[b]
  <2> PICK n : n = X[o]
    OBVIOUS
  <2>1. store' = [store EXCEPT !.unspent[a] = Without(@, n), !.unspentIdx[a][o] = -1]
    BY <1>1 DEF DeleteUnspent
  <2>2. /\ store'.addr = store.addr
        /\ store'.unspentIdx = [store.unspentIdx EXCEPT ![a][o] = -1]
        /\ store'.unspent = [store.unspent EXCEPT ![a] = Without(@, n)]
    BY <1>4, <2>1 DEF StoreOK
  <2> QED BY <1>2, <1>4, <2>2 DEF StoreOK, ShapeOK
<1> PICK info : info = IF row.type = "accept" THEN [old EXCEPT !.unspentTxCount = @ - 1] ELSE old
  OBVIOUS
<1>6. OneInfo(a, info)
  <2>1. CASE AcceptInput
    <3>1. row.type = "accept"
      BY <2>1 DEF AcceptInput, In
    <3>2. Put(a, info)
      BY <2>1, <3>1 DEF AcceptInput
    <3> QED BY <1>2, <1>5, <3>2, PutInfo DEF OneInfo
  <2>2. CASE RejectOutput
    <3>1. row.type # "accept" /\ cache' = cache
      BY <2>2 DEF RejectOutput, In, KeepCache
    <3>2. \A b \in Address : GetAddressInfo(b)' = GetAddressInfo(b)
      BY <1>5, <3>1, KeepInfo
    <3> QED BY <3>1, <3>2 DEF OneInfo
  <2> QED BY <2>1, <2>2
<1>7. /\ GetAddressInfo(a)' = info
      /\ \A b \in Address : b # a => SameUnspent(GetAddressInfo(b), GetAddressInfo(b)')
  BY <1>2, <1>6 DEF OneInfo, SameUnspent
<1>8. /\ info.unspentTxIndex = old.unspentTxIndex
      /\ row.type = "accept" => info.unspentTxCount = old.unspentTxCount - 1
      /\ row.type # "accept" => info.unspentTxCount = old.unspentTxCount
  BY <1>4 DEF InfoOK
<1> PICK U, I, D : /\ U = UnspentOf(state, a) /\ I = OutsOf(Rest(g), a) /\ D = OutsOf(Rest(l), a)
  OBVIOUS
<1>9. PendingOK(I, D, U) /\ U \in SUBSET Outpoint /\ o \in D
  BY <1>2, PendingFacts
<1>10. UnspentNow'
  <2> SUFFICES ASSUME NEW b \in Address
               PROVE  UnspentBy(store', state', GetAddressInfo(b)', b, Rest(Gain(row))',
                                Rest(Loss(row))', row'.type)
    BY DEF UnspentNow
  <2>1. UnspentBy(store, state, GetAddressInfo(b), b, Rest(g), Rest(l), row.type)
    BY <1>2 DEF UnspentNow
  <2>2. CASE b = a
    <3>1. /\ UnspentAt(K, X, old.unspentTxIndex, I, D, U)
          /\ CountedAt(old.unspentTxCount, I,
                       IF row.type = "accept" THEN Cardinality(D) ELSE 0, U)
      BY <2>1, <2>2 DEF UnspentBy
    <3>2. UnspentAt(Without(K, X[o]), [X EXCEPT ![o] = -1], old.unspentTxIndex, I, D \ {o}, U)
      BY <1>5, <1>9, <3>1, UnspentDelete
    <3>3. D \in SUBSET Outpoint /\ I \in SUBSET Outpoint
      BY DEF OutsOf
    <3>4. CountedAt(info.unspentTxCount, I,
                    IF row.type = "accept" THEN Cardinality(D \ {o}) ELSE 0, U)
      <4>1. CASE row.type = "accept"
        <5>1. CountedAt(old.unspentTxCount, I, Cardinality(D), U)
          BY <3>1, <4>1
        <5>2. CountedAt(old.unspentTxCount - 1, I, Cardinality(D \ {o}), U)
          BY <1>9, <3>3, <5>1, CountedDelete
        <5> QED BY <1>8, <4>1, <5>2
      <4>2. CASE row.type # "accept"
        BY <1>8, <3>1, <4>2
      <4> QED BY <4>1, <4>2
    <3>5. OutsOf(Rest(l) \ {e}, a) = D \ {o}
      BY <1>2
    <3>6. UnspentBy(store', state, info, a, Rest(g), Rest(l) \ {e}, row.type)
      BY <1>5, <1>8, <3>2, <3>4, <3>5 DEF UnspentBy
    <3> QED BY <1>2, <1>3, <1>7, <2>2, <3>6
  <2>3. CASE b # a
    <3>1. OutsOf(Rest(l) \ {e}, b) = OutsOf(Rest(l), b)
      BY <1>2, <2>3
    <3>2. SameUnspent(GetAddressInfo(b), GetAddressInfo(b)')
      BY <1>7, <2>3
    <3>3. UnspentBy(store', state, GetAddressInfo(b)', b, Rest(g), Rest(l) \ {e}, row.type)
      <4>1. store'.unspent[b] = store.unspent[b] /\ store'.unspentIdx[b] = store.unspentIdx[b]
        BY ONLY <1>5, <2>3, b \in Address
      <4> QED BY ONLY <2>1, <3>1, <3>2, <4>1, UnspentKeep
    <3> QED BY <1>2, <1>3, <3>3
  <2> QED BY <2>2, <2>3
<1> QED BY <1>2, <1>10 DEF UnspentInv

\* A row is taken: what it creates or restores has still to be inserted.
LEMMA UnspentTakes ==
    ASSUME NEW st, NEW i, NEW a, NEW s, NEW b, NEW u, NEW d, NEW type \in Types, NEW x \in Item,
           Takes(s, b, u, d, type, x), NEW type0, UnspentBy(st, s, i, a, {}, {}, type0),
           NEW G, NEW L,
           type = "accept" => G = Entries(Outs(x)) /\ L = Entries(Ins(x)),
           type = "reject" => G = Entries(Ins(x)) /\ L = Entries(Outs(x)),
           type \notin {"accept", "reject"} => G = {} /\ L = {}
    PROVE  UnspentBy(st, u, i, a, G, L, type)
<1> PICK r : r = [type |-> type, tx |-> x]
  OBVIOUS
<1>1. /\ type = "accept" => UnspentIn(u) = (UnspentIn(s) \cup Outs(x)) \ Ins(x)
      /\ type = "accept" => /\ \A o \in Ins(x) : o \in UnspentIn(s)
                            /\ \A o \in Outs(x) : o \notin UnspentIn(s)
      /\ type = "reject" => UnspentIn(u) = (UnspentIn(s) \cup Ins(x)) \ Outs(x)
      /\ type = "reject" => /\ \A o \in Outs(x) : o \in UnspentIn(s)
                            /\ \A o \in Ins(x) : o \notin UnspentIn(s)
      /\ type \in {"confirm", "unconfirm"} => UnspentIn(u) = UnspentIn(s)
  BY UnspentMoves
<1>2. Outs(x) \in SUBSET Outpoint /\ Ins(x) \in SUBSET Outpoint
  BY AffectedFacts
<1>3. /\ OutsOf(Entries(Outs(x)), a) = {o \in Outs(x) : Pays(o, a)}
      /\ OutsOf(Entries(Ins(x)), a) = {o \in Ins(x) : Pays(o, a)}
      /\ OutsOf({}, a) = {}
  BY <1>2, OutsOfEntries
<1> PICK I, D, U, V : /\ I = OutsOf(G, a) /\ D = OutsOf(L, a)
                      /\ U = UnspentOf(s, a) /\ V = UnspentOf(u, a)
  OBVIOUS
<1>4. /\ U = {o \in Outpoint : o \in UnspentIn(s) /\ Pays(o, a)}
      /\ V = {o \in Outpoint : o \in UnspentIn(u) /\ Pays(o, a)}
  BY DEF UnspentOf
<1>5. /\ I \in SUBSET Outpoint /\ D \in SUBSET Outpoint /\ D \subseteq U /\ I \cap U = {}
      /\ V = (U \cup I) \ D
  <2>1. CASE type = "accept"
    <3>1. I = {o \in Outs(x) : Pays(o, a)} /\ D = {o \in Ins(x) : Pays(o, a)}
      BY <1>3, <2>1
    <3> QED BY <1>1, <1>2, <1>4, <2>1, <3>1
  <2>2. CASE type = "reject"
    <3>1. I = {o \in Ins(x) : Pays(o, a)} /\ D = {o \in Outs(x) : Pays(o, a)}
      BY <1>3, <2>2
    <3> QED BY <1>1, <1>2, <1>4, <2>2, <3>1
  <2>3. CASE type \in {"confirm", "unconfirm"}
    <3>1. I = {} /\ D = {}
      BY <1>3, <2>3
    <3> QED BY <1>1, <1>4, <2>3, <3>1
  <2> QED BY <2>1, <2>2, <2>3 DEF Types
<1>6. U \in SUBSET Outpoint
  BY <1>4
<1> PICK K, X, m, c : /\ K = st.unspent[a] /\ X = st.unspentIdx[a] /\ m = i.unspentTxIndex
                      /\ c = i.unspentTxCount
  OBVIOUS
<1>7. UnspentAt(K, X, m, {}, {}, U) /\ CountedAt(c, {}, 0, U)
  <2>1. Cardinality({}) = 0
    BY FS_EmptySet
  <2>2. (IF type0 = "accept" THEN Cardinality(OutsOf({}, a)) ELSE 0) = 0
    BY <1>3, <2>1
  <2> QED BY <1>3, <2>2 DEF UnspentBy
<1>8. UnspentAt(K, X, m, I, D, V)
  BY <1>5, <1>7, UnspentTake
<1> PICK k : k = IF type = "accept" THEN Cardinality(D) ELSE 0
  OBVIOUS
<1>9. CountedAt(c, I, k, V)
  BY <1>5, <1>6, <1>7, CountedTake
<1> QED BY <1>8, <1>9 DEF UnspentBy

\* Taking a row: the unspent nodes are as the row before left them.
LEMMA UnspentTakeStep ==
    ASSUME CacheInv, UnspentInv, CanTake, NEW type \in Types, NEW x \in Item, TakeRow(type, x),
           Takes(state, tip, state', tip', type, x)
    PROVE  UnspentInv'
<1> SUFFICES ASSUME ~torn' PROVE UnspentInv'
  BY DEF UnspentInv
<1>1. /\ pc = "idle" /\ row' = [type |-> type, tx |-> x] /\ row' \in Rows
      /\ store' = store /\ torn' = torn
      /\ \A p : Rest(p) = {} /\ Rest(p)' = Full(p)'
      /\ \A a \in Address : /\ GetAddressInfo(a) = store.addr[a]
                            /\ GetAddressInfo(a)' = store.addr[a]
  BY TakeFacts
<1>2. (row \in Rows =>
         /\ row.type \in {"accept", "reject"} =>
                /\ Full("outputs") = Entries(Outs(row.tx))
                /\ Full("inputs") = Entries(Ins(row.tx))
         /\ row.type \notin {"accept", "reject"} => Full("outputs") = {} /\ Full("inputs") = {})'
  <2>1. row \in Rows =>
         /\ row.type \in {"accept", "reject"} =>
                /\ Full("outputs") = Entries(Outs(row.tx))
                /\ Full("inputs") = Entries(Ins(row.tx))
         /\ row.type \notin {"accept", "reject"} => Full("outputs") = {} /\ Full("inputs") = {}
    BY FullFacts
  <2> QED BY <2>1, FullFacts, PTL
<1>3. row'.tx = x /\ row'.type = type
  BY <1>1
<1> PICK g, l : /\ g = IF type = "reject" THEN "inputs" ELSE "outputs"
                /\ l = IF type = "reject" THEN "outputs" ELSE "inputs"
  OBVIOUS
<1> PICK G, L : G = Full(g)' /\ L = Full(l)'
  OBVIOUS
<1>4. /\ type = "accept" => G = Entries(Outs(x)) /\ L = Entries(Ins(x))
      /\ type = "reject" => G = Entries(Ins(x)) /\ L = Entries(Outs(x))
      /\ type \notin {"accept", "reject"} => G = {} /\ L = {}
  <2>1. type = "accept" => G = Entries(Outs(x)) /\ L = Entries(Ins(x))
    BY <1>1, <1>2, <1>3
  <2>2. type = "reject" => G = Entries(Ins(x)) /\ L = Entries(Outs(x))
    BY <1>1, <1>2, <1>3
  <2>3. type \notin {"accept", "reject"} => G = {} /\ L = {}
    BY <1>1, <1>2, <1>3
  <2> QED BY <2>1, <2>2, <2>3
<1>5. Gain(row)' = g /\ Loss(row)' = l
  BY <1>3 DEF Gain, Loss
<1>6. /\ Rest(Gain(row))' = G /\ Rest(Loss(row))' = L
      /\ Full(Gain(row))' = G /\ Full(Loss(row))' = L
  BY <1>1, <1>5 DEF Gain, Loss
<1>7. UnspentNow
  BY <1>1 DEF UnspentInv
<1>8. ASSUME NEW a \in Address
      PROVE  UnspentBy(store, state', store.addr[a], a, G, L, type)
  <2>1. Rest(Gain(row)) = {} /\ Rest(Loss(row)) = {}
    BY <1>1
  <2>2. UnspentBy(store, state, store.addr[a], a, {}, {}, row.type)
    BY <1>1, <1>7, <2>1 DEF UnspentNow
  <2> QED BY <1>4, <2>2, UnspentTakes
<1>9. UnspentNow'
  BY <1>1, <1>3, <1>6, <1>8 DEF UnspentNow
<1>10. UnspentAgain'
  BY <1>1, <1>3, <1>6, <1>8 DEF UnspentAgain
<1> QED BY <1>9, <1>10 DEF UnspentInv

\* The row is finished, interrupted where it can be repeated, or comes again.
LEMMA UnspentEnds ==
    ASSUME CacheInv, UnspentInv, SaveId \/ Crash \/ Restart
    PROVE  UnspentInv'
<1> SUFFICES ASSUME ~torn' PROVE UnspentInv'
  BY DEF UnspentInv
<1>1. CASE SaveId
  <2>1. /\ pc = "save" /\ store' = store /\ torn' = torn /\ state' = state /\ pc' = "idle"
        /\ \A p : p # "save" => Rest(p) = {}
        /\ \A p : Rest(p)' = {}
        /\ \A a \in Address : GetAddressInfo(a)' = GetAddressInfo(a)
    BY <1>1, SaveFacts
  <2>2. Rest(Gain(row)) = {} /\ Rest(Loss(row)) = {} /\ UnspentNow
    <3>1. UnspentNow
      BY <2>1 DEF UnspentInv
    <3>2. Gain(row) # "save" /\ Loss(row) # "save"
      BY DEF Gain, Loss
    <3> QED BY <2>1, <3>1, <3>2
  <2>3. Rest(Gain(row))' = {} /\ Rest(Loss(row))' = {}
    BY <2>1
  <2>4. ASSUME NEW a \in Address
        PROVE  UnspentBy(store, state, GetAddressInfo(a), a, {}, {}, row'.type)
    <3>1. UnspentBy(store, state, GetAddressInfo(a), a, {}, {}, row.type)
      BY <2>2 DEF UnspentNow
    <3>2. Cardinality(OutsOf({}, a)) = 0
      <4>1. OutsOf({}, a) = {}
        BY DEF OutsOf
      <4>2. Cardinality({}) = 0
        BY FS_EmptySet
      <4> QED BY <4>1, <4>2
    <3> QED BY <3>1, <3>2 DEF UnspentBy
  <2>5. UnspentNow'
    BY <2>1, <2>3, <2>4 DEF UnspentNow
  <2>6. pc' \notin Phases
    BY <2>1 DEF Phases
  <2> QED BY <2>5, <2>6 DEF UnspentInv
<1>2. CASE Crash
  <2>1. /\ ~torn /\ row' = row /\ store' = store /\ state' = state
        /\ pc' = "down" /\ pc # "aborted"
        /\ \A p : Rest(p)' = Full(p)
        /\ \A a \in Address : GetAddressInfo(a)' = store.addr[a]
        /\ \/ /\ \A p : Rest(p) = Full(p)
              /\ \A a \in Address : GetAddressInfo(a) = store.addr[a]
           \/ pc \in Phases /\ Resumable
    BY <1>2, CrashFacts
  <2>2. ASSUME NEW a \in Address
        PROVE  UnspentBy(store, state, store.addr[a], a, Full(Gain(row)), Full(Loss(row)), row.type)
    <3>1. UnspentNow /\ (pc \in Phases /\ Resumable => UnspentAgain)
      BY <2>1 DEF UnspentInv
    <3>2. CASE /\ \A p : Rest(p) = Full(p)
               /\ \A b \in Address : GetAddressInfo(b) = store.addr[b]
      BY <3>1, <3>2 DEF UnspentNow
    <3>3. CASE pc \in Phases /\ Resumable
      BY <3>1, <3>3 DEF UnspentAgain
    <3> QED BY <2>1, <3>2, <3>3
  <2>3. Rest(Gain(row))' = Full(Gain(row)) /\ Rest(Loss(row))' = Full(Loss(row))
    <3>1. Gain(row)' = Gain(row) /\ Loss(row)' = Loss(row)
      BY <2>1 DEF Gain, Loss
    <3> QED BY <2>1, <3>1 DEF Gain, Loss
  <2>4. UnspentNow'
    BY <2>1, <2>2, <2>3 DEF UnspentNow
  <2>5. pc' \notin Phases
    BY <2>1 DEF Phases
  <2> QED BY <2>4, <2>5 DEF UnspentInv
<1>3. CASE Restart
  <2>1. /\ pc = "down" /\ row' = row /\ store' = store /\ torn' = torn
        /\ state' = state
        /\ \A p : Rest(p)' = Full(p) /\ Rest(p) = Full(p) /\ Full(p)' = Full(p)
        /\ \A a \in Address : /\ GetAddressInfo(a)' = store.addr[a]
                              /\ GetAddressInfo(a) = store.addr[a]
    BY <1>3, RestartFacts
  <2> PICK g, l : g = Gain(row) /\ l = Loss(row)
    OBVIOUS
  <2>2. Gain(row)' = g /\ Loss(row)' = l
    BY <2>1 DEF Gain, Loss
  <2>3. /\ Rest(Gain(row))' = Full(g) /\ Rest(Loss(row))' = Full(l)
        /\ Full(Gain(row))' = Full(g) /\ Full(Loss(row))' = Full(l)
    BY <2>1, <2>2 DEF Gain, Loss
  <2>4. ASSUME NEW a \in Address
        PROVE  UnspentBy(store, state, store.addr[a], a, Full(g), Full(l), row.type)
    <3>1. UnspentNow
      BY <2>1 DEF UnspentInv
    <3> QED BY <2>1, <3>1 DEF UnspentNow
  <2>5. UnspentNow'
    BY <2>1, <2>3, <2>4 DEF UnspentNow
  <2>6. UnspentAgain'
    BY <2>1, <2>3, <2>4 DEF UnspentAgain
  <2> QED BY <2>5, <2>6 DEF UnspentInv
<1> QED BY <1>1, <1>2, <1>3

\* A write of an exchange of two list nodes.
LEMMA UnspentSwitch ==
    ASSUME CacheInv, UnspentInv, SwitchTxNode
    PROVE  UnspentInv'
<1>1. /\ state' = state /\ row' = row /\ pc' = pc /\ todo' = todo /\ torn' = torn
      /\ cache' = cache
  BY SwitchWrites
<1>2. Others(store, store')
  BY SwitchStores DEF CacheInv
<1>3. \A b \in Address : GetAddressInfo(b)' = GetAddressInfo(b)
  BY <1>1, <1>2, KeepInfo DEF Others
<1>4. /\ Rest(Gain(row))' = Rest(Gain(row)) /\ Rest(Loss(row))' = Rest(Loss(row))
      /\ Full(Gain(row))' = Full(Gain(row)) /\ Full(Loss(row))' = Full(Loss(row))
      /\ (Resumable' <=> Resumable)
  BY <1>1 DEF Rest, Full, Ahead, Gain, Loss, Resumable
<1> SUFFICES ASSUME ~torn, pc # "aborted" PROVE UnspentInv'
  BY <1>1 DEF UnspentInv
<1>5. UnspentNow'
  <2>1. UnspentNow
    BY DEF UnspentInv
  <2> QED BY <1>1, <1>2, <1>3, <1>4, <2>1 DEF UnspentNow, UnspentBy, Others
<1>6. ASSUME pc \in Phases, Resumable PROVE UnspentAgain'
  <2>1. UnspentAgain
    BY <1>6 DEF UnspentInv
  <2> QED BY <1>1, <1>2, <1>3, <1>4, <2>1 DEF UnspentAgain, UnspentBy, Others
<1> QED BY <1>1, <1>4, <1>5, <1>6 DEF UnspentInv

\* Every step keeps the unspent outputs.
LEMMA UnspentNext ==
    ASSUME StillWhole, PaysOnce, CacheInv, LedgerInv, BookInv, SpentInv, UnspentInv, [Next]_vars
    PROVE  UnspentInv'
<1>1. CASE UNCHANGED vars
  BY <1>1 DEF vars, ledger, bounds, UnspentInv, UnspentNow, UnspentAgain, GetAddressInfo, Rest,
              Full, Ahead, Resumable, Gain, Loss
<1>2. CASE Next
  <2>2. CASE Rounds
    <3>1. CASE torn
      <4>1. torn'
        BY <2>2, <3>1, RoundsDone DEF Done
      <4> QED BY <4>1 DEF UnspentInv
    <3>2. CASE ~torn /\ (AcceptOutput \/ RejectInput)
      BY <3>2, UnspentInserted
    <3>3. CASE ~torn /\ (AcceptInput \/ RejectOutput)
      BY <3>3, UnspentDeleted
    <3>4. CASE /\ ~torn /\ ~(AcceptOutput \/ RejectInput) /\ ~(AcceptInput \/ RejectOutput)
      <4>1. /\ pc \in Phases
            /\ \/ Quiet
               \/ pc = "list" /\ Round \in todo /\ Round \in Address /\ \E info : ListEffect(Round, info)
        BY <2>2, <3>4, RoundKinds
      <4>2. pc \notin {"outputs", "inputs", "save"}
        BY <2>2, <3>4 DEF Rounds, SetSpends, SetObject, SetUnconfirmed, CountUnconfirmed,
             AcceptList, ConfirmList, UnconfirmList, RejectList, FlushAddressInfo, In, AtNode
      <4>3. CASE Quiet
        <5>1. /\ KeptUnspent(store, store') /\ (pc # "flush" => store'.addr = store.addr)
              /\ (\E e \in todo : Done(e))
              /\ \A b \in Address : SameUnspent(GetAddressInfo(b), GetAddressInfo(b)')
          BY <4>2, <4>3 DEF Quiet
        <5> QED BY <3>4, <4>1, <4>2, <5>1, UnspentCalm
      <4>4. CASE /\ pc = "list" /\ Round \in todo /\ Round \in Address
                 /\ \E info : ListEffect(Round, info)
        <5> PICK a : a = Round
          OBVIOUS
        <5> PICK info : ListEffect(a, info)
          BY <4>4
        <5>1. /\ KeptUnspent(store, store') /\ store'.addr = store.addr /\ Done(a) /\ a \in todo
              /\ OneInfo(a, info) /\ SameUnspent(GetAddressInfo(a), info)
          BY <4>4 DEF ListEffect
        <5>2. \A b \in Address : SameUnspent(GetAddressInfo(b), GetAddressInfo(b)')
          BY <5>1 DEF OneInfo, SameUnspent
        <5> QED BY <3>4, <4>1, <4>2, <5>1, <5>2, UnspentCalm
      <4> QED BY <4>1, <4>3, <4>4
    <3> QED BY <3>1, <3>2, <3>3, <3>4
  <2>3. CASE UnspentMissing \/ ListFails
    BY <2>3 DEF UnspentMissing, ListFails, Fail, UnspentInv
  <2>4. ASSUME CanTake, NEW type \in Types, NEW x \in Item, TakeRow(type, x),
               Takes(state, tip, state', tip', type, x)
        PROVE  UnspentInv'
    BY <2>4, UnspentTakeStep
  <2> QED BY <1>2, Steps, <2>2, <2>3, <2>4, UnspentEnds, UnspentSwitch
<1> QED BY <1>1, <1>2

\* Between two rows nothing is left to be inserted or deleted.
LEMMA UnspentAtRest ==
    ASSUME CacheInv, UnspentInv, AtRest, NEW a \in Address, NEW U, U = UnspentOf(state, a)
    PROVE  /\ UnspentAt(store.unspent[a], store.unspentIdx[a], store.addr[a].unspentTxIndex,
                        {}, {}, U)
           /\ CountedAt(store.addr[a].unspentTxCount, {}, 0, U)
<1>1. pc = "idle" /\ ~torn
  BY DEF AtRest
<1>2. UnspentNow
  BY <1>1 DEF UnspentInv
<1>3. \A p : Rest(p) = {}
  BY <1>1 DEF Rest, Phases
<1>4. GetAddressInfo(a) = store.addr[a]
  BY <1>1, IdleInfo
<1>5. Rest(Gain(row)) = {} /\ Rest(Loss(row)) = {}
  BY <1>3
<1>6. UnspentBy(store, state, store.addr[a], a, {}, {}, row.type)
  BY <1>2, <1>4, <1>5 DEF UnspentNow
<1>7. OutsOf({}, a) = {} /\ Cardinality({}) = 0
  BY FS_EmptySet DEF OutsOf
<1>8. (IF row.type = "accept" THEN Cardinality(OutsOf({}, a)) ELSE 0) = 0
  BY <1>7
<1> QED BY <1>6, <1>7, <1>8 DEF UnspentBy

\* Every node is that of an unspent output, and every unspent output has one.
UnspentSettled(K, X, m, U) ==
    /\ \A o \in Outpoint : X[o] # -1 <=> o \in U
    /\ DOMAIN K = {X[o] : o \in Outpoint} \ {-1}
    /\ \A n \in DOMAIN K : K[n] \in U /\ X[K[n]] = n /\ n <= m
    /\ Cardinality(U) >= Cardinality(DOMAIN K) /\ Cardinality(DOMAIN K) \in Nat

\* What UnspentAt says when nothing is left to do.
LEMMA UnspentDone ==
    ASSUME NEW K, NEW X, NEW m, NEW U \in SUBSET Outpoint, UnspentAt(K, X, m, {}, {}, U)
    PROVE  UnspentSettled(K, X, m, U)
<1>1. DOMAIN K \subseteq Nat /\ m \in Nat \cup {-1}
  BY DEF UnspentAt
<1>2. \A o \in Outpoint : IF o \in U THEN X[o] \in DOMAIN K /\ K[X[o]] = o ELSE X[o] = -1
  <2>1. \A o \in Outpoint \ {} :
          IF o \in U \cup {} THEN X[o] \in DOMAIN K /\ X[o] <= m /\ K[X[o]] = o ELSE X[o] = -1
    BY DEF UnspentAt
  <2> QED BY <2>1
<1>3. -1 \notin DOMAIN K
  BY <1>1
<1>4. \A o \in Outpoint : X[o] # -1 <=> o \in U
  BY <1>2, <1>3
<1>5. ASSUME NEW n \in DOMAIN K PROVE K[n] \in U /\ X[K[n]] = n /\ n <= m
  <2>1. n <= m
    <3>1. n <= m + Cardinality({}) /\ Cardinality({}) = 0
      BY FS_EmptySet DEF UnspentAt
    <3> QED BY <1>1, <3>1
  <2>2. K[n] \in Outpoint /\ X[K[n]] = n
    BY <2>1 DEF UnspentAt
  <2> QED BY <1>3, <1>4, <2>1, <2>2
<1>6. DOMAIN K = {X[o] : o \in Outpoint} \ {-1}
  <2>1. ASSUME NEW n \in DOMAIN K PROVE n \in {X[o] : o \in Outpoint} \ {-1}
    BY <1>3, <1>5
  <2>2. ASSUME NEW o \in Outpoint, X[o] # -1 PROVE X[o] \in DOMAIN K
    BY <1>2, <2>2
  <2> QED BY <2>1, <2>2
<1>7. Cardinality(U) >= Cardinality(DOMAIN K) /\ Cardinality(DOMAIN K) \in Nat
  <2> PICK f : f = [o \in U |-> X[o]]
    OBVIOUS
  <2>1. f \in [U -> DOMAIN K]
    BY <1>2
  <2>2. \A n \in DOMAIN K : \E o \in U : f[o] = n
    BY <1>5
  <2>3. f \in Surjection(U, DOMAIN K)
    BY <2>1, <2>2 DEF Surjection
  <2>4. IsFiniteSet(U)
    BY OutputsFinite
  <2>5. Cardinality(DOMAIN K) <= Cardinality(U) /\ IsFiniteSet(DOMAIN K)
    BY <2>3, <2>4, FS_Surjection
  <2>6. Cardinality(DOMAIN K) \in Nat /\ Cardinality(U) \in Nat
    BY <2>4, <2>5, FS_CardinalityType
  <2> QED BY <2>5, <2>6
<1> QED BY <1>4, <1>5, <1>6, <1>7 DEF UnspentSettled

\* The unspent outputs of the specification and the addresses of an output.
LEMMA UnspentNames ==
    ASSUME NEW a, NEW o \in Outpoint
    PROVE  o \in UnspentOf(state, a) <=>
             o \in UnspentOutputs /\ <<o, a>> \in {<<e[1], AddressOf(e)>> : e \in Entries({o})}
<1>1. UnspentOutputs = UnspentIn(state)
  BY DEF UnspentOutputs, UnspentIn, Created, SpentIn, Ledger!Present
<1>2. <<o, a>> \in {<<e[1], AddressOf(e)>> : e \in Entries({o})} <=> Pays(o, a)
  <2>1. ASSUME NEW e \in Entries({o}) PROVE \E j \in 1..Len(PayTo[o]) : e = <<o, j>>
    BY DEF Entries
  <2>2. ASSUME NEW e \in Entries({o}), <<o, a>> = <<e[1], AddressOf(e)>> PROVE Pays(o, a)
    <3>1. PICK j \in 1..Len(PayTo[o]) : e = <<o, j>>
      BY <2>1
    <3>2. AddressOf(e) = a
      BY <2>2
    <3>3. PayTo[o][j] = a
      BY <3>1, <3>2 DEF AddressOf
    <3> QED BY <3>3 DEF Pays
  <2>3. ASSUME Pays(o, a) PROVE \E e \in Entries({o}) : <<o, a>> = <<e[1], AddressOf(e)>>
    <3>1. PICK j \in 1..Len(PayTo[o]) : PayTo[o][j] = a
      BY <2>3 DEF Pays
    <3> PICK e : e = <<o, j>>
      OBVIOUS
    <3>2. e \in Entries({o})
      BY DEF Entries
    <3>3. e[1] = o /\ AddressOf(e) = a
      BY <3>1 DEF AddressOf
    <3> QED BY <3>2, <3>3
  <2> QED BY <2>2, <2>3
<1> QED BY <1>1, <1>2 DEF UnspentOf

\* The lists of unspent outputs follow from what the invariant says of the keys.
LEMMA UnspentFollows ==
    ASSUME CacheInv, LedgerInv, KeysInv, UnspentInv PROVE UnspentListed
<1> SUFFICES ASSUME AtRest
             PROVE  /\ \A o \in Outpoint, x \in Tx :
                         store.spentBy[o] = x <=> (Ledger!Present(x) /\ o \in Vin[x])
                    /\ \A a \in Address :
                      /\ \A o \in Outpoint : store.unspentIdx[a][o] # -1 <=>
                            /\ o \in UnspentOutputs
                            /\ <<o, a>> \in {<<e[1], AddressOf(e)>> : e \in Entries({o})}
                      /\ DOMAIN store.unspent[a] = {store.unspentIdx[a][o] : o \in Outpoint} \ {-1}
                      /\ \A n \in DOMAIN store.unspent[a] :
                            /\ store.unspentIdx[a][store.unspent[a][n]] = n
                            /\ n <= store.addr[a].unspentTxIndex
                      /\ store.addr[a].unspentTxCount >= Cardinality(DOMAIN store.unspent[a])
  BY DEF UnspentListed
<1>1. ASSUME NEW o \in Outpoint, NEW x \in Tx
      PROVE  store.spentBy[o] = x <=> (Ledger!Present(x) /\ o \in Vin[x])
  <2>1. SpendKeys(store, state, row, {})
    BY KeysAtRest
  <2>2. store.spentBy[o] = x <=> (state[x] # "absent" /\ o \in Vin[x])
    BY <2>1 DEF SpendKeys
  <2> QED BY <2>2 DEF Ledger!Present
<1>2. ASSUME NEW a \in Address
      PROVE  /\ \A o \in Outpoint : store.unspentIdx[a][o] # -1 <=>
                   /\ o \in UnspentOutputs
                   /\ <<o, a>> \in {<<e[1], AddressOf(e)>> : e \in Entries({o})}
             /\ DOMAIN store.unspent[a] = {store.unspentIdx[a][o] : o \in Outpoint} \ {-1}
             /\ \A n \in DOMAIN store.unspent[a] :
                   /\ store.unspentIdx[a][store.unspent[a][n]] = n
                   /\ n <= store.addr[a].unspentTxIndex
             /\ store.addr[a].unspentTxCount >= Cardinality(DOMAIN store.unspent[a])
  <2> PICK K, X, m, c, U : /\ K = store.unspent[a] /\ X = store.unspentIdx[a]
                           /\ m = store.addr[a].unspentTxIndex
                           /\ c = store.addr[a].unspentTxCount /\ U = UnspentOf(state, a)
    OBVIOUS
  <2>1. UnspentAt(K, X, m, {}, {}, U) /\ CountedAt(c, {}, 0, U)
    BY UnspentAtRest
  <2>2. U \in SUBSET Outpoint
    BY DEF UnspentOf
  <2>3. /\ \A o \in Outpoint : X[o] # -1 <=> o \in U
        /\ DOMAIN K = {X[o] : o \in Outpoint} \ {-1}
        /\ \A n \in DOMAIN K : K[n] \in U /\ X[K[n]] = n /\ n <= m
        /\ Cardinality(U) >= Cardinality(DOMAIN K) /\ Cardinality(DOMAIN K) \in Nat
    <3>1. UnspentSettled(K, X, m, U)
      BY <2>1, <2>2, UnspentDone
    <3> QED BY <3>1 DEF UnspentSettled
  <2>4. c >= Cardinality(DOMAIN K)
    <3> PICK u, k : u = Cardinality(U) /\ k = Cardinality(DOMAIN K)
      OBVIOUS
    <3>1. Cardinality({}) = 0
      BY FS_EmptySet
    <3>2. c \in Int /\ c + 0 - 0 >= u
      BY <2>1, <3>1 DEF CountedAt
    <3>3. u \in Nat
      BY <2>2, OutputsFinite
    <3>4. k \in Nat /\ u >= k
      BY <2>3
    <3>5. c >= k
      BY <3>2, <3>3, <3>4
    <3> QED BY <3>5
  <2>5. \A o \in Outpoint : o \in U <=>
          /\ o \in UnspentOutputs
          /\ <<o, a>> \in {<<e[1], AddressOf(e)>> : e \in Entries({o})}
    BY UnspentNames
  <2> QED BY <2>3, <2>4, <2>5
<1> QED BY <1>1, <1>2

-----------------------------------------------------------------------------
(* Nothing that a handler looks up is missing. *)

\* A confirmed transaction has a place that can be compared.
LEMMA PlaceType ==
    ASSUME NEW s, NEW b, LedgerOK(s, b), NEW c \in Item, s[c] = "confirmed"
    PROVE  Pos(b, c)[1] \in Nat /\ Pos(b, c)[2] \in Nat
<1>1. PICK d \in On(b) : \E i \in 0..Len(Vtx[d]) : Pos(b, c) = <<Height[d], i>>
  BY ConfirmedPlace
<1>2. PICK i \in 0..Len(Vtx[d]) : Pos(b, c) = <<Height[d], i>>
  BY <1>1
<1>3. d \in Block
  BY OnFacts DEF LedgerOK, LedgerTyped
<1>4. Height[d] \in Nat
  BY <1>3, BlockTreeAssumption
<1>5. i \in Nat
  <2>1. Vtx[d] \in Seq(Tx)
    BY <1>3, TxGraphAssumption
  <2>2. Len(Vtx[d]) \in Nat
    BY <2>1
  <2> QED BY <2>2
<1> QED BY <1>2, <1>4, <1>5

\* No row, no place to compare.
LEMMA PlacedInit ==
    ASSUME Init PROVE PlacedInv
BY DEF Init, NoRow, PlacedInv

\* The place is that of the transaction before the row.
LEMMA PlacedNext ==
    ASSUME CacheInv, LedgerInv, PlacedInv, [Next]_vars
    PROVE  PlacedInv'
<1>1. CASE UNCHANGED vars
  BY <1>1 DEF vars, ledger, PlacedInv
<1>2. CASE Next
  <2>1. \/ \E type \in Types, x \in Item :
              TakeRow(type, x) /\ Takes(state, tip, state', tip', type, x)
        \/ state' = state /\ tip' = tip /\ (row' = row \/ row' = NoRow)
    BY <1>2, StepKinds DEF LedgerInv
  <2>2. ASSUME NEW type \in Types, NEW x \in Item, TakeRow(type, x),
               Takes(state, tip, state', tip', type, x)
        PROVE  PlacedInv'
    <3>1. row'.type = type /\ row'.tx = x
      BY <2>2 DEF TakeRow
    <3>2. ASSUME type = "unconfirm"
          PROVE  Pos(tip', x)[1] \in Nat /\ Pos(tip', x)[2] \in Nat
      <4>1. LedgerOK(state, tip) /\ state[x] = "confirmed" /\ Pos(tip', x) = Pos(tip, x)
        BY <2>2, <3>2 DEF Takes, StateBefore
      <4> QED BY <4>1, PlaceType
    <3> QED BY <3>1, <3>2 DEF PlacedInv
  <2>3. CASE state' = state /\ tip' = tip /\ (row' = row \/ row' = NoRow)
    BY <2>3 DEF PlacedInv, NoRow
  <2> QED BY <2>1, <2>2, <2>3
<1> QED BY <1>1, <1>2

\* The 24_ key of an output that is to be deleted is there.
LEMMA UnspentThere ==
    ASSUME CacheInv, SpentInv, UnspentInv, ~torn,
           In("inputs", {"accept"}) \/ In("outputs", {"reject"})
    PROVE  HasUnspent(Round)
<1> PICK e, l : e = Round /\ l = Loss(row)
  OBVIOUS
<1> PICK a, o : a = AddressOf(e) /\ o = e[1]
  OBVIOUS
<1>1. pc \in {"inputs", "outputs"} /\ pc = l
  BY DEF In, Loss
<1>2. pc \in Phases /\ e \in todo /\ a \in Address /\ o \in Outpoint /\ pc # "aborted"
  BY <1>1, AtUnspentRound DEF Phases
<1>3. Rest(l) = todo
  <2>1. InPhase
    BY <1>2, AtPhase
  <2> QED BY <1>1, <1>2, <2>1 DEF Rest
<1> PICK K, X, m, I, D, U : /\ K = store.unspent[a] /\ X = store.unspentIdx[a]
                            /\ m = GetAddressInfo(a).unspentTxIndex
                            /\ I = OutsOf(Rest(Gain(row)), a) /\ D = OutsOf(Rest(l), a)
                            /\ U = UnspentOf(state, a)
  OBVIOUS
<1>4. UnspentAt(K, X, m, I, D, U)
  BY <1>2 DEF UnspentInv, UnspentNow, UnspentBy
<1>5. PendingOK(I, D, U)
  BY PendingFacts
<1>6. o \in D
  BY <1>2, <1>3 DEF OutsOf
<1>7. o \in Outpoint \ I /\ o \in U \cup D
  BY <1>2, <1>5, <1>6 DEF PendingOK
<1>8. X[o] \in DOMAIN K /\ DOMAIN K \subseteq Nat
  BY <1>4, <1>7 DEF UnspentAt
<1>9. X[o] # -1
  BY <1>8
<1> QED BY <1>9 DEF HasUnspent

\* The node of the row is found, and so is the place it has to go to.
LEMMA ListRuns ==
    ASSUME CacheInv, LedgerInv, BookInv, PlacedInv, ~torn
    PROVE  ~ListFails
<1> SUFFICES ASSUME pc = "list", moving = NoMove PROVE ~ListFails
  BY DEF ListFails, AtNode, In
<1> PICK a : a = Round
  OBVIOUS
<1> PICK old, x, P : old = GetAddressInfo(a) /\ x = row.tx /\ P = Rest("list")
  OBVIOUS
<1> PICK M, C : M = MembersAt(state, row, a, P) /\ C = ConfAt(state, row, a, P)
  OBVIOUS
<1> PICK L, ix, T, k, X : /\ L = store.list[a] /\ ix = store.idx[a]
                          /\ T = old.txCount /\ k = old.lastConfirmedTxIdx
                          /\ X = ExemptAt(row, a, P)
  OBVIOUS
<1>1. /\ a \in Address /\ a \in Affected(row.tx) /\ row \in Rows /\ x \in Item
      /\ LedgerTyped(state, tip) /\ RowOK(state, tip, row) /\ a \in P
      /\ BookBy(L, Where(L), state, tip, row, old, a, P)
      /\ Links(L, ix, state, row, a, P)
  BY AtBook
<1>2. ListAt(L, Where(L), T, k, M, C, tip, X)
  BY <1>1 DEF BookBy, BookAt
<1>3. NodesFree(L, T, M) /\ OrderOK(L, T, k, C, tip)
  BY <1>2, NodesOf DEF ListAt
<1>4. T \in Nat /\ DOMAIN L = 0..(T - 1) /\ k \in -1..(T - 1)
  BY <1>3 DEF NodesFree, OrderOK
<1>0. /\ row.type = "confirm" => x \in M /\ x \notin C
      /\ row.type = "reject" => x \in M
      /\ row.type = "unconfirm" => x \in M /\ x \in C /\ C \ {x} = ConfirmedOf(state, a)
  <2>1. M = MembersAt(state, row, a, P) /\ C = ConfAt(state, row, a, P)
    OBVIOUS
  <2> QED BY ONLY <1>1, <2>1, x = row.tx, BookAhead
<1>5. ASSUME row.type = "confirm" PROVE NodeFound(a, Place(a))
  <2>1. x \in M /\ x \notin C
    BY <1>0, <1>5
  <2>2. PICK n \in DOMAIN L : L[n].tx = x
    BY <1>3, <2>1 DEF NodesFree
  <2>3. ~(n <= k)
    BY <1>3, <2>1, <2>2 DEF OrderOK
  <2>4. k + 1 \in 0..(T - 1)
    BY <1>4, <2>2, <2>3
  <2>5. Place(a) \in DOMAIN L
    BY <1>4, <1>5, <2>4 DEF Place, ConfirmPlace
  <2>6. ix[x] \in DOMAIN L
    <3>1. CASE Settled(L, ix)
      <4>1. ix[x] = n
        BY <2>2, <3>1 DEF Settled
      <4> QED BY <2>2, <4>1
    <3>2. CASE \E p, m : Near(L, ix, x, p, m)
      <4>1. PICK p, m : Near(L, ix, x, p, m)
        BY <3>2
      <4> QED BY <4>1 DEF Near
    <3> QED BY <1>1, <3>1, <3>2 DEF Links, Linked
  <2> QED BY <2>5, <2>6 DEF NodeFound
<1>6. ASSUME row.type = "reject"
      PROVE  NodeFound(a, Place(a)) /\ (~AtPlace => CanMove)
  <2>1. x \in M /\ Settled(L, ix)
    BY <1>0, <1>1, <1>6, LinksSettled
  <2>2. PICK n \in DOMAIN L : L[n].tx = x
    BY <1>3, <2>1 DEF NodesFree
  <2>3. ix[x] = n /\ n \in 0..(T - 1)
    BY <1>4, <2>1, <2>2 DEF Settled
  <2>4. T - 1 \in 0..(T - 1) /\ (n # T - 1 => T >= 2)
    BY <1>4, <2>3
  <2>5. Place(a) = T - 1
    BY <1>6 DEF Place, RejectPlace
  <2>6. NodeFound(a, Place(a))
    BY <1>4, <2>3, <2>4, <2>5 DEF NodeFound
  <2>7. ~AtPlace => CanMove
    BY <2>3, <2>4, <2>5 DEF AtPlace, CanMove
  <2> QED BY <2>6, <2>7
<1>7. ASSUME row.type = "unconfirm" PROVE UnconfirmOK(a)
  <2>0. /\ ListAt(L, ix, T, k, M, C, tip, X) /\ Settled(L, ix)
    <3>1. BookBy(L, ix, state, tip, row, old, a, P)
      BY <1>7, AtSettled
    <3>2. Settled(L, ix)
      BY <1>1, <1>7, LinksSettled
    <3> QED BY <3>1, <3>2 DEF BookBy, BookAt
  <2>1. /\ x \in M /\ x \in C /\ C \ {x} = ConfirmedOf(state, a)
        /\ \A c \in C \ {x} : Before(Pos(tip, c), Pos(tip, x))
    <3>1. x \in M /\ x \in C /\ C \ {x} = ConfirmedOf(state, a)
      BY <1>0, <1>7
    <3>2. OnTop(state, tip, x)
      BY <1>1, <1>7, NoRowFacts DEF RowOK
    <3>3. \A c \in C \ {x} : c \in Item /\ state[c] = "confirmed" /\ c # x
      BY <3>1 DEF ConfirmedOf
    <3>4. \A c \in C \ {x} : Before(Pos(tip, c), Pos(tip, x))
      BY <3>2, <3>3 DEF OnTop
    <3> QED BY <3>1, <3>4
  <2>2. ASSUME NEW y \in C PROVE Pos(tip, y)[1] \in Nat /\ Pos(tip, y)[2] \in Nat
    <3>1. CASE y = x
      BY <1>7, <3>1 DEF PlacedInv
    <3>2. CASE y # x
      <4>1. y \in Item /\ state[y] = "confirmed"
        BY <2>1, <3>2 DEF ConfirmedOf
      <4> QED BY <4>1, PlaceType DEF LedgerInv
    <3> QED BY <3>1, <3>2
  <2>3. k >= 0 /\ ix[x] = k
    BY <2>0, <2>1, <2>2, ListLast
  <2>4. ix[x] \in DOMAIN L
    <3>1. PICK n \in DOMAIN L : L[n].tx = x
      BY <1>3, <2>1 DEF NodesFree
    <3>2. ix[x] = n
      BY <2>0, <3>1 DEF Settled
    <3> QED BY <3>1, <3>2
  <2> QED BY <2>3, <2>4 DEF UnconfirmOK
<1> QED BY <1>5, <1>6, <1>7 DEF ListFails, AtNode, In

\* An exchange has the node of the row.
LEMMA LoopMoves ==
    BookInv /\ ~torn /\ pc # "aborted" =>
        (moving # NoMove => row.tx \in {moving.first.tx, moving.second.tx})
<1> SUFFICES ASSUME BookInv, ~torn, pc # "aborted", moving # NoMove
             PROVE  row.tx \in {moving.first.tx, moving.second.tx}
  OBVIOUS
<1> PICK V, L, ix, C : MoveAt(V, L, ix, row, C, moving)
  BY DEF BookInv, Books, MoveOK
<1> QED BY DEF MoveAt, Near

\* No step ends the process.
LEMMA NeverNext ==
    ASSUME CacheInv, LedgerInv, BookInv, SpentInv, UnspentInv, PlacedInv, NeverFails, [Next]_vars,
           BookInv'
    PROVE  NeverFails'
<1>0. (BookInv /\ ~torn /\ pc # "aborted" =>
         (moving # NoMove => row.tx \in {moving.first.tx, moving.second.tx}))'
  BY LoopMoves, PTL
<1> SUFFICES ASSUME ~torn' PROVE pc' # "aborted"
  BY <1>0 DEF NeverFails
<1>1. CASE UNCHANGED vars
  BY <1>1 DEF vars, NeverFails
<1>2. CASE Next
  <2>2. CASE Rounds
    <3>1. pc \in Phases /\ pc # "save" /\ \E e \in todo : Done(e)
      <4>1. pc \in Phases /\ pc # "save"
        BY <2>2, RoundsDone
      <4>2. CASE Done(Round)
        <5>1. todo # {}
          BY <4>1, AtPhase DEF InPhase
        <5> QED BY <4>1, <4>2, <5>1 DEF Round
      <4>3. CASE Done(row.tx) /\ pc \in {"spends", "object", "mempool", "pool"}
        <5>1. row.tx \in todo
          BY <4>1, <4>3, SingleRound
        <5> QED BY <4>1, <4>3, <5>1
      <4> QED BY <2>2, <4>2, <4>3 DEF Rounds, AcceptOutput, AcceptInput, RejectInput, RejectOutput,
             SetSpends, SetObject, SetUnconfirmed, CountUnconfirmed, AcceptList, ConfirmList,
             UnconfirmList, RejectList, FlushAddressInfo, In, AtNode
    <3> QED BY <3>1, RoundDone
  <2>3. CASE UnspentMissing
    <3>1. torn' = torn
      BY <2>3 DEF UnspentMissing, Fail
    <3> QED BY <2>3, <3>1, UnspentThere DEF UnspentMissing
  <2>4. CASE ListFails
    <3>1. torn' = torn
      BY <2>4 DEF ListFails, Fail
    <3> QED BY <2>4, <3>1, ListRuns
  <2>5. ASSUME CanTake, NEW type \in Types, NEW x \in Item, TakeRow(type, x) PROVE pc' # "aborted"
    <3>1. pc' \in Phases
      BY <2>5, TakeFacts
    <3> QED BY <3>1 DEF Phases
  <2>7. CASE SwitchTxNode
    <3>1. pc' = pc /\ torn' = torn
      BY <2>7, SwitchWrites
    <3> QED BY <3>1 DEF NeverFails
  <2>6. CASE SaveId \/ Crash \/ Restart
    BY <2>6, SaveFacts, CrashFacts, RestartFacts
  <2> QED BY <1>2, Steps, <2>2, <2>3, <2>4, <2>5, <2>6, <2>7
<1> QED BY <1>1, <1>2

-----------------------------------------------------------------------------
(* What the theorems say of the cache.  Parser.cc:706-716 drops the oldest half *)
(* of a full cache whether it is flushed or not, and the counters of an address *)
(* can be lost with it: AddressEvict.cfg has the counterexample.  So the        *)
(* theorems speak of the code while the cache has not been cleaned (Whole with  *)
(* EvictDirty), and of a cleaning that drops only flushed objects (~EvictDirty).*)

\* The count of cleanings only grows.
LEMMA PutCounts ==
    ASSUME evicts \in Nat, NEW a, NEW info, Put(a, info)
    PROVE  evicts' \in Nat /\ (evicts' = 0 => evicts = 0)
<1>1. evicts' = evicts \/ evicts' = evicts + 1
  BY DEF Put
<1> QED BY <1>1

\* As long as no change is lost, none was lost before.
LEMMA WholeNext ==
    ASSUME evicts \in Nat, [Next]_vars
    PROVE  evicts' \in Nat /\ (Whole' => Whole)
<1>1. evicts' \in Nat /\ (evicts' = 0 => evicts = 0)
  <2>1. CASE UNCHANGED vars
    BY <2>1 DEF vars, bounds
  <2>2. CASE \/ \E a, info : Put(a, info)
             \/ evicts' = evicts
    BY <2>2, PutCounts
  <2>3. ASSUME NEW x, TakeTx(x) \/ TakeCoinbase(x) PROVE evicts' = evicts
    BY <2>3 DEF TakeTx, TakeCoinbase, TakeRow, KeepCache
  <2>4. AcceptOutput \/ AcceptInput \/ RejectInput => \E a, info : Put(a, info)
    BY DEF AcceptOutput, AcceptInput, RejectInput, InsertAddressUnspent
  <2>5. AcceptList \/ ConfirmList \/ UnconfirmList \/ RejectList \/ FlushAddressInfo =>
            \E a, info : Put(a, info)
    BY DEF AcceptList, ConfirmList, UnconfirmList, RejectList, FlushAddressInfo
  <2>6. RejectOutput \/ SetSpends \/ SetObject \/ SetUnconfirmed \/ CountUnconfirmed =>
            evicts' = evicts
    BY DEF RejectOutput, SetSpends, SetObject, SetUnconfirmed, CountUnconfirmed, KeepCache
  <2>7. UnspentMissing \/ ListFails \/ SwitchTxNode => evicts' = evicts
    BY DEF UnspentMissing, ListFails, Fail, SwitchTxNode, SwitchFirstNode, SwitchSecondNode,
           SwitchFirstIndex, SwitchSecondIndex, Switching, KeepCache, bounds
  <2>8. SaveId \/ Crash \/ Restart => evicts' = evicts
    BY DEF SaveId, Crash, Restart, KeepCache, bounds
  <2> QED BY <2>1, <2>2, <2>3, <2>4, <2>5, <2>6, <2>7, <2>8 DEF Next
<1> QED BY <1>1 DEF Whole

-----------------------------------------------------------------------------
(* The theorems. *)

\* It holds at the start and every step keeps it.
LEMMA IndexKept == (Init => IndexInv) /\ (IndexInv /\ [Next]_vars => IndexInv')
<1>1. Init => IndexInv
  <2>1. Init => evicts \in Nat
    BY DEF Init
  <2> QED BY <2>1, InitCache, LedgerInit, BookInit, SpentInit, KeysInit DEF IndexInv
<1>2. ASSUME IndexInv, [Next]_vars PROVE IndexInv'
  <2>1. evicts \in Nat /\ CacheInv /\ LedgerInv /\ SpentInv
    BY <1>2 DEF IndexInv
  <2>2. evicts' \in Nat /\ (Whole' => Whole)
    BY <1>2, <2>1, WholeNext
  <2>3. CacheInv' /\ LedgerInv' /\ SpentInv'
    BY <1>2, <2>1, NextCache, LedgerNext, SpentNext
  <2>4. ASSUME Whole' PROVE BookInv' /\ KeysInv'
    <3>1. StillWhole /\ BookInv /\ KeysInv
      BY <1>2, <2>2, <2>4 DEF StillWhole, IndexInv
    <3> QED BY <1>2, <2>1, <3>1, BookNext, KeysNext
  <2> QED BY <2>2, <2>3, <2>4 DEF IndexInv
<1> QED BY <1>1, <1>2

\* The 21_ list of an address is its history, once and without a gap, and the 22_
\* index finds every node, whatever rows were applied and repeated after a crash,
\* one between two writes of _switchTxNode() included.  Excepted: a crash in the
\* part of a row that cannot be repeated (torn), and a cache cleaned of objects
\* not flushed (Whole).
THEOREM ListsStayExact == Spec => [](Whole => ListsExact)
<1>1. (Init => IndexInv) /\ (IndexInv /\ [Next]_vars => IndexInv')
  BY IndexKept
<1>2. IndexInv => (Whole => ListsExact)
  BY ListsFollow DEF IndexInv
<1> QED BY <1>1, <1>2, PTL DEF Spec

\* confirmTx() and unconfirmTx() keep the confirmed transactions of an address in
\* front, in the order of the chain, with the heights of their blocks: also when a
\* row is repeated that has already moved its transaction, or half moved it.
THEOREM OrderStaysExact == Spec => [](Whole => ConfirmedFirst)
<1>1. (Init => IndexInv) /\ (IndexInv /\ [Next]_vars => IndexInv')
  BY IndexKept
<1>2. IndexInv => (Whole => ConfirmedFirst)
  BY OrderFollows DEF IndexInv
<1> QED BY <1>1, <1>2, PTL DEF Spec

\* The totals of every address object are the sums over its history, and 03_ and
\* its counter are the unconfirmed transactions: the balance that confirmTx() and
\* unconfirmTx() take from the node they find is that of the row's transaction.
THEOREM TotalsStayExact == Spec => [](Whole => TotalsExact)
<1>1. (Init => IndexInv) /\ (IndexInv /\ [Next]_vars => IndexInv')
  BY IndexKept
<1>2. IndexInv => (Whole => TotalsExact)
  BY TotalsFollow DEF IndexInv
<1> QED BY <1>1, <1>2, PTL DEF Spec

\* It holds at the start and every step keeps it.
LEMMA OutputsKept ==
    ASSUME PaysOnce
    PROVE  (Init => OutputsInv) /\ (OutputsInv /\ [Next]_vars => OutputsInv')
<1>1. Init => OutputsInv
  <2>1. Init => NeverFails
    BY DEF Init, NeverFails, NoMove
  <2> QED BY <2>1, IndexKept, UnspentInit, PlacedInit DEF OutputsInv
<1>2. ASSUME OutputsInv, [Next]_vars PROVE OutputsInv'
  <2>1. IndexInv /\ evicts \in Nat /\ CacheInv /\ LedgerInv /\ SpentInv /\ PlacedInv
    BY <1>2 DEF OutputsInv, IndexInv
  <2>2. IndexInv'
    BY <1>2, <2>1, IndexKept
  <2>3. PlacedInv'
    BY <1>2, <2>1, PlacedNext
  <2>4. ASSUME Whole' PROVE UnspentInv' /\ NeverFails'
    <3>1. Whole
      BY <1>2, <2>1, <2>4, WholeNext
    <3>2. StillWhole /\ BookInv /\ UnspentInv /\ NeverFails /\ BookInv'
      BY <1>2, <2>1, <2>2, <2>4, <3>1 DEF StillWhole, IndexInv, OutputsInv
    <3> QED BY <1>2, <2>1, <3>2, UnspentNext, NeverNext
  <2> QED BY <2>2, <2>3, <2>4 DEF OutputsInv
<1> QED BY <1>1, <1>2

\* The 23_ nodes of an address are its unspent outputs, the 24_ index finds each
\* one, 02_ names the spenders, and the counter is not too low.
THEOREM UnspentStayListed == ASSUME PaysOnce PROVE Spec => [](Whole => UnspentListed)
<1>1. (Init => OutputsInv) /\ (OutputsInv /\ [Next]_vars => OutputsInv')
  BY OutputsKept
<1>2. OutputsInv => (Whole => UnspentListed)
  BY UnspentFollows DEF OutputsInv, IndexInv
<1> QED BY <1>1, <1>2, PTL DEF Spec

\* No handler misses a 24_ key or a node of a list, no assert fails, and the loops
\* of confirmTx() and rejectTx() exchange the row's transaction in every round, so
\* that they end: tparser does not stop on the rows of log2producer, also when it
\* applies one again, as long as no crash came in the part of a row that cannot be
\* repeated (torn) and the cache was not cleaned of objects not flushed (Whole).
THEOREM TparserNeverFails == ASSUME PaysOnce PROVE Spec => [](Whole => NeverFails)
<1>1. (Init => OutputsInv) /\ (OutputsInv /\ [Next]_vars => OutputsInv')
  BY OutputsKept
<1>2. OutputsInv => (Whole => NeverFails)
  BY DEF OutputsInv
<1> QED BY <1>1, <1>2, PTL DEF Spec

=============================================================================
