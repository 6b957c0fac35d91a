----------------------------- MODULE MCAddress -----------------------------
(***************************************************************************)
(* AddressIndex on a small graph: t1 and t3 spend the same old output, t2  *)
(* spends the output of t1, which two addresses share; the blocks A1 and   *)
(* B1 are rivals, and their coinbases pay the same address.                *)
(***************************************************************************)
EXTENDS AddressIndex, TLC

CONSTANTS t1, t2, t3, A1, B1, o1, o2, o3, o4, c1, c2, addr1, addr2

MCVin == [t \in Tx |-> CASE t = t1 -> {o1} [] t = t2 -> {o2} [] t = t3 -> {o1}]
MCVout == [t \in Tx |-> CASE t = t1 -> {o2} [] t = t2 -> {o4} [] t = t3 -> {o3}]
MCVtx == (A1 :> <<t1>>) @@ (B1 :> <<t3>>)
MCPrev == (A1 :> Begin) @@ (B1 :> Begin)
MCHeight == (Begin :> 10) @@ (A1 :> 11) @@ (B1 :> 11)
MCPayTo == (o1 :> <<addr1>>) @@ (o2 :> <<addr1, addr2>>) @@ (o3 :> <<addr2>>)
             @@ (o4 :> <<addr2>>) @@ (c1 :> <<addr2>>) @@ (c2 :> <<addr1>>)
MCValue == (o1 :> 5) @@ (o2 :> 3) @@ (o3 :> 4) @@ (o4 :> 2) @@ (c1 :> 7) @@ (c2 :> 8)
MCCoinbaseOut == (A1 :> {c1}) @@ (B1 :> {c2})
=============================================================================
