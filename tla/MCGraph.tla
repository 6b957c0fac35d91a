------------------------------ MODULE MCGraph ------------------------------
(***************************************************************************)
(* A small instance of TxGraph.  t1 and t3 spend the same output, t2       *)
(* spends an output of t1 and t4 one of t3; the branches A and B fork at   *)
(* the begin block.  A configuration may leave some out.                   *)
(***************************************************************************)
EXTENDS TxGraph, TLC

CONSTANTS t1, t2, t3, t4, A1, A2, B1, o1, o2, o3

AllVin == (t1 :> {o1}) @@ (t2 :> {o2}) @@ (t3 :> {o1}) @@ (t4 :> {o3})
AllVout == (t1 :> {o2}) @@ (t2 :> {}) @@ (t3 :> {o3}) @@ (t4 :> {})
AllVtx == (A1 :> <<t1>>) @@ (A2 :> <<t2>>) @@ (B1 :> <<t3, t4>>)

MCVin == [t \in Tx |-> AllVin[t]]
MCVout == [t \in Tx |-> AllVout[t]]
MCVtx == [b \in Block |-> SelectSeq(AllVtx[b], LAMBDA t : t \in Tx)]
MCPrev == (A1 :> Begin) @@ (A2 :> A1) @@ (B1 :> Begin)
MCHeight == (Begin :> 10) @@ (A1 :> 11) @@ (A2 :> 12) @@ (B1 :> 11)
=============================================================================
