---------------------------- MODULE MCBlockIndex ----------------------------
(***************************************************************************)
(* BlockIndex on a tree with two branches above P3; the timestamps of A1   *)
(* and B2 are lower than those of the blocks below them.                   *)
(***************************************************************************)
EXTENDS BlockIndex, TLC

CONSTANTS P1, P2, P3, A1, A2, B1, B2, B3

MCPrev == (P1 :> Begin) @@ (P2 :> P1) @@ (P3 :> P2) @@ (A1 :> P3) @@ (A2 :> A1)
            @@ (B1 :> P3) @@ (B2 :> B1) @@ (B3 :> B2)
MCHeight == (Begin :> 0) @@ (P1 :> 1) @@ (P2 :> 2) @@ (P3 :> 3) @@ (A1 :> 4)
            @@ (A2 :> 5) @@ (B1 :> 4) @@ (B2 :> 5) @@ (B3 :> 6)
MCTime == (Begin :> 10) @@ (P1 :> 20) @@ (P2 :> 40) @@ (P3 :> 30) @@ (A1 :> 35)
            @@ (A2 :> 50) @@ (B1 :> 60) @@ (B2 :> 45) @@ (B3 :> 70)
=============================================================================
