------------------------------- MODULE MCLog1 -------------------------------
(***************************************************************************)
(* Log1Producer on a small tree: three blocks above the begin block, so    *)
(* that chain_ is long enough to go back, and two branches A and B.        *)
(***************************************************************************)
EXTENDS Log1Producer

CONSTANTS t1, P1, P2, P3, A1, A2, B1, B2, B3

MCPrev == (P1 :> Begin) @@ (P2 :> P1) @@ (P3 :> P2) @@ (A1 :> P3) @@ (A2 :> A1)
            @@ (B1 :> P3) @@ (B2 :> B1) @@ (B3 :> B2)
MCHeight == (Begin :> 10) @@ (P1 :> 11) @@ (P2 :> 12) @@ (P3 :> 13) @@ (A1 :> 14)
            @@ (A2 :> 15) @@ (B1 :> 14) @@ (B2 :> 15) @@ (B3 :> 16)
=============================================================================
