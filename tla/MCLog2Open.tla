----------------------------- MODULE MCLog2Open -----------------------------
(* Log2Producer alone on the graph of MCGraph: log1 holds any lines. *)
EXTENDS Log2Producer, MCGraph
=============================================================================
