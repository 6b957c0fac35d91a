------------------------------- MODULE MCLog2 -------------------------------
(* Log2System on the graph of MCGraph: log1 is written by a node. *)
EXTENDS Log2System, MCGraph
=============================================================================
