----------------------------- MODULE MCNotify -----------------------------
(***************************************************************************)
(* NotifyLog on two rows: a transaction that touches two addresses, and    *)
(* the confirmation of a coinbase that pays to no address (a block event,  *)
(* then a call without a line).                                            *)
(***************************************************************************)
EXTENDS NotifyLog

CONSTANTS x, y, p, q

MCWrites == << << <<x, y>> >>, << <<Block>>, <<>> >> >>
MCFixed == {<<p, x>>, <<q, y>>}
MCLoose == {<<q, x>>}
=============================================================================
