------------------------------ MODULE SetSums ------------------------------
(***************************************************************************)
(* The sum of a function over a finite set: the balance of a transaction   *)
(* for an address, and the totals of an address (AddressIndex).            *)
(***************************************************************************)
EXTENDS Integers, FiniteSetsExt

\* The sum of f over the members of S.
SumOver(f, S) == MapThenSumSet(LAMBDA x : f[x], S)
=============================================================================
