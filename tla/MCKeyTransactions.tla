-------------------------- MODULE MCKeyTransactions --------------------------
(***************************************************************************)
(* KeyTransactions on small instances.                                     *)
(***************************************************************************)
EXTENDS KeyTransactions, TLC

\* The server's threads are interchangeable.
RequestSymmetry == Permutations(Requests)
=============================================================================
