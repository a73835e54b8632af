------------------------ MODULE MCDestructiveRequests ------------------------
(***************************************************************************)
(* DestructiveRequests on small instances; values are in the .cfg files.   *)
(***************************************************************************)
EXTENDS DestructiveRequests, TLC

\* Operators, approvals and threads are interchangeable.
Symmetry ==
  Permutations(Admins) \cup Permutations(Approvals) \cup Permutations(Requests)
=============================================================================
