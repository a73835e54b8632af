---------------------------- MODULE MCAuditChain ----------------------------
(***************************************************************************)
(* AuditChain on small instances; the values are in the .cfg files.        *)
(***************************************************************************)
EXTENDS AuditChain, TLC

WriterSymmetry == Permutations(Writers)
=============================================================================
