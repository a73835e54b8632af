-------------------------- MODULE CryptoShredding --------------------------
(***************************************************************************)
(* What crypto-shredding promises of the subjects' keys, without KEKs,     *)
(* rewrapping or a database: a key is provisioned once, it can be          *)
(* recovered by whoever holds the key store until its erasure is           *)
(* acknowledged, and from then on never again.                             *)
(***************************************************************************)
CONSTANT Subjects

VARIABLES
  recoverable,  \* subjects whose raw key can be obtained from what is stored
  erased        \* subjects whose erasure has been acknowledged

vars == <<recoverable, erased>>

Init ==
  /\ recoverable = {}
  /\ erased = {}

Provision(s) ==
  /\ s \notin recoverable \cup erased
  /\ recoverable' = recoverable \cup {s}
  /\ UNCHANGED erased

Shred(s) ==
  /\ s \in recoverable
  /\ recoverable' = recoverable \ {s}
  /\ erased' = erased \cup {s}

Next == \E s \in Subjects : Provision(s) \/ Shred(s)

Spec == Init /\ [][Next]_vars
=============================================================================
