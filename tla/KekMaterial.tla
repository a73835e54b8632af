---------------------------- MODULE KekMaterial ----------------------------
(***************************************************************************)
(* What KeyHierarchy takes for granted of a key provider: the material of  *)
(* a KEK is created once, is there until it is destroyed, and does not     *)
(* come back.  Once the store is spoiled nothing is promised any more.     *)
(***************************************************************************)
CONSTANTS Keks, First

VARIABLES material, spoiled

Status == {"none", "held", "gone"}

MaterialInit ==
  /\ material = [k \in Keks |-> IF k = First THEN "held" ELSE "none"]
  /\ spoiled = FALSE

Create(k) ==
  /\ material[k] = "none"
  /\ material' = [material EXCEPT ![k] = "held"]
  /\ spoiled' = FALSE

Destroy(k) ==
  /\ material[k] = "held"
  /\ material' = [material EXCEPT ![k] = "gone"]
  /\ spoiled' = FALSE

Spoil ==
  /\ spoiled'
  /\ material' \in [Keks -> Status]

MaterialNext == (~spoiled /\ \E k \in Keks : Create(k) \/ Destroy(k)) \/ Spoil

MaterialSpec == MaterialInit /\ [][MaterialNext]_<<material, spoiled>>
=============================================================================
