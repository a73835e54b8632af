-------------------- MODULE MCProviderConnection --------------------
(* Two server threads with a session each, two provider objects, two     *)
(* providers over the one store file, and up to two further KEKs.          *)
EXTENDS ProviderConnection, TLC

Symmetry == Permutations(Threads) \cup Permutations(Instances)
              \cup Permutations(Keks \ {First})

\* A behaviour is followed up to its second mishap.
OneMishap == Cardinality(mishaps) <= 1
=====================================================================
