--------------------------- MODULE MCKeyHierarchy ---------------------------
(***************************************************************************)
(* KeyHierarchy on small instances; the values are in the .cfg files.      *)
(***************************************************************************)
EXTENDS KeyHierarchy, TLC

\* KEKs are interchangeable; subject keys are not (rewrap goes by their id).
KekSymmetry == Permutations(Keks)

\* For questions about jobs, which do not look at envelopes: the envelopes of a
\* subject key are followed while they name one KEK.
EnvelopesOfOneKek ==
  \A s \in SubjectKeys : Cardinality({k \in Keks : <<s, k>> \in envelopes}) <= 1

\* One key is inserted under the KEK that was just rotated away.
OneLatecomer == Cardinality(late) <= 1

\* With two KEKs there is a job only if the second one was made by a rotation of
\* the first: other histories are not followed.  Which of the two is the first
\* makes no difference.
FirstKek == CHOOSE k \in Keks : TRUE

RotationMakesTheNext ==
  \A k \in Keks \ {FirstKek} : Fresh(k) \/ \E j \in Keks : job[j].to = k
=============================================================================
