\* Refuted: a batch loaded before an erasure writes the key back.
CONSTANTS
  Requests = {r1, r2}
  NumSubjects = 1
  BatchSize = 1
  MaxEnvelopes = 2
SPECIFICATION Spec
SYMMETRY RequestSymmetry
INVARIANTS
  DestroyedKeysStayShredded
CHECK_DEADLOCK FALSE
