\* Two overlapping requests and the worker on two subject keys.
CONSTANTS
  Requests = {r1, r2}
  NumSubjects = 2
  BatchSize = 1
  MaxEnvelopes = 2
SPECIFICATION Spec
SYMMETRY RequestSymmetry
INVARIANTS
  TypeOK
  KeysInServiceIntact
  CertificateNeverOverclaims
  ResurrectedOnlyByRewrap
PROPERTIES
  DestroyedUndoneOnlyByOverlap
CHECK_DEADLOCK FALSE
