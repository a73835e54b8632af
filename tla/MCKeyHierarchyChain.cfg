\* Three KEKs: chains of rotations.  Safety only, so symmetry is sound.
CONSTANTS
  Keks = {k1, k2, k3}
  NumSubjects = 1
  BatchSize = 1
  MaxOverrides = 2
  SeedStates = {"pending", "deprecated"}
SPECIFICATION Spec
SYMMETRY KekSymmetry
INVARIANTS
  TypeOK
  AtMostOneActiveKek
  NoLiveKeyStranded
PROPERTIES
  ReadabilityLossHasCause
  AcceptedWriteIsReadable
  ActiveKekLostOnlyByRevocation
  ImplementsShredding
CHECK_DEADLOCK FALSE
