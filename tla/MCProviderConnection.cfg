SPECIFICATION Spec
CONSTANTS
  Threads = {t1, t2}
  Instances = {i1, i2}
  Providers = {"file", "env"}
  Default = "file"
  Keks = {k1, k2, k3}
  First = k1
  NoOne = NoOne
INVARIANTS TypeOK RootOnlyWhileConnected AnswersAreTrue CommittedKeksAreStored DestroyedKeksAreGone StoreLeftReadOnly
PROPERTY ImplementsKekMaterial
SYMMETRY Symmetry
CONSTRAINT OneMishap
CHECK_DEADLOCK FALSE
