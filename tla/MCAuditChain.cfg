CONSTANTS
  Writers = {w1, w2, w3}
  NoWriter = NoWriter
  MaxEntries = 3
SPECIFICATION Spec
SYMMETRY WriterSymmetry
INVARIANTS
  TypeOK
  LockedAppendsLink
  PrevIsAnEarlierEntry
  VerifyPinpoints
PROPERTY BreakNeverHeals
