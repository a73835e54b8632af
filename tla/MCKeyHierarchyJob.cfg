\* Three subject keys, a batch of two and a batch of one: what a rewrap job moves,
\* misses and reports, and that it stops.
CONSTANTS
  Keks = {k1, k2}
  NumSubjects = 3
  BatchSize = 2
  MaxOverrides = 1
  SeedStates = {}
SPECIFICATION FairSpec
CONSTRAINTS
  EnvelopesOfOneKek
  OneLatecomer
  RotationMakesTheNext
INVARIANTS
  NoGapBehindCursor
  MissedKeysBounded
  NoItemCountedTwice
PROPERTIES
  RunningJobStops
CHECK_DEADLOCK FALSE
