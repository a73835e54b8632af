\* Refuted: rewrapping makes the envelopes written before it unreadable.
CONSTANTS
  Keks = {k1, k2}
  NumSubjects = 1
  BatchSize = 1
  MaxOverrides = 0
  SeedStates = {}
SPECIFICATION Spec
INVARIANTS
  EnvelopesStayReadable
CHECK_DEADLOCK FALSE
