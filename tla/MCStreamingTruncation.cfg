CONSTANTS
  Streams = {s1}
  Readers = {r1}
  NoOne = NoOne
  Absent = Absent
  MaxChunks = 2
  Sizes = {2}
  QueueSize = 1
  MaxDamage = 1
SPECIFICATION Spec
INVARIANT TruncationIsNoticed
CHECK_DEADLOCK FALSE
