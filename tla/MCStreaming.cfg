CONSTANTS
  Streams = {s1, s2}
  Readers = {r1}
  NoOne = NoOne
  Absent = Absent
  MaxChunks = 2
  Sizes = {0, 2}
  QueueSize = 1
  MaxDamage = 1
SPECIFICATION FairSpec
INVARIANTS
  TypeOK
  CommittedStreamIsWhole
  ReleasedIsPrefix
  FinishedDownloadIsWhole
  NoLeftoverWithoutCrash
  FilesAreReadOnRecord
PROPERTIES
  EveryUploadEnds
  WriteLockComesBack
CHECK_DEADLOCK FALSE
