CONSTANTS
  \* progress journal: three heights, two competing plans
  FirstHeight = 1
  LastHeight = 3
  Plans = {p1, p2}
  NoPlan = NoPlan
  EventCount <- MCEventCount
  \* byte-offset spool: two epochs, two offsets, three segments
  Epochs = {e1, e2}
  MaxOffset = 2
  Bodies = {b1, b2}
  MaxSegments = 3
  MaxAcked = 3
  \* canonical archive: three heights over two hours
  MaxHeight = 3
  Hours = {h1, h2}
  Contents = {c1}
  MaxManifests = 4
  MaxEnds = 1
  \* raw archive: rotation after two records
  Readers = {r1}
  MaxBatch = 3
  MaxRecords = 2
  MaxGen = 2
  MaxRoots = 4
  Horizon = 1
  MaxNow = 1
  MaxPlans = 1
  MaxDocs = 1
  MaxRawEnds = 1
SPECIFICATION MCSpec
CONSTRAINT Bounded
SYMMETRY SpoolSymmetry
CHECK_DEADLOCK FALSE
INVARIANTS
  ProgressTypeOK
  CursorBacked
  VersionCountsBlocks
  SpoolSafe
  ReopensUnlessInterrupted
  ArchiveSafe
  RawStoreSafe
PROPERTIES
  NothingRewritten
  ImplementsCommittedLog
  LeasedFilesStay
