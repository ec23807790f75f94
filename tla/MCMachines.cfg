CONSTANTS
  \* canonical sequencer
  FirstHeight = 1
  MaxHeight = 4
  MaxPending = 2
  Retained = 2
  Hashes = {hashA, hashB}
  Items <- MCItems
  Candidates <- MCCandidates
  NoBlock = NoBlock
  locP = locP
  locQ = locQ
  locW = locW
  hashA = hashA
  hashB = hashB
  \* state consumer: three blocks, the first and the last with an event
  MaxBlock = 3
  BlockEvents <- MCBlockEvents
  FetchMax = 2
  MaxPendingBlocks = 1
  MaxAckPending = 2
  MaxDeliver = 2
  MaxSessionEnds = 1
  \* info crawl: four records in three milliseconds, pages of three
  MaxMillis = 2
  MaxVenue = 4
  PageLimit = 3
  Overlap = 1
  MaxTimePages = 2
  MaxInfoFaults = 1
  MaxInfoCrashes = 1
  \* request budget: an envelope of three a minute of three ticks
  ProtectedJobs = {1}
  JobCost <- MCJobCost
  Ceiling = 5
  EnvelopePercent = 70
  PriorityPercent = 40
  Minute = 3
  Slots = {t1, t2}
  MaxWeight = 4
  MaxReal = 3
  MaxSteps = 1
  \* websocket capture
  Subscriptions = {s1, s2}
  Snapshots = {x, y}
  FanoutCapacity = 1
  MaxFrames = 3
  MaxWsFaults = 1
  MaxWsCrashes = 1
SPECIFICATION MCSpec
CHECK_DEADLOCK FALSE
INVARIANTS
  SequencerTypeOK
  NothingContradictoryKept
  AnswersTrue
  BufferExact
  ConsumerSafe
  InfoSafe
  BudgetSafe
  WsSafe
PROPERTIES
  HandsOutInOrder
  RedIsFinal
