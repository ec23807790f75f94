CONSTANTS
  FirstHeight = 1
  LastHeight = 3
  Plans = {primary, independent}
  NoPlan = NoPlan
  EventCount <- MCNoEvents
  Workers = {drain, supervisor}
  Drain = drain
  LedgerCapacity = 3
  Primary = primary
  Independent = independent
  Supervisor = supervisor
  Missing <- MCMissing
  Unmappable <- MCNothing
  GapProbeHeights = 1
  MaxFaults = 1
  PowerLoss = FALSE
SPECIFICATION FairDrainSpec
INVARIANTS
  DrainTypeOK
  DurableBeforeVisible
  NoRecoveryMismatch
  CommittedIsArchivedAndPublished
  FailoverSplitsChain
  GapNotBehindCursor
PROPERTIES
  NoFailback
  KeepsToCoordinator
  EverythingCommitted
