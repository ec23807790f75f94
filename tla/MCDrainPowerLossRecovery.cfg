CONSTANTS
  FirstHeight = 1
  LastHeight = 2
  Plans = {primary, independent}
  NoPlan = NoPlan
  EventCount <- MCNoEvents
  Workers = {drain, supervisor}
  Drain = drain
  LedgerCapacity = 3
  Primary = primary
  Independent = independent
  Supervisor = supervisor
  Missing <- MCNothing
  Unmappable <- MCNothing
  GapProbeHeights = 1
  MaxFaults = 2
  PowerLoss = TRUE
SPECIFICATION DrainSpec
INVARIANTS
  NoRecoveryMismatch
