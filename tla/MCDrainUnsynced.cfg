CONSTANTS
  FirstHeight = 1
  LastHeight = 3
  Plans = {primary, independent}
  NoPlan = NoPlan
  EventCount <- MCNoEvents
  Workers = {drain, supervisor}
  Drain = drain
  LedgerCapacity = 3
  Primary = primary
  Independent = independent
  Supervisor = supervisor
  Missing <- MCMissing
  Unmappable <- MCNothing
  GapProbeHeights = 1
  MaxFaults = 0
  PowerLoss = FALSE
SPECIFICATION DrainSpec
INVARIANTS
  FailoverHeightDurable
