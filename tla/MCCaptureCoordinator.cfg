CONSTANTS
  FirstHeight = 1
  LastHeight = 2
  Plans = {primary, independent}
  NoPlan = NoPlan
  EventCount <- MCEventCount
  LedgerCapacity = 2
  Workers = {drain, supervisor}
  Drain = drain
SPECIFICATION AnyEvidenceSpec
INVARIANTS
  CoordinatorTypeOK
  StreamInOrder
  OneContentPerId
PROPERTIES
  UsesJournal
