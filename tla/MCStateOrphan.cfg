CONSTANTS
  MaxBlock = 2
  BlockEvents <- MCBlockEvents
  FetchMax = 1
  MaxPendingBlocks = 1
  MaxAckPending = 1
  MaxDeliver = 2
  MaxSessionEnds = 1
SPECIFICATION ConsumerSpec
CHECK_DEADLOCK FALSE
INVARIANT NextBlockAccepted
