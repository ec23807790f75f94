\* One batch, one interrupted operation, and the retries after it.
CONSTANTS
  Readers = {}
  MaxBatch = 1
  MaxRecords = 2
  MaxGen = 1
  MaxRoots = 2
  Horizon = 1
  MaxNow = 1
  MaxPlans = 0
  MaxDocs = 1
  MaxRawEnds = 1
SPECIFICATION RawSpec
CHECK_DEADLOCK FALSE
PROPERTY RepeatedAppendCompletes
