SPECIFICATION IOSpec
CONSTANTS
  Null = Null
  Capacity = 2
  MaxBatch = 2
  d1 = d1
  d2 = d2
  Data <- MCData
  Results <- MCResults
  BatchSizes <- MCBatchSizes
INVARIANTS FreesTokenArray
CHECK_DEADLOCK FALSE
