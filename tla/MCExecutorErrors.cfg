SPECIFICATION Spec
CONSTANTS
  Null = Null
  Capacity = 4
  MaxBatch = 2
  BatchSize = 2
  FrameCapacity = 3
  Ops = {"READ"}
  Data <- MCData
  Results = {1}
  BatchSizes <- MCBatchSizes
INVARIANTS RunEndsEmpty
