SPECIFICATION Spec
CONSTANTS
  Null = Null
  Capacity = 2
  MaxBatch = 2
  BatchSize = 2
  FrameCapacity = 4
  Ops = {"READ", "WAIT"}
  Data <- MCData
  Results <- MCResults
  BatchSizes <- MCBatchSizes
INVARIANTS SleepsOnOwnRequest
PROPERTIES RunsInRounds
