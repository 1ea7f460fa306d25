SPECIFICATION FairSpec
CONSTANTS
  Null = Null
  Capacity = 4
  MaxBatch = 2
  BatchSize = 2
  FrameCapacity = 3
  Ops = {"READ"}
  Data <- MCData
  Results <- MCResults
  BatchSizes <- MCBatchSizes
PROPERTIES CompletionResumes ReadyRuns
