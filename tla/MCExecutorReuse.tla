------------------------- MODULE MCExecutorReuse -------------------------
(* Instance of ExecutorReuse for TLC.                                      *)
EXTENDS ExecutorReuse

MCData == 0 .. FrameCapacity - 1
MCBatchSizes == {BatchSize}
=============================================================================
