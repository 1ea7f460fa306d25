--------------------------- MODULE MCExecutor ---------------------------
(* Instances of Executor for TLC.                                          *)
EXTENDS Executor

MCData == 0 .. FrameCapacity - 1
MCBatchSizes == {BatchSize}
MCResults == {-1, 1}
=============================================================================
