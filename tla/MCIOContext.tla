--------------------------- MODULE MCIOContext ---------------------------
(* Instance of IOContext for TLC: two tokens, two requesters that are      *)
(* interchangeable, batches below, at and above MAX_BATCH_SIZE.            *)
EXTENDS IOContext, TLC

CONSTANTS d1, d2

MCData == {d1, d2}
MCResults == {0}
MCBatchSizes == {1, 3}

Symmetry == Permutations(MCData)
=============================================================================
