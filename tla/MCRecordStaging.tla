-------------------------- MODULE MCRecordStaging --------------------------
(* Every length around the chunk boundaries, with the chunks scaled down.     *)
EXTENDS RecordStaging

TestLengths == 0..30
=============================================================================
