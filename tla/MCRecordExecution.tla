-------------------------- MODULE MCRecordExecution --------------------------
(* Small instance of RecordExecution for TLC.                              *)
EXTENDS RecordExecution
==============================================================================
