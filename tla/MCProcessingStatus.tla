-------------------------- MODULE MCProcessingStatus -------------------------
(***************************************************************************)
(* Instances of ProcessingStatus for TLC.                                  *)
(***************************************************************************)
EXTENDS ProcessingStatus, MCIngestion

=============================================================================
