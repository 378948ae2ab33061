-------------------------- MODULE MCDocumentManager --------------------------
(***************************************************************************)
(* Instances of DocumentManager for TLC.                                   *)
(***************************************************************************)
EXTENDS DocumentManager

=============================================================================
