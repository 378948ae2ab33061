--------------------------- MODULE MCWorkspaceAccess ---------------------------
(***************************************************************************)
(* Instances of WorkspaceAccess for TLC.                                   *)
(***************************************************************************)
EXTENDS WorkspaceAccess, MCWorkspaceMembership

MCAccessInit == MCInit /\ home = [d \in Document |-> <<>>] /\ call = NoCall
MCAccessSpec == MCAccessInit /\ [][AccessNext]_<<vars, accessVars>>

=============================================================================
