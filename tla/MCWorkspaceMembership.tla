------------------------ MODULE MCWorkspaceMembership ------------------------
(***************************************************************************)
(* Instances of WorkspaceMembership for TLC.                               *)
(***************************************************************************)
EXTENDS WorkspaceMembership, TLC

CONSTANTS s1, s2

\* One session moves rows, changes roles and takes owners away, the other adds and drops.
OneLowering ==
  (s1 :> {"remove", "promote", "demote", "deregister", "move"}) @@ (s2 :> {"add", "drop"})

\* Two owners leave.
BothRemove == (s1 :> {"remove", "add"}) @@ (s2 :> {"remove"})

\* A first user has founded every workspace there still is; the others have
\* dropped their own.
Settled ==
  \E u \in User :
    /\ users = User /\ workspaces = Workspace /\ minted = User \cup Workspace
    /\ createdBy = [w \in Workspace |-> u]
    /\ role = [x \in Key |-> IF x[2] = u THEN "owner" ELSE "none"]
    /\ statement = [s \in Session |-> Idle]
    /\ pending = [s \in Session |-> Untouched]

MCInit == Init \/ Settled

Symmetry == Permutations(User) \cup Permutations(Workspace)

=============================================================================
