------------------------- MODULE WorkspaceMembership -------------------------
(***************************************************************************)
(* Workspaces, their members and the trigger that protects the last owner: *)
(* the tables, policies, functions and triggers of the migrations, used by *)
(* clients through Supabase with row-level security.                       *)
(*                                                                         *)
(* Each request is a transaction of one statement at read committed, the   *)
(* default of Postgres.  A statement may touch several rows; it locks and  *)
(* changes them one by one, and the trigger runs before each, seeing what  *)
(* is committed by then and what its own transaction has changed.          *)
(***************************************************************************)
EXTENDS Naturals, FiniteSets

CONSTANTS
  User,       \* auth.users ids
  Workspace,  \* workspaces ids, from gen_random_uuid()
  Nobody,     \* creator of a workspace that was never created
  Session,    \* connections, each with one transaction at a time
  Sends       \* the kinds of statement each session sends

Kind == {"remove", "promote", "demote", "move", "add", "drop", "deregister"}

ASSUME MembershipAssumption ==
  /\ User \cap Workspace = {}
  /\ Nobody \notin User \cup Workspace
  /\ Sends \in [Session -> SUBSET Kind]

VARIABLES
  users,       \* rows of auth.users, each with its profile
  workspaces,  \* rows of public.workspaces
  minted,      \* the ids handed out so far; none is handed out twice
  createdBy,   \* workspaces.created_by
  role,        \* public.workspace_members, "none" where there is no row
  statement,   \* what each session is executing
  pending      \* the rows its transaction has changed, "kept" elsewhere

tableVars == <<users, workspaces, minted, createdBy, role>>
vars == <<users, workspaces, minted, createdBy, role, statement, pending>>

\* (workspace_id, user_id), the primary key of workspace_members.
Key == Workspace \X User
Cell == {"owner", "member", "none"}

Owns(u, w) == role[<<w, u>>] = "owner"

\* What a transaction sees of a row: its own change, or what is committed.
Sees(s, x) == IF pending[s][x] = "kept" THEN role[x] ELSE pending[s][x]

Untouched == [x \in Key |-> "kept"]
NoKey == <<>>
Idle == [pc |-> "idle", kind |-> "none", todo |-> {}, to |-> "none", parent |-> Nobody,
         into |-> NoKey]

\* The workspaces and users that rows refer to.
Parents(rows) == UNION {{x[1], x[2]} : x \in rows}

\* The row of a workspace or user that a session has deleted, not yet committed.
Deleting(s, parent) ==
  statement[s].pc = "rows" /\ statement[s].kind \in {"drop", "deregister"}
    /\ statement[s].parent = parent

\* A row that another transaction has changed is locked until that one ends.
Locked(s, x) == \E t \in Session \ {s} : pending[t][x] # "kept"

\* The rows a transaction has taken away, and those it has written.
Vacated(s) == {x \in Key : pending[s][x] = "none"}
Filled(s) == {x \in Key : pending[s][x] \in {"owner", "member"}}

\* A foreign key locks the rows it refers to, where an update changes what it
\* refers to: such a transaction waits for one that deletes them, and the other
\* way round.
Referenced(s, parent) ==
  \E t \in Session \ {s} :
    /\ statement[t].kind \in {"add", "move"}
    /\ parent \in Parents(Filled(t)) \ Parents(Vacated(t))

-----------------------------------------------------------------------------
(* Creation: no other transaction can see or touch a new workspace before it *)
(* is committed, so each of these transactions is one step.                  *)

\* Mutant: the id of the workspace is written where its creator belongs.
FoundByItself(u, w) ==
  /\ w \notin minted
  /\ workspaces' = workspaces \cup {w}
  /\ createdBy' = [createdBy EXCEPT ![w] = w]
  /\ role' = [role EXCEPT ![<<w, u>>] = "owner"]
  /\ UNCHANGED <<statement, pending>>

\* create_workspace and the end of handle_new_user: the workspace and its owner.
Found(u, w) ==
  /\ w \notin minted
  /\ workspaces' = workspaces \cup {w}
  /\ createdBy' = [createdBy EXCEPT ![w] = u]
  /\ role' = [role EXCEPT ![<<w, u>>] = "owner"]
  /\ UNCHANGED <<statement, pending>>

CreateWorkspace(u, w) ==
  /\ u \in users
  /\ \A s \in Session : ~Deleting(s, u)
  /\ Found(u, w)
  /\ minted' = minted \cup {w}
  /\ UNCHANGED users

\* handle_new_user, in the transaction that inserts the user.
SignUp(u, w) ==
  /\ u \notin minted
  /\ users' = users \cup {u}
  /\ Found(u, w)
  /\ minted' = minted \cup {u, w}

-----------------------------------------------------------------------------
(* The beginning of a statement: the policies select what it may touch.      *)

Begin(s, kind, pc, todo, to, parent, into) ==
  /\ kind \in Sends[s]
  /\ statement' = [statement EXCEPT ![s] =
       [pc |-> pc, kind |-> kind, todo |-> todo, to |-> to, parent |-> parent, into |-> into]]
  /\ UNCHANGED <<tableVars, pending>>

\* "deletable by owners or by the member themselves"
Remove(s, u, rows) ==
  /\ rows # {}
  /\ \A x \in rows : role[x] # "none" /\ (Owns(u, x[1]) \/ x[2] = u)
  /\ Begin(s, "remove", "rows", rows, "none", Nobody, NoKey)

\* "updatable by workspace owners"
SetRole(s, u, rows, kind, to) ==
  /\ rows # {}
  /\ \A x \in rows : role[x] # "none" /\ Owns(u, x[1])
  /\ Begin(s, kind, "rows", rows, to, Nobody, NoKey)

\* The same policy for an update of workspace_id or user_id: it asks about the
\* workspace the row was in and about the one it will be in.  The role goes along
\* or is set too.  Bound: one row at a time.
Move(s, u, x, y, to) ==
  /\ role[x] # "none" /\ x # y
  /\ Owns(u, x[1]) /\ Owns(u, y[1])
  /\ Begin(s, "move", "rows", {x}, to, Nobody, y)

\* "insertable by workspace owners"
Add(s, u, x, to) ==
  /\ Owns(u, x[1])
  /\ Begin(s, "add", "rows", {x}, to, Nobody, NoKey)

\* "workspaces are deletable by their owners"
Drop(s, u, w) ==
  /\ Owns(u, w)
  /\ Begin(s, "drop", "parent", {}, "none", w, NoKey)

\* Supabase Auth deletes an account.
Deregister(s, u) ==
  /\ u \in users
  /\ Begin(s, "deregister", "parent", {}, "none", u, NoKey)

BeginSome(s) ==
  /\ statement[s].pc = "idle"
  /\ \E u \in User :
       \/ \E rows \in SUBSET Key :
            \/ Remove(s, u, rows)
            \/ SetRole(s, u, rows, "promote", "owner")
            \/ SetRole(s, u, rows, "demote", "member")
       \/ \E x, y \in Key, to \in {"owner", "member", "kept"} : Move(s, u, x, y, to)
       \/ \E x \in Key, to \in {"owner", "member"} : Add(s, u, x, to)
       \/ \E w \in Workspace : Drop(s, u, w)
       \/ Deregister(s, u)

-----------------------------------------------------------------------------
(* Its execution                                                             *)

\* An error ends the transaction and takes back what it has changed.
Raise(s) ==
  /\ statement' = [statement EXCEPT ![s] = Idle]
  /\ pending' = [pending EXCEPT ![s] = Untouched]

Done(s, x) == statement' = [statement EXCEPT ![s].todo = @ \ {x}]

\* on delete cascade
Cascades(parent) == {x \in Key : role[x] # "none" /\ parent \in {x[1], x[2]}}

DeleteRow(s, rows) ==
  statement' = [statement EXCEPT ![s].pc = "rows", ![s].todo = rows]

\* delete from public.workspaces; it may be gone by then.
DeleteWorkspace(s) ==
  LET w == statement[s].parent IN
  /\ statement[s].pc = "parent" /\ statement[s].kind = "drop"
  /\ ~Referenced(s, w)
  /\ \A t \in Session \ {s} : ~Deleting(t, w)
  /\ IF w \in workspaces
     THEN DeleteRow(s, Cascades(w))
     ELSE statement' = [statement EXCEPT ![s] = Idle]
  /\ UNCHANGED <<tableVars, pending>>

\* delete from auth.users: created_by restricts it.
DeleteUser(s) ==
  LET u == statement[s].parent
      created == {w \in workspaces : createdBy[w] = u}
  IN
  /\ statement[s].pc = "parent" /\ statement[s].kind = "deregister"
  /\ ~Referenced(s, u)
  /\ \A t \in Session \ {s} : \A p \in created \cup {u} : ~Deleting(t, p)
  /\ \/ /\ u \in users /\ created = {}
        /\ DeleteRow(s, Cascades(u))
        /\ UNCHANGED pending
     \/ u \in users /\ created # {} /\ Raise(s)
     \/ /\ u \notin users
        /\ statement' = [statement EXCEPT ![s] = Idle]
        /\ UNCHANGED pending
  /\ UNCHANGED tableVars

\* The role of a row after an update that may leave it as it is.
NewRole(s, x) == IF statement[s].to = "kept" THEN role[x] ELSE statement[s].to

\* The early returns of prevent_last_owner_removal.
Lowers(s, x) == role[x] = "owner" /\ NewRole(s, x) # "owner"

\* Mutant: the cascade from a workspace is not told apart.
ParentKept(s, w) == FALSE

\* Deleting the workspace itself: by then the parent is gone.
ParentGone(s, w) == w \notin workspaces \/ Deleting(s, w)

\* Mutant: the owners of any workspace are counted.
OwnersSeenAnywhere(s, w) == {u \in User : \E v \in Workspace : Sees(s, <<v, u>>) = "owner"}

OwnersSeen(s, w) == {u \in User : Sees(s, <<w, u>>) = "owner"}

\* prevent_last_owner_removal
Refuses(s, x) ==
  /\ Lowers(s, x)
  /\ ~ParentGone(s, x[1])
  /\ Cardinality(OwnersSeen(s, x[1])) <= 1

\* A row of an update or delete, once its lock is had: nothing if another
\* transaction has removed it meanwhile.
ChangeRow(s, x) ==
  /\ statement[s].pc = "rows" /\ statement[s].kind \notin {"add", "move"}
  /\ x \in statement[s].todo
  /\ ~Locked(s, x)
  /\ \/ /\ role[x] = "none"
        /\ Done(s, x)
        /\ UNCHANGED pending
     \/ role[x] # "none" /\ Refuses(s, x) /\ Raise(s)
     \/ /\ role[x] # "none" /\ ~Refuses(s, x)
        /\ Done(s, x)
        /\ pending' = [pending EXCEPT ![s][x] = statement[s].to]
  /\ UNCHANGED tableVars

\* An update of the key: the trigger is asked about the role alone; the primary
\* key and the foreign keys whose columns change may raise.
MoveRow(s, x) ==
  LET y == statement[s].into
      parents == Parents({y}) \ Parents({x})
  IN
  /\ statement[s].pc = "rows" /\ statement[s].kind = "move"
  /\ x \in statement[s].todo
  /\ ~Locked(s, x)
  /\ \/ /\ role[x] = "none"
        /\ Done(s, x)
        /\ UNCHANGED pending
     \/ role[x] # "none" /\ Refuses(s, x) /\ Raise(s)
     \/ /\ role[x] # "none" /\ ~Refuses(s, x)
        /\ ~Locked(s, y) /\ \A t \in Session, p \in parents : ~Deleting(t, p)
        /\ \/ /\ role[y] = "none" /\ parents \subseteq workspaces \cup users
              /\ Done(s, x)
              /\ pending' = [pending EXCEPT ![s][x] = "none", ![s][y] = NewRole(s, x)]
           \/ /\ role[y] # "none" \/ ~(parents \subseteq workspaces \cup users)
              /\ Raise(s)
  /\ UNCHANGED tableVars

\* An insert: the primary key and both foreign keys may raise.
InsertRow(s, x) ==
  /\ statement[s].pc = "rows" /\ statement[s].kind = "add"
  /\ x \in statement[s].todo
  /\ ~Locked(s, x)
  /\ \A t \in Session : ~Deleting(t, x[1]) /\ ~Deleting(t, x[2])
  /\ \/ /\ role[x] = "none" /\ x[1] \in workspaces /\ x[2] \in users
        /\ Done(s, x)
        /\ pending' = [pending EXCEPT ![s][x] = statement[s].to]
     \/ /\ role[x] # "none" \/ x[1] \notin workspaces \/ x[2] \notin users
        /\ Raise(s)
  /\ UNCHANGED tableVars

\* Mutant: a cascade knows its rows by the key they had when it began.
FollowsNothing(s, t) == {}

\* A cascade looks for its parent in what a row has become once its lock is had;
\* a client's statement names its rows by their key.
Follows(s, t) ==
  {y \in Key :
     /\ statement[s].kind = "move" /\ y = statement[s].into
     /\ statement[t].kind \in {"drop", "deregister"}
     /\ statement[t].parent \in Parents({y})
     /\ statement[t].todo \cap Vacated(s) # {}}

Commit(s) ==
  /\ statement[s].pc = "rows" /\ statement[s].todo = {}
  /\ role' = [x \in Key |-> Sees(s, x)]
  /\ workspaces' = workspaces \ {w \in Workspace : Deleting(s, w)}
  /\ users' = users \ {u \in User : Deleting(s, u)}
  /\ statement' = [t \in Session |->
       IF t = s THEN Idle
       ELSE [statement[t] EXCEPT !.todo = @ \cup Follows(s, t)]]
  /\ pending' = [pending EXCEPT ![s] = Untouched]
  /\ UNCHANGED <<minted, createdBy>>

\* A timeout, a lost connection, the victim of a deadlock.
Abort(s) ==
  /\ statement[s].pc \in {"parent", "rows"}
  /\ Raise(s)
  /\ UNCHANGED tableVars

SessionStep(s) ==
  \/ BeginSome(s)
  \/ DeleteWorkspace(s)
  \/ DeleteUser(s)
  \/ \E x \in Key : ChangeRow(s, x) \/ MoveRow(s, x) \/ InsertRow(s, x)
  \/ Commit(s)
  \/ Abort(s)

Init ==
  /\ users = {} /\ workspaces = {} /\ minted = {}
  /\ createdBy = [w \in Workspace |-> Nobody]
  /\ role = [x \in Key |-> "none"]
  /\ statement = [s \in Session |-> Idle]
  /\ pending = [s \in Session |-> Untouched]

Next ==
  \/ \E u \in User, w \in Workspace : SignUp(u, w) \/ CreateWorkspace(u, w)
  \/ \E s \in Session : SessionStep(s)

Spec == Init /\ [][Next]_vars

-----------------------------------------------------------------------------
(* Properties *)

\* A workspace that has an owner.
Led(w) == \E u \in User : Owns(u, w)

\* A transaction that takes an owner to another workspace, as an owner.
MovedOut(s, w) ==
  /\ statement[s].kind = "move" /\ statement[s].into[1] # w
  /\ pending[s][statement[s].into] = "owner"
  /\ \E u \in User : Owns(u, w) /\ <<w, u>> \in Vacated(s)

\* Type correctness of the tables and of what the sessions are doing.
TypeOK ==
  /\ users \subseteq User
  /\ workspaces \subseteq Workspace
  /\ minted \subseteq User \cup Workspace
  /\ createdBy \in [Workspace -> User \cup {Nobody}]
  /\ role \in [Key -> Cell]
  /\ statement \in [Session ->
       [pc : {"idle", "parent", "rows"}, kind : Kind \cup {"none"},
        todo : SUBSET Key, to : Cell \cup {"kept"}, parent : User \cup Workspace \cup {Nobody},
        into : Key \cup {NoKey}]]
  /\ pending \in [Session -> [Key -> Cell \cup {"kept"}]]

\* The migration: "A workspace must never be left without an owner".  It is, by
\* two sessions that each count the owner the other takes away.
OwnerRetained ==
  \A w \in workspaces : Led(w)

\* As long as one session alone takes owners away, only a move can leave a
\* workspace without one: of a row that stays an owner's, to another workspace,
\* the trigger sees the role and not the key.
LastOwnerKept ==
  [][\A w \in workspaces \cap workspaces' :
       Led(w) /\ ~Led(w)' => \E s \in Session : Commit(s) /\ MovedOut(s, w)]_vars

\* No membership outlives its workspace or its user, and none is added to one
\* that another transaction is deleting.
MembershipsRefer ==
  \A x \in Key : role[x] # "none" => x[1] \in workspaces /\ x[2] \in users

\* The trigger never stands in the way of deleting a workspace with all its
\* members ("That is not a stranding, so let it through"), whatever others have
\* done to the rows it finds.
DropNeverRefused ==
  \A s \in Session : statement[s].kind = "drop" =>
    \A x \in statement[s].todo : ~Refuses(s, x)

=============================================================================
