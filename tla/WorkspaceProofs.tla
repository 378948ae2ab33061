--------------------------- MODULE WorkspaceProofs ---------------------------
(***************************************************************************)
(* Theorems about WorkspaceMembership and WorkspaceAccess, for every set   *)
(* of users, workspaces, sessions and documents: who owns a workspace      *)
(* whatever the clients send, and that what memberships and documents      *)
(* refer to is there.                                                      *)
(***************************************************************************)
EXTENDS WorkspaceAccess, FiniteSetTheorems, TLAPS

-----------------------------------------------------------------------------
(* Types *)

Statement ==
  [pc : {"idle", "parent", "rows"}, kind : Kind \cup {"none"},
   todo : SUBSET Key, to : Cell \cup {"kept"}, parent : User \cup Workspace \cup {Nobody},
   into : Key \cup {NoKey}]

LEMMA IdleType == Idle \in Statement
BY DEF Idle, Statement, Cell

LEMMA UntouchedType == Untouched \in [Key -> Cell \cup {"kept"}]
BY DEF Untouched

\* Only the progress of a statement changes after it has begun.
LEMMA ProgressType ==
  ASSUME NEW f \in [Session -> Statement], NEW s \in Session,
         NEW pc \in {"idle", "parent", "rows"}, NEW todo \in SUBSET Key
  PROVE  [f EXCEPT ![s].pc = pc, ![s].todo = todo] \in [Session -> Statement]
<1> DEFINE g == [f[s] EXCEPT !.pc = pc, !.todo = todo]
<1>1. f[s] \in Statement
  OBVIOUS
<1>2. g \in Statement
  BY <1>1 DEF Statement
<1>3. [f EXCEPT ![s].pc = pc, ![s].todo = todo] = [f EXCEPT ![s] = g]
  OBVIOUS
<1> HIDE DEF g
<1>4. QED
  BY <1>2, <1>3

LEMMA DoneType ==
  ASSUME NEW f \in [Session -> Statement], NEW s \in Session, NEW x
  PROVE  [f EXCEPT ![s].todo = @ \ {x}] \in [Session -> Statement]
BY DEF Statement

LEMMA BeginType ==
  ASSUME TypeOK, NEW s \in Session, BeginSome(s)
  PROVE  statement' \in [Session -> Statement] /\ UNCHANGED <<tableVars, pending>>
<1>0. statement \in [Session -> Statement]
  BY DEF TypeOK, Statement
<1>1. SUFFICES ASSUME NEW kind \in Kind, NEW pc \in {"parent", "rows"},
                      NEW todo \in SUBSET Key, NEW to \in Cell \cup {"kept"},
                      NEW parent \in User \cup Workspace \cup {Nobody},
                      NEW into \in Key \cup {NoKey},
                      Begin(s, kind, pc, todo, to, parent, into)
               PROVE  statement' \in [Session -> Statement]
                        /\ UNCHANGED <<tableVars, pending>>
  <2>1. CASE \E u \in User, rows \in SUBSET Key : Remove(s, u, rows)
    BY <1>1, <2>1 DEF Remove, Kind, Cell
  <2>2. CASE \E u \in User, rows \in SUBSET Key : SetRole(s, u, rows, "promote", "owner")
    BY <1>1, <2>2 DEF SetRole, Kind, Cell
  <2>3. CASE \E u \in User, rows \in SUBSET Key : SetRole(s, u, rows, "demote", "member")
    BY <1>1, <2>3 DEF SetRole, Kind, Cell
  <2>4. CASE \E u \in User, x \in Key, to \in {"owner", "member"} : Add(s, u, x, to)
    BY <1>1, <2>4 DEF Add, Kind, Cell
  <2>8. CASE \E u \in User, x, y \in Key, to \in {"owner", "member", "kept"} : Move(s, u, x, y, to)
    BY <1>1, <2>8 DEF Move, Kind, Cell
  <2>5. CASE \E u \in User, w \in Workspace : Drop(s, u, w)
    BY <1>1, <2>5 DEF Drop, Kind, Cell
  <2>6. CASE \E u \in User : Deregister(s, u)
    BY <1>1, <2>6 DEF Deregister, Kind, Cell
  <2>7. QED
    BY <2>1, <2>2, <2>3, <2>4, <2>5, <2>6, <2>8 DEF BeginSome
<1>2. [pc |-> pc, kind |-> kind, todo |-> todo, to |-> to, parent |-> parent,
                       into |-> into] \in Statement
  BY DEF Statement
<1>3. QED
  BY <1>0, <1>1, <1>2 DEF Begin

LEMMA RaiseType ==
  ASSUME TypeOK, NEW s \in Session, Raise(s)
  PROVE  /\ statement' \in [Session -> Statement]
         /\ pending' \in [Session -> [Key -> Cell \cup {"kept"}]]
<1>1. statement \in [Session -> Statement]
  BY DEF TypeOK, Statement
<1>2. QED
  BY <1>1, IdleType, UntouchedType DEF Raise, TypeOK

LEMMA FoundType ==
  ASSUME TypeOK, NEW u \in User, NEW w \in Workspace, Found(u, w)
  PROVE  /\ workspaces' \subseteq Workspace
         /\ createdBy' \in [Workspace -> User \cup {Nobody}]
         /\ role' \in [Key -> Cell]
         /\ UNCHANGED <<statement, pending>>
BY DEF Found, TypeOK, Cell, Key

LEMMA CascadesType == ASSUME NEW parent PROVE Cascades(parent) \in SUBSET Key
BY DEF Cascades

LEMMA DeleteRowType ==
  ASSUME statement \in [Session -> Statement], NEW s \in Session, NEW parent,
         DeleteRow(s, Cascades(parent))
  PROVE  statement' \in [Session -> Statement]
<1>1. /\ "rows" \in {"idle", "parent", "rows"}
      /\ Cascades(parent) \in SUBSET Key
  BY CascadesType
<1>2. QED
  BY <1>1, ProgressType DEF DeleteRow

\* A commit leaves other sessions as they are, but for the cascades that follow
\* a row it has moved.
LEMMA CommitSessions ==
  ASSUME TypeOK, NEW s \in Session, Commit(s)
  PROVE  /\ statement' \in [Session -> Statement]
         /\ statement'[s] = Idle
         /\ \A t \in Session \ {s} :
              /\ statement'[t].pc = statement[t].pc /\ statement'[t].kind = statement[t].kind
              /\ statement'[t].to = statement[t].to /\ statement'[t].parent = statement[t].parent
              /\ statement'[t].into = statement[t].into
              /\ statement'[t].todo = statement[t].todo \cup Follows(s, t)
              /\ statement[s].kind # "move" => statement'[t] = statement[t]
<1>1. statement \in [Session -> Statement]
  BY DEF TypeOK, Statement
<1>2. statement' = [t \in Session |->
        IF t = s THEN Idle ELSE [statement[t] EXCEPT !.todo = @ \cup Follows(s, t)]]
  BY DEF Commit
<1>3. \A t \in Session : Follows(s, t) \subseteq Key
  BY DEF Follows
<1>4. ASSUME NEW t \in Session \ {s}
      PROVE  /\ statement'[t] = [statement[t] EXCEPT !.todo = @ \cup Follows(s, t)]
             /\ statement'[t] \in Statement
             /\ statement[s].kind # "move" => statement'[t] = statement[t]
  <2>1. statement'[t] = [statement[t] EXCEPT !.todo = @ \cup Follows(s, t)]
    BY <1>2
  <2>2. statement[t] \in Statement
    BY <1>1
  <2>3. statement'[t] \in Statement
    <3>1. statement[t].todo \cup Follows(s, t) \in SUBSET Key
      BY <1>3, <2>2 DEF Statement
    <3>2. QED
      BY <2>1, <2>2, <3>1 DEF Statement
  <2>4. ASSUME statement[s].kind # "move" PROVE statement'[t] = statement[t]
    <3>1. Follows(s, t) = {}
      BY <2>4 DEF Follows
    <3>2. [statement[t] EXCEPT !.todo = @] = statement[t]
      BY <2>2 DEF Statement
    <3>3. QED
      BY <2>1, <3>1, <3>2
  <2>5. QED
    BY <2>1, <2>3, <2>4
<1>5. statement'[s] = Idle
  BY <1>2
<1>6. statement' \in [Session -> Statement]
  BY <1>2, <1>4, <1>5, IdleType
<1>7. ASSUME NEW t \in Session \ {s}
      PROVE
        /\ statement'[t].pc = statement[t].pc /\ statement'[t].kind = statement[t].kind
        /\ statement'[t].to = statement[t].to /\ statement'[t].parent = statement[t].parent
        /\ statement'[t].into = statement[t].into
        /\ statement'[t].todo = statement[t].todo \cup Follows(s, t)
  <2>1. statement[t] \in Statement
    BY <1>1
  <2>2. statement'[t] = [statement[t] EXCEPT !.todo = @ \cup Follows(s, t)]
    BY <1>4
  <2>3. QED
    BY <2>1, <2>2 DEF Statement
<1>8. QED
  BY <1>4, <1>5, <1>6, <1>7

LEMMA InitTypes == Init => TypeOK
BY IdleType, UntouchedType DEF Init, TypeOK, Statement, Cell

LEMMA TypesInductive == TypeOK /\ [Next]_vars => TypeOK'
<1>1. SUFFICES ASSUME TypeOK, [Next]_vars PROVE TypeOK'
  OBVIOUS
<1>2. statement \in [Session -> Statement]
  BY <1>1 DEF TypeOK, Statement
<1>3. CASE UNCHANGED vars
  BY <1>1, <1>3 DEF TypeOK, vars
<1>4. ASSUME NEW u \in User, NEW w \in Workspace, SignUp(u, w) PROVE TypeOK'
  BY <1>1, <1>4, FoundType DEF SignUp, TypeOK
<1>5. ASSUME NEW u \in User, NEW w \in Workspace, CreateWorkspace(u, w) PROVE TypeOK'
  BY <1>1, <1>5, FoundType DEF CreateWorkspace, TypeOK
<1>6. ASSUME NEW s \in Session, UNCHANGED tableVars,
             statement' \in [Session -> Statement],
             pending' \in [Session -> [Key -> Cell \cup {"kept"}]]
      PROVE  TypeOK'
  BY <1>1, <1>6 DEF TypeOK, tableVars, Statement
<1>7. ASSUME NEW s \in Session, SessionStep(s) PROVE TypeOK'
  <2>1. CASE BeginSome(s)
    BY <1>1, <1>6, <2>1, BeginType DEF TypeOK
  <2>2. CASE DeleteWorkspace(s)
    <3>1. statement' \in [Session -> Statement]
      BY <1>2, <2>2, DeleteRowType, IdleType DEF DeleteWorkspace
    <3>2. QED
      BY <1>1, <1>6, <2>2, <3>1 DEF DeleteWorkspace, TypeOK
  <2>3. CASE DeleteUser(s)
    <3>1. CASE Raise(s)
      BY <1>1, <1>6, <2>3, <3>1, RaiseType DEF DeleteUser
    <3>2. CASE ~Raise(s)
      <4>1. statement' \in [Session -> Statement] /\ UNCHANGED pending
        BY <1>2, <2>3, <3>2, DeleteRowType, IdleType DEF DeleteUser
      <4>2. QED
        BY <1>1, <1>6, <2>3, <4>1 DEF DeleteUser, TypeOK
    <3>3. QED
      BY <3>1, <3>2
  <2>4. ASSUME NEW x \in Key, ChangeRow(s, x) \/ InsertRow(s, x) PROVE TypeOK'
    <3>1. UNCHANGED tableVars
      BY <2>4 DEF ChangeRow, InsertRow
    <3>2. CASE Raise(s)
      BY <1>1, <1>6, <3>1, <3>2, RaiseType
    <3>3. CASE ~Raise(s)
      <4>1. statement' \in [Session -> Statement]
        BY <1>2, <2>4, <3>3, DoneType DEF ChangeRow, InsertRow, Done
      <4>2. pending' \in [Session -> [Key -> Cell \cup {"kept"}]]
        <5>1. statement[s].to \in Cell \cup {"kept"}
          BY <1>2 DEF Statement
        <5>2. pending' = pending \/ pending' = [pending EXCEPT ![s][x] = statement[s].to]
          BY <2>4, <3>3 DEF ChangeRow, InsertRow
        <5>3. pending \in [Session -> [Key -> Cell \cup {"kept"}]]
          BY <1>1 DEF TypeOK
        <5>4. [pending EXCEPT ![s][x] = statement[s].to]
                \in [Session -> [Key -> Cell \cup {"kept"}]]
          BY <5>1, <5>3
        <5>5. QED
          BY <5>2, <5>3, <5>4
      <4>3. QED
        BY <1>6, <3>1, <4>1, <4>2
    <3>4. QED
      BY <3>2, <3>3
  <2>8. ASSUME NEW x \in Key, MoveRow(s, x) PROVE TypeOK'
    <3>1. UNCHANGED tableVars
      BY <2>8 DEF MoveRow
    <3>2. CASE Raise(s)
      BY <1>1, <1>6, <3>1, <3>2, RaiseType
    <3>3. CASE ~Raise(s)
      <4>1. statement' \in [Session -> Statement]
        BY <1>2, <2>8, <3>3, DoneType DEF MoveRow, Done
      <4>2. NewRole(s, x) \in Cell \cup {"kept"} /\ "none" \in Cell
        BY <1>1 DEF TypeOK, NewRole, Cell
      <4>3. \/ pending' = pending
            \/ pending' = [pending EXCEPT ![s][x] = "none",
                                         ![s][statement[s].into] = NewRole(s, x)]
        BY <2>8, <3>3 DEF MoveRow
      <4>4. pending' \in [Session -> [Key -> Cell \cup {"kept"}]]
        <5> DEFINE y == statement[s].into
        <5> HIDE DEF y
        <5>1. pending \in [Session -> [Key -> Cell \cup {"kept"}]]
          BY <1>1 DEF TypeOK
        <5>2. [pending EXCEPT ![s][x] = "none", ![s][y] = NewRole(s, x)]
                \in [Session -> [Key -> Cell \cup {"kept"}]]
          BY <4>2, <5>1
        <5>3. QED
          BY <4>3, <5>1, <5>2 DEF y
      <4>5. QED
        BY <1>6, <3>1, <4>1, <4>4
    <3>4. QED
      BY <3>2, <3>3
  <2>5. CASE Commit(s)
    <3>1. role' \in [Key -> Cell]
      BY <1>1, <2>5 DEF Commit, Sees, TypeOK
    <3>2. /\ statement' \in [Session -> Statement]
          /\ pending' \in [Session -> [Key -> Cell \cup {"kept"}]]
      BY <1>1, <2>5, CommitSessions, UntouchedType DEF Commit, TypeOK
    <3>3. QED
      BY <1>1, <2>5, <3>1, <3>2 DEF Commit, TypeOK, Statement
  <2>6. CASE Abort(s)
    <3>1. /\ statement' \in [Session -> Statement]
          /\ pending' \in [Session -> [Key -> Cell \cup {"kept"}]]
      BY <1>1, <2>6, RaiseType DEF Abort
    <3>2. QED
      BY <1>6, <2>6, <3>1 DEF Abort
  <2>7. QED
    BY <1>7, <2>1, <2>2, <2>3, <2>4, <2>5, <2>6, <2>8 DEF SessionStep
<1>8. QED
  BY <1>1, <1>3, <1>4, <1>5, <1>7 DEF Next

\* The tables, and every statement under way on them, keep their types: each
\* operation of the migrations writes what the columns may hold.
THEOREM TypeCorrect == Spec => []TypeOK
BY InitTypes, TypesInductive, PTL DEF Spec

-----------------------------------------------------------------------------
(* Owners.  LastOwnerKept is about what is committed, and the trigger about *)
(* what one transaction sees.  The invariant relates the two: what a        *)
(* transaction that takes owners away sees keeps an owner in every          *)
(* workspace that has one, but for a row it has moved out, and the others   *)
(* only add owners or remove whole workspaces.                              *)

\* The statements that may take an owner away from a workspace that stays.
Lowering == {"remove", "demote", "deregister", "move"}

\* At most one session sends them.
LoweringAlone ==
  \A s, t \in Session :
    Sends[s] \cap Lowering # {} /\ Sends[t] \cap Lowering # {} => s = t

Changed(s) == {x \in Key : pending[s][x] # "kept"}

\* What a statement is determines what its transaction may have changed.
Shaped(s) ==
  /\ statement[s].pc # "rows" => Changed(s) = {}
  /\ statement[s].pc # "idle" => statement[s].kind \in Sends[s]
  /\ statement[s].kind # "move" => \A x \in Changed(s) : pending[s][x] = statement[s].to
  /\ statement[s].kind = "promote" => statement[s].to = "owner"
  /\ statement[s].kind = "deregister" => statement[s].parent \in User
  /\ statement[s].kind \in Lowering \ {"move"} => statement[s].to \notin {"owner", "kept"}
  /\ statement[s].kind = "add" => \A x \in Changed(s) : role[x] = "none"

\* A workspace is deleted with its own rows and with no other.
DropShaped(s) ==
  statement[s].kind = "drop" =>
    /\ statement[s].parent \in Workspace
    /\ statement[s].pc # "rows" => statement[s].todo = {}
    /\ \A x \in Changed(s) \cup statement[s].todo : x[1] = statement[s].parent

\* A row is taken to another key, of a workspace there has been.
MoveShaped(s) ==
  statement[s].kind = "move" =>
    /\ statement[s].into \in Key /\ statement[s].into[1] \in minted
    /\ \E x \in Key : x # statement[s].into /\ statement[s].todo \subseteq {x}
    /\ statement[s].todo # {} => Changed(s) = {}

\* Nothing concerns a workspace whose id is not minted yet.
Placed(s) == \A x \in Changed(s) \cup statement[s].todo : x[1] \in minted

\* What a transaction that takes owners away has left of them.
OwnersLeft(s) ==
  statement[s].pc = "rows" /\ statement[s].kind \in Lowering =>
    \A w \in workspaces : Led(w) =>
      MovedOut(s, w) \/ \E u \in User : Sees(s, <<w, u>>) = "owner"

SessionInv(s) == Shaped(s) /\ DropShaped(s) /\ MoveShaped(s) /\ Placed(s) /\ OwnersLeft(s)

\* No row is changed by two transactions at once.
LocksApart ==
  \A s, t \in Session : s # t => Changed(s) \cap Changed(t) = {}

RowsPlaced == \A x \in Key : role[x] # "none" => x[1] \in minted

OwnerInv ==
  /\ LocksApart
  /\ RowsPlaced
  /\ \A s \in Session : SessionInv(s)

USE DEF Key

\* A step of one session that commits nothing leaves the others as they are.
LEMMA OneSession ==
  ASSUME TypeOK, OwnerInv, NEW s \in Session, UNCHANGED tableVars,
         \A t \in Session \ {s} : statement'[t] = statement[t] /\ pending'[t] = pending[t],
         SessionInv(s)',
         \A t \in Session \ {s} : Changed(s)' \cap Changed(t) = {}
  PROVE  OwnerInv'
<1>1. \A t \in Session \ {s} : SessionInv(t)'
  <2>1. SUFFICES ASSUME NEW t \in Session \ {s} PROVE SessionInv(t)'
    OBVIOUS
  <2>2. SessionInv(t)
    BY DEF OwnerInv
  <2>3. statement'[t] = statement[t] /\ pending'[t] = pending[t] /\ UNCHANGED <<role, minted, workspaces>>
    BY DEF tableVars
  <2>4. OwnersLeft(t)'
    BY <2>2, <2>3 DEF SessionInv, OwnersLeft, Led, Owns, MovedOut, Vacated, Sees
  <2>5. QED
    BY <2>2, <2>3, <2>4 DEF SessionInv, Shaped, DropShaped, MoveShaped, Placed, Changed
<1>2. LocksApart'
  <2>1. \A t \in Session \ {s} : Changed(t)' = Changed(t)
    BY DEF Changed
  <2>2. QED
    BY <2>1 DEF OwnerInv, LocksApart
<1>3. RowsPlaced'
  BY DEF OwnerInv, RowsPlaced, tableVars
<1>4. QED
  BY <1>1, <1>2, <1>3 DEF OwnerInv

\* A session at rest has nothing to keep.
LEMMA Resting ==
  ASSUME NEW s \in Session, Changed(s)' = {}, statement'[s] = Idle
  PROVE  SessionInv(s)'
BY DEF SessionInv, Shaped, DropShaped, MoveShaped, Placed, OwnersLeft, Idle, Lowering

\* A transaction that has changed nothing yet sees what is committed.
LEMMA SeesCommitted ==
  ASSUME NEW s \in Session, Changed(s) = {}
  PROVE  \A w \in Workspace : Led(w) => \E u \in User : Sees(s, <<w, u>>) = "owner"
BY DEF Changed, Led, Owns, Sees

LEMMA BeginOwners ==
  ASSUME TypeOK, OwnerInv, NEW s \in Session, BeginSome(s)
  PROVE  OwnerInv'
<1>1. SUFFICES ASSUME NEW kind \in Kind, NEW pc \in {"parent", "rows"},
                      NEW todo \in SUBSET Key, NEW to, NEW parent, NEW into,
                      Begin(s, kind, pc, todo, to, parent, into),
                      \A x \in todo : x[1] \in minted,
                      kind = "promote" => to = "owner",
                      kind \in Lowering \ {"move"} => to \notin {"owner", "kept"},
                      kind = "deregister" => parent \in User,
                      kind = "drop" => parent \in Workspace /\ todo = {},
                      kind = "move" =>
                        /\ into \in Key /\ into[1] \in minted
                        /\ \E x \in Key : x # into /\ todo \subseteq {x}
               PROVE  OwnerInv'
  <2>0. RowsPlaced
    BY DEF OwnerInv
  <2>1. CASE \E u \in User, rows \in SUBSET Key : Remove(s, u, rows)
    BY <1>1, <2>0, <2>1 DEF Remove, Kind, Lowering, RowsPlaced
  <2>2. CASE \E u \in User, rows \in SUBSET Key : SetRole(s, u, rows, "promote", "owner")
    BY <1>1, <2>0, <2>2 DEF SetRole, Kind, Lowering, RowsPlaced
  <2>3. CASE \E u \in User, rows \in SUBSET Key : SetRole(s, u, rows, "demote", "member")
    BY <1>1, <2>0, <2>3 DEF SetRole, Kind, Lowering, RowsPlaced
  <2>4. CASE \E u \in User, x \in Key, to \in {"owner", "member"} : Add(s, u, x, to)
    <3>1. PICK u \in User, x \in Key, to \in {"owner", "member"} : Add(s, u, x, to)
      BY <2>4
    <3>2. x[1] \in minted
      <4>1. <<x[1], u>> \in Key /\ role[<<x[1], u>>] # "none"
        BY <3>1 DEF Add, Owns
      <4>2. QED
        BY <2>0, <4>1 DEF RowsPlaced
    <3>3. QED
      BY <1>1, <3>1, <3>2 DEF Add, Kind, Lowering
  <2>8. CASE \E u \in User, x, y \in Key, to \in {"owner", "member", "kept"} : Move(s, u, x, y, to)
    <3>1. PICK u \in User, x \in Key, y \in Key, to \in {"owner", "member", "kept"} :
            Move(s, u, x, y, to)
      BY <2>8
    <3>2. x[1] \in minted /\ y[1] \in minted
      <4>1. /\ <<x[1], u>> \in Key /\ role[<<x[1], u>>] # "none"
            /\ <<y[1], u>> \in Key /\ role[<<y[1], u>>] # "none"
        BY <3>1 DEF Move, Owns
      <4>2. QED
        BY <2>0, <4>1 DEF RowsPlaced
    <3>3. QED
      BY <1>1, <3>1, <3>2 DEF Move, Kind, Lowering
  <2>5. CASE \E u \in User, w \in Workspace : Drop(s, u, w)
    BY <1>1, <2>5 DEF Drop, Kind, Lowering
  <2>6. CASE \E u \in User : Deregister(s, u)
    BY <1>1, <2>6 DEF Deregister, Kind, Lowering
  <2>7. QED
    BY <2>1, <2>2, <2>3, <2>4, <2>5, <2>6, <2>8 DEF BeginSome
<1>2. statement'[s] = [pc |-> pc, kind |-> kind, todo |-> todo, to |-> to, parent |-> parent,
                       into |-> into]
  BY <1>1 DEF Begin, TypeOK
<1>3. \A t \in Session \ {s} : statement'[t] = statement[t] /\ pending'[t] = pending[t]
  BY <1>1 DEF Begin, TypeOK
<1>4. /\ UNCHANGED <<tableVars, pending>>
      /\ statement[s].pc # "rows"
      /\ kind \in Sends[s]
  BY <1>1 DEF Begin, BeginSome
<1>5. Changed(s) = {} /\ Changed(s)' = {}
  BY <1>4 DEF OwnerInv, SessionInv, Shaped, Changed
<1>6. OwnersLeft(s)'
  <2>1. \A w \in workspaces : Led(w) => \E u \in User : Sees(s, <<w, u>>) = "owner"
    BY <1>5, SeesCommitted DEF TypeOK
  <2>2. QED
    BY <1>4, <2>1 DEF OwnersLeft, Led, Owns, Sees, tableVars
<1>7. SessionInv(s)'
  <2>1. Shaped(s)'
    BY <1>1, <1>2, <1>4, <1>5 DEF Shaped
  <2>2. DropShaped(s)'
    BY <1>1, <1>2, <1>5 DEF DropShaped
  <2>3. Placed(s)'
    BY <1>1, <1>2, <1>4, <1>5 DEF Placed, tableVars
  <2>5. MoveShaped(s)'
    BY <1>1, <1>2, <1>4, <1>5 DEF MoveShaped, tableVars
  <2>4. QED
    BY <1>6, <2>1, <2>2, <2>3, <2>5 DEF SessionInv
<1>8. QED
  BY <1>3, <1>4, <1>5, <1>7, OneSession

LEMMA RaiseOwners ==
  ASSUME TypeOK, OwnerInv, NEW s \in Session, UNCHANGED tableVars, Raise(s)
  PROVE  OwnerInv'
<1>1. /\ statement'[s] = Idle
      /\ pending'[s] = Untouched
      /\ \A t \in Session \ {s} : statement'[t] = statement[t] /\ pending'[t] = pending[t]
  BY DEF Raise, TypeOK
<1>2. SessionInv(s)' /\ Changed(s)' = {}
  BY <1>1, Resting DEF Changed, Untouched
<1>3. QED
  BY <1>1, <1>2, OneSession

\* The parent row is deleted and the cascade determined.
LEMMA ParentOwners ==
  ASSUME TypeOK, OwnerInv, NEW s \in Session, UNCHANGED <<tableVars, pending>>,
         statement[s].pc = "parent", statement[s].kind \in {"drop", "deregister"},
         DeleteRow(s, Cascades(statement[s].parent))
  PROVE  OwnerInv'
<1> DEFINE rows == Cascades(statement[s].parent)
<1>1. /\ statement'[s].pc = "rows" /\ statement'[s].todo = rows
      /\ statement'[s].kind = statement[s].kind
      /\ statement'[s].to = statement[s].to
      /\ statement'[s].parent = statement[s].parent
      /\ \A t \in Session \ {s} : statement'[t] = statement[t] /\ pending'[t] = pending[t]
  BY DEF DeleteRow, TypeOK
<1>2. Changed(s) = {} /\ Changed(s)' = {}
  BY DEF OwnerInv, SessionInv, Shaped, Changed
<1>3. \A x \in rows : x[1] \in minted
  BY DEF OwnerInv, RowsPlaced, Cascades
<1>4. statement[s].kind = "drop" => \A x \in rows : x[1] = statement[s].parent
  <2>1. SUFFICES ASSUME statement[s].kind = "drop", NEW x \in rows
                 PROVE  x[1] = statement[s].parent
    OBVIOUS
  <2>2. statement[s].parent \in Workspace
    BY <2>1 DEF OwnerInv, SessionInv, DropShaped
  <2>3. x[2] \in User /\ statement[s].parent \in {x[1], x[2]}
    BY DEF Cascades
  <2>4. QED
    BY <2>2, <2>3, MembershipAssumption
<1>5. OwnersLeft(s)'
  <2>1. \A w \in workspaces : Led(w) => \E u \in User : Sees(s, <<w, u>>) = "owner"
    BY <1>2, SeesCommitted DEF TypeOK
  <2>2. QED
    BY <2>1 DEF OwnersLeft, Led, Owns, Sees, tableVars
<1>6. SessionInv(s)'
  <2>1. Shaped(s) /\ DropShaped(s)
    BY DEF OwnerInv, SessionInv
  <2>2. minted' = minted
    BY DEF tableVars
  <2>3. QED
    BY <1>1, <1>2, <1>3, <1>4, <1>5, <2>1, <2>2
       DEF SessionInv, Shaped, DropShaped, MoveShaped, Placed
<1>7. QED
  BY <1>1, <1>2, <1>6, OneSession

\* A new workspace has its owner, and no transaction has changed a row of it.
LEMMA FoundOwners ==
  ASSUME TypeOK, OwnerInv, NEW u \in User, NEW w \in Workspace, Found(u, w),
         minted \subseteq minted', w \in minted'
  PROVE  OwnerInv'
<1>1. /\ \A x \in Key : role'[x] = IF x = <<w, u>> THEN "owner" ELSE role[x]
      /\ w \notin minted
      /\ workspaces' = workspaces \cup {w}
      /\ UNCHANGED <<statement, pending>>
  BY DEF Found, TypeOK
<1>2. LocksApart'
  BY <1>1 DEF OwnerInv, LocksApart, Changed
<1>3. RowsPlaced'
  BY <1>1 DEF OwnerInv, RowsPlaced
<1>4. \A v \in Workspace \ {w} : Led(v)' <=> Led(v)
  BY <1>1 DEF Led, Owns
<1>5. ASSUME NEW s \in Session PROVE SessionInv(s)'
  <2>0. SessionInv(s)
    BY DEF OwnerInv
  <2>1. /\ Changed(s)' = Changed(s)
        /\ \A x \in Changed(s) : x[1] # w /\ role'[x] = role[x]
    BY <1>1, <2>0 DEF Changed, SessionInv, Placed
  <2>2. OwnersLeft(s)'
    <3>1. SUFFICES ASSUME statement[s].pc = "rows" /\ statement[s].kind \in Lowering,
                          NEW v \in workspaces \cup {w}, Led(v)'
                   PROVE  MovedOut(s, v)' \/ \E o \in User : Sees(s, <<v, o>>)' = "owner"
      BY <1>1 DEF OwnersLeft
    <3>2. CASE v = w
      <4>1. <<w, u>> \notin Changed(s)
        BY <2>1
      <4>2. Sees(s, <<w, u>>)' = "owner"
        BY <1>1, <4>1 DEF Sees, Changed
      <4>3. QED
        BY <3>2, <4>2
    <3>3. CASE v # w
      <4>1. v \in workspaces /\ v \in Workspace
        BY <3>1, <3>3 DEF TypeOK
      <4>2. MovedOut(s, v) \/ \E o \in User : Sees(s, <<v, o>>) = "owner"
        BY <1>4, <2>0, <3>1, <3>3, <4>1 DEF SessionInv, OwnersLeft
      <4>3. \A o \in User : role'[<<v, o>>] = role[<<v, o>>]
        BY <1>1, <3>3, <4>1
      <4>4. QED
        BY <1>1, <4>2, <4>3 DEF Sees, MovedOut, Owns, Vacated
    <3>4. QED
      BY <3>2, <3>3
  <2>3. Shaped(s)'
    BY <1>1, <2>0, <2>1 DEF SessionInv, Shaped
  <2>4. DropShaped(s)'
    BY <1>1, <2>0, <2>1 DEF SessionInv, DropShaped
  <2>5. Placed(s)'
    BY <1>1, <2>0, <2>1 DEF SessionInv, Placed
  <2>6. MoveShaped(s)'
    BY <1>1, <2>0, <2>1 DEF SessionInv, MoveShaped
  <2>7. QED
    BY <2>2, <2>3, <2>4, <2>5, <2>6 DEF SessionInv
<1>6. QED
  BY <1>2, <1>3, <1>5 DEF OwnerInv

\* A row that the trigger lets through leaves the workspace an owner.
LEMMA TriggerKeepsOwner ==
  ASSUME TypeOK, NEW s \in Session, NEW x \in Key,
         statement[s].kind = "deregister" => statement[s].parent \in User,
         statement[s].kind # "drop", NewRole(s, x) # "owner",
         ~Refuses(s, x), role[x] = "owner", pending[s][x] = "kept",
         x[1] \in workspaces
  PROVE  \E u \in User : u # x[2] /\ Sees(s, <<x[1], u>>) = "owner"
<1>1. ~ParentGone(s, x[1])
  BY MembershipAssumption DEF ParentGone, Deleting, TypeOK
<1>2. ~(Cardinality(OwnersSeen(s, x[1])) <= 1)
  BY <1>1 DEF Refuses, Lowers
<1>3. OwnersSeen(s, x[1]) # {x[2]}
  <2>1. Cardinality({x[2]}) = 1
    BY FS_Singleton
  <2>2. QED
    BY <1>2, <2>1
<1>4. x = <<x[1], x[2]>> /\ x[2] \in User
  OBVIOUS
<1>5. x[2] \in OwnersSeen(s, x[1])
  <2>1. Sees(s, <<x[1], x[2]>>) = "owner"
    BY <1>4 DEF Sees
  <2>2. QED
    BY <1>4, <2>1 DEF OwnersSeen
<1>6. PICK u \in OwnersSeen(s, x[1]) : u # x[2]
  BY <1>3, <1>5
<1>7. QED
  BY <1>6 DEF OwnersSeen

\* A row taken off the list without a change.
LEMMA DoneOwners ==
  ASSUME TypeOK, OwnerInv, NEW s \in Session, NEW x \in Key,
         UNCHANGED <<tableVars, pending>>, Done(s, x)
  PROVE  OwnerInv'
<1>1. /\ statement'[s].pc = statement[s].pc /\ statement'[s].kind = statement[s].kind
      /\ statement'[s].to = statement[s].to /\ statement'[s].parent = statement[s].parent
      /\ statement'[s].into = statement[s].into
      /\ statement'[s].todo = statement[s].todo \ {x}
      /\ \A t \in Session \ {s} : statement'[t] = statement[t] /\ pending'[t] = pending[t]
  BY DEF Done, TypeOK
<1>2. Changed(s)' = Changed(s) /\ UNCHANGED <<role, workspaces, minted>>
  BY DEF Changed, tableVars
<1>3. SessionInv(s)
  BY DEF OwnerInv
<1>4. SessionInv(s)'
  <2>1. Shaped(s)'
    BY <1>1, <1>2, <1>3 DEF SessionInv, Shaped
  <2>2. DropShaped(s)'
    BY <1>1, <1>2, <1>3 DEF SessionInv, DropShaped
  <2>3. Placed(s)'
    BY <1>1, <1>2, <1>3 DEF SessionInv, Placed
  <2>4. OwnersLeft(s)'
    BY <1>1, <1>2, <1>3 DEF SessionInv, OwnersLeft, Led, Owns, MovedOut, Vacated, Sees
  <2>5. MoveShaped(s)'
    BY <1>1, <1>2, <1>3 DEF SessionInv, MoveShaped
  <2>6. QED
    BY <2>1, <2>2, <2>3, <2>4, <2>5 DEF SessionInv
<1>5. \A t \in Session \ {s} : Changed(s)' \cap Changed(t) = {}
  BY <1>2 DEF OwnerInv, LocksApart
<1>6. QED
  BY <1>1, <1>4, <1>5, OneSession

\* A row changed under its lock.
LEMMA WriteOwners ==
  ASSUME TypeOK, OwnerInv, NEW s \in Session, NEW x \in Key, UNCHANGED tableVars,
         statement[s].pc = "rows", x \in statement[s].todo, ~Locked(s, x), Done(s, x),
         pending' = [pending EXCEPT ![s][x] = statement[s].to],
         statement[s].kind # "move",
         statement[s].kind = "add" => role[x] = "none",
         statement[s].kind \in Lowering => ~Refuses(s, x)
  PROVE  OwnerInv'
<1>1. /\ statement'[s].pc = statement[s].pc /\ statement'[s].kind = statement[s].kind
      /\ statement'[s].to = statement[s].to /\ statement'[s].parent = statement[s].parent
      /\ statement'[s].todo = statement[s].todo \ {x}
      /\ \A t \in Session \ {s} : statement'[t] = statement[t] /\ pending'[t] = pending[t]
  BY DEF Done, TypeOK
<1>2. \A y \in Key : pending'[s][y] = IF y = x THEN statement[s].to ELSE pending[s][y]
  <2>1. pending \in [Session -> [Key -> Cell \cup {"kept"}]]
    BY DEF TypeOK
  <2>2. QED
    BY <2>1
<1>3. UNCHANGED <<role, workspaces, minted>>
  BY DEF tableVars
<1>4. SessionInv(s)
  BY DEF OwnerInv
<1>5. Changed(s)' \subseteq Changed(s) \cup {x}
  BY <1>2 DEF Changed
<1>6. SessionInv(s)'
  <2>1. Shaped(s)'
    <3>1. \A y \in Changed(s)' : pending'[s][y] = statement[s].to
      BY <1>2, <1>4, <1>5 DEF SessionInv, Shaped
    <3>2. QED
      BY <1>1, <1>3, <1>4, <1>5, <3>1 DEF SessionInv, Shaped
  <2>2. DropShaped(s)'
    BY <1>1, <1>3, <1>4, <1>5 DEF SessionInv, DropShaped
  <2>3. Placed(s)'
    BY <1>1, <1>3, <1>4, <1>5 DEF SessionInv, Placed
  <2>4. OwnersLeft(s)'
    <3>1. SUFFICES ASSUME statement[s].kind \in Lowering, NEW w \in workspaces, Led(w)
                   PROVE  \E u \in User : Sees(s, <<w, u>>)' = "owner"
      BY <1>1, <1>3 DEF OwnersLeft, Led, Owns
    <3>2. w \in Workspace
      BY DEF TypeOK
    <3>3. \A u \in User : <<w, u>> # x => Sees(s, <<w, u>>)' = Sees(s, <<w, u>>)
      BY <1>2, <1>3, <3>2 DEF Sees
    <3>4. PICK u \in User : Sees(s, <<w, u>>) = "owner"
      BY <1>4, <3>1 DEF SessionInv, OwnersLeft, MovedOut
    <3>5. CASE <<w, u>> # x
      BY <3>3, <3>4, <3>5
    <3>6. CASE <<w, u>> = x
      <4>1. statement[s].to \notin {"owner", "kept"}
        BY <1>4, <3>1 DEF SessionInv, Shaped
      <4>2. pending[s][x] = "kept" /\ role[x] = "owner"
        BY <1>4, <3>4, <3>6, <4>1 DEF SessionInv, Shaped, Changed, Sees
      <4>3. /\ statement[s].kind = "deregister" => statement[s].parent \in User
            /\ statement[s].kind # "drop"
            /\ x[1] = w /\ x[2] = u
        BY <1>4, <3>1, <3>6 DEF SessionInv, Shaped, Lowering
      <4>4. PICK o \in User : o # u /\ Sees(s, <<w, o>>) = "owner"
        BY <3>1, <4>1, <4>2, <4>3, TriggerKeepsOwner DEF NewRole
      <4>5. QED
        BY <3>3, <4>3, <4>4
    <3>7. QED
      BY <3>5, <3>6
  <2>5. MoveShaped(s)'
    BY <1>1 DEF MoveShaped
  <2>6. QED
    BY <2>1, <2>2, <2>3, <2>4, <2>5 DEF SessionInv
<1>7. \A t \in Session \ {s} : Changed(s)' \cap Changed(t) = {}
  <2>1. \A t \in Session \ {s} : x \notin Changed(t)
    BY DEF Locked, Changed
  <2>2. QED
    BY <1>5, <2>1 DEF OwnerInv, LocksApart
<1>8. QED
  BY <1>1, <1>6, <1>7, OneSession

LEMMA ChangeRowOwners ==
  ASSUME TypeOK, OwnerInv, NEW s \in Session, NEW x \in Key, ChangeRow(s, x)
  PROVE  OwnerInv'
<1>1. CASE Done(s, x) /\ UNCHANGED pending
  BY <1>1, DoneOwners DEF ChangeRow
<1>2. CASE Raise(s)
  BY <1>2, RaiseOwners DEF ChangeRow
<1>3. CASE /\ ~Refuses(s, x) /\ Done(s, x)
           /\ pending' = [pending EXCEPT ![s][x] = statement[s].to]
  BY <1>3, WriteOwners DEF ChangeRow
<1>4. QED
  BY <1>1, <1>2, <1>3 DEF ChangeRow

LEMMA InsertRowOwners ==
  ASSUME TypeOK, OwnerInv, NEW s \in Session, NEW x \in Key, InsertRow(s, x)
  PROVE  OwnerInv'
<1>1. statement[s].kind = "add" /\ statement[s].kind \notin Lowering
  BY DEF InsertRow, Lowering
<1>2. CASE Raise(s)
  BY <1>1, <1>2, RaiseOwners DEF InsertRow
<1>3. CASE ~Raise(s)
  BY <1>1, <1>3, WriteOwners DEF InsertRow
<1>4. QED
  BY <1>2, <1>3

\* A row taken to another key: it stays an owner's elsewhere, or in the same
\* workspace, or the trigger has looked.
LEMMA MoveRowOwners ==
  ASSUME TypeOK, OwnerInv, NEW s \in Session, NEW x \in Key, MoveRow(s, x)
  PROVE  OwnerInv'
<1>1. CASE Done(s, x) /\ UNCHANGED pending
  BY <1>1, DoneOwners DEF MoveRow
<1>2. CASE Raise(s)
  BY <1>2, RaiseOwners DEF MoveRow
<1>3. CASE ~Raise(s) /\ ~UNCHANGED pending
  <2>0. SessionInv(s) /\ statement[s].kind = "move"
    BY DEF OwnerInv, MoveRow
  <2>1. PICK y \in Key : y = statement[s].into
    BY <2>0 DEF SessionInv, MoveShaped
  <2>2. /\ statement[s].pc = "rows" /\ x \in statement[s].todo
        /\ ~Locked(s, x) /\ ~Locked(s, y) /\ Done(s, x) /\ UNCHANGED tableVars
        /\ role[y] = "none" /\ ~Refuses(s, x)
        /\ pending' = [pending EXCEPT ![s][x] = "none", ![s][y] = NewRole(s, x)]
    BY <1>3, <2>1 DEF MoveRow
  <2>3. /\ statement'[s].pc = "rows" /\ statement'[s].kind = "move"
        /\ statement'[s].into = y
        /\ statement'[s].todo = statement[s].todo \ {x}
        /\ \A t \in Session \ {s} : statement'[t] = statement[t] /\ pending'[t] = pending[t]
        /\ UNCHANGED <<role, workspaces, minted>>
    BY <2>0, <2>1, <2>2 DEF Done, TypeOK, tableVars
  <2>4. /\ x # y /\ Changed(s) = {} /\ statement[s].todo = {x}
        /\ x[1] \in minted /\ y[1] \in minted
    BY <2>0, <2>1, <2>2 DEF SessionInv, MoveShaped, Placed
  <2>5. \A z \in Key : /\ pending[s][z] = "kept"
                       /\ pending'[s][z] = IF z = y THEN NewRole(s, x)
                                           ELSE IF z = x THEN "none" ELSE "kept"
    <3>1. pending \in [Session -> [Key -> Cell \cup {"kept"}]]
      BY DEF TypeOK
    <3>2. \A z \in Key : pending[s][z] = "kept"
      BY <2>4 DEF Changed
    <3>3. QED
      BY <2>2, <2>4, <3>1, <3>2
  <2>6. Changed(s)' \subseteq {x, y} /\ x \in Vacated(s)'
    BY <2>4, <2>5 DEF Changed, Vacated
  <2>7. OwnersLeft(s)'
    <3>1. SUFFICES ASSUME NEW w \in workspaces, Led(w)
                   PROVE  MovedOut(s, w)' \/ \E u \in User : Sees(s, <<w, u>>)' = "owner"
      BY <2>3 DEF OwnersLeft, Led, Owns
    <3>2. w \in Workspace
      BY DEF TypeOK
    <3>3. PICK u \in User : role[<<w, u>>] = "owner"
      BY <3>1 DEF Led, Owns
    <3>4. \A o \in User : role[<<w, o>>] = "owner" /\ <<w, o>> # x => Sees(s, <<w, o>>)' = "owner"
      BY <2>2, <2>3, <2>5, <3>2 DEF Sees
    <3>5. CASE <<w, u>> # x
      BY <3>3, <3>4, <3>5
    <3>6. CASE <<w, u>> = x
      <4>1. x[1] = w /\ x[2] = u /\ role[x] = "owner"
        BY <3>3, <3>6
      <4>2. CASE NewRole(s, x) # "owner"
        <5>1. PICK o \in User : o # x[2] /\ Sees(s, <<x[1], o>>) = "owner"
          BY <2>0, <2>2, <2>5, <3>1, <4>1, <4>2, TriggerKeepsOwner
        <5>2. role[<<w, o>>] = "owner" /\ <<w, o>> # x
          BY <2>5, <3>2, <4>1, <5>1 DEF Sees
        <5>3. QED
          BY <3>4, <5>2
      <4>3. CASE NewRole(s, x) = "owner"
        <5>1. pending'[s][y] = "owner" /\ y = <<y[1], y[2]>> /\ y[2] \in User
          BY <2>5, <4>3
        <5>2. CASE y[1] = w
          <6>1. Sees(s, <<w, y[2]>>)' = "owner"
            BY <5>1, <5>2 DEF Sees
          <6>2. QED
            BY <5>1, <6>1
        <5>3. CASE y[1] # w
          BY <2>3, <2>6, <3>3, <3>6, <5>1, <5>3 DEF MovedOut, Owns
        <5>4. QED
          BY <5>2, <5>3
      <4>4. QED
        BY <4>2, <4>3
    <3>7. QED
      BY <3>5, <3>6
  <2>8. SessionInv(s)'
    <3>1. Shaped(s)'
      <4>1. statement[s].pc = "rows" /\ statement[s].kind \in Sends[s]
        BY <2>0, <2>2 DEF SessionInv, Shaped
      <4>2. QED
        BY <2>0, <2>3, <4>1 DEF Shaped
    <3>2. DropShaped(s)' /\ Placed(s)'
      BY <2>3, <2>4, <2>6 DEF DropShaped, Placed
    <3>3. MoveShaped(s)'
      <4>1. statement'[s].todo = {}
        BY <2>3, <2>4
      <4>2. QED
        BY <2>3, <2>4, <4>1 DEF MoveShaped
    <3>4. QED
      BY <2>7, <3>1, <3>2, <3>3 DEF SessionInv
  <2>9. \A t \in Session \ {s} : Changed(s)' \cap Changed(t) = {}
    <3>1. \A t \in Session \ {s} : x \notin Changed(t) /\ y \notin Changed(t)
      BY <2>2 DEF Locked, Changed
    <3>2. QED
      BY <2>6, <3>1
  <2>10. QED
    BY <2>2, <2>3, <2>8, <2>9, OneSession
<1>4. QED
  BY <1>1, <1>2, <1>3 DEF MoveRow

\* A transaction that is not one of those that may take owners away takes none
\* from a workspace that stays.
LEMMA CommitKeepsOwners ==
  ASSUME TypeOK, OwnerInv, NEW s \in Session, Commit(s),
         statement[s].kind \notin Lowering, NEW x \in Key,
         role[x] = "owner", x[1] \in workspaces'
  PROVE  role'[x] = "owner"
<1>1. /\ role'[x] = Sees(s, x) /\ statement[s].pc = "rows"
      /\ workspaces' = workspaces \ {w \in Workspace : Deleting(s, w)}
  BY DEF Commit
<1>2. SessionInv(s)
  BY DEF OwnerInv
<1>3. CASE x \notin Changed(s)
  BY <1>1, <1>3 DEF Changed, Sees
<1>4. CASE x \in Changed(s)
  <2>1. statement[s].kind \in Kind
    BY <1>1, <1>2, MembershipAssumption DEF SessionInv, Shaped
  <2>2. statement[s].kind # "add"
    BY <1>2, <1>4 DEF SessionInv, Shaped
  <2>3. statement[s].kind # "drop"
    <3>1. SUFFICES ASSUME statement[s].kind = "drop" PROVE FALSE
      OBVIOUS
    <3>2. x[1] = statement[s].parent
      BY <1>2, <1>4, <3>1 DEF SessionInv, DropShaped
    <3>3. Deleting(s, x[1]) /\ x[1] \in Workspace
      BY <1>1, <3>1, <3>2 DEF Deleting
    <3>4. QED
      BY <1>1, <3>3
  <2>4. statement[s].kind = "promote"
    BY <2>1, <2>2, <2>3 DEF Kind, Lowering
  <2>5. pending[s][x] = "owner"
    BY <1>2, <1>4, <2>4 DEF SessionInv, Shaped
  <2>6. QED
    BY <1>1, <2>5 DEF Sees
<1>5. QED
  BY <1>3, <1>4

\* What a transaction has changed becomes what everybody sees.
LEMMA CommitOwners ==
  ASSUME TypeOK, OwnerInv, LoweringAlone, NEW s \in Session, Commit(s)
  PROVE  OwnerInv'
<1>1. /\ \A x \in Key : role'[x] = Sees(s, x)
      /\ workspaces' = workspaces \ {w \in Workspace : Deleting(s, w)}
      /\ minted' = minted
      /\ statement[s].pc = "rows" /\ pending'[s] = Untouched
      /\ \A t \in Session \ {s} : pending'[t] = pending[t]
  BY DEF Commit, TypeOK
<1>2. /\ statement'[s] = Idle
      /\ \A t \in Session \ {s} :
           /\ statement'[t].pc = statement[t].pc /\ statement'[t].kind = statement[t].kind
           /\ statement'[t].to = statement[t].to /\ statement'[t].parent = statement[t].parent
           /\ statement'[t].into = statement[t].into
           /\ statement'[t].todo = statement[t].todo \cup Follows(s, t)
           /\ statement[s].kind # "move" => statement'[t] = statement[t]
  BY CommitSessions
<1>3. /\ \A x \in Key : x \notin Changed(s) => role'[x] = role[x]
      /\ Changed(s)' = {}
      /\ \A t \in Session \ {s} : Changed(t)' = Changed(t) /\ Changed(t) \cap Changed(s) = {}
  BY <1>1 DEF Changed, Sees, Untouched, OwnerInv, LocksApart
<1>4. SessionInv(s)
  BY DEF OwnerInv
<1>5. LocksApart'
  <2>1. \A t \in Session : Changed(t)' \subseteq Changed(t)
    BY <1>3
  <2>2. QED
    BY <2>1 DEF OwnerInv, LocksApart
<1>6. RowsPlaced'
  BY <1>1, <1>3, <1>4 DEF OwnerInv, RowsPlaced, SessionInv, Placed
<1>7. SessionInv(s)'
  BY <1>2, <1>3, Resting
<1>8. ASSUME NEW t \in Session \ {s} PROVE SessionInv(t)'
  <2>1. /\ SessionInv(t) /\ pending'[t] = pending[t]
        /\ Changed(t)' = Changed(t)
        /\ \A x \in Changed(t) : role'[x] = role[x]
    BY <1>1, <1>3 DEF OwnerInv, Changed
  <2>2. Shaped(t)'
    BY <1>2, <2>1 DEF SessionInv, Shaped
  <2>3. DropShaped(t)'
    <3>1. ASSUME statement[t].kind = "drop", NEW y \in Follows(s, t)
          PROVE  y[1] = statement[t].parent /\ statement[t].pc = "rows"
      <4>1. statement[t].parent \in Workspace /\ statement[t].pc = "rows"
        BY <2>1, <3>1 DEF SessionInv, DropShaped, Follows
      <4>2. y[2] \in User /\ statement[t].parent \in {y[1], y[2]}
        BY <3>1 DEF Follows, Parents
      <4>3. QED
        BY <4>1, <4>2, MembershipAssumption
    <3>2. QED
      BY <1>2, <2>1, <3>1 DEF SessionInv, DropShaped
  <2>4. Placed(t)'
    <3>1. \A y \in Follows(s, t) : y[1] \in minted
      BY <1>4 DEF Follows, SessionInv, MoveShaped
    <3>2. QED
      BY <1>1, <1>2, <2>1, <3>1 DEF SessionInv, Placed
  <2>5. MoveShaped(t)'
    <3>1. statement[t].kind = "move" => Follows(s, t) = {}
      BY DEF Follows
    <3>2. QED
      BY <1>1, <1>2, <2>1, <3>1 DEF SessionInv, MoveShaped
  <2>6. OwnersLeft(t)'
    <3>1. SUFFICES ASSUME statement[t].pc = "rows", statement[t].kind \in Lowering,
                          NEW w \in workspaces', Led(w)'
                   PROVE  MovedOut(t, w)' \/ \E u \in User : Sees(t, <<w, u>>)' = "owner"
      BY <1>2 DEF OwnersLeft
    <3>2. statement[s].kind \notin Lowering
      BY <1>1, <1>4, <2>1, <3>1 DEF LoweringAlone, SessionInv, Shaped
    <3>3. w \in workspaces /\ w \in Workspace
      BY <1>1 DEF TypeOK
    <3>4. \A u \in User : role[<<w, u>>] = "owner" => role'[<<w, u>>] = "owner"
      BY <3>2, <3>3, CommitKeepsOwners
    <3>5. CASE Led(w)
      <4>1. MovedOut(t, w) \/ \E u \in User : Sees(t, <<w, u>>) = "owner"
        BY <2>1, <3>1, <3>3, <3>5 DEF SessionInv, OwnersLeft
      <4>2. MovedOut(t, w) => MovedOut(t, w)'
        BY <1>2, <2>1, <3>4 DEF MovedOut, Owns, Vacated
      <4>3. \A u \in User : Sees(t, <<w, u>>) = "owner" => Sees(t, <<w, u>>)' = "owner"
        BY <2>1, <3>4 DEF Sees
      <4>4. QED
        BY <4>1, <4>2, <4>3
    <3>6. CASE ~Led(w)
      <4>1. PICK u \in User : role'[<<w, u>>] = "owner"
        BY <3>1 DEF Led, Owns
      <4>2. <<w, u>> \notin Changed(t)
        BY <2>1, <3>6, <4>1 DEF Led, Owns
      <4>3. Sees(t, <<w, u>>)' = "owner"
        BY <2>1, <3>3, <4>1, <4>2 DEF Sees, Changed
      <4>4. QED
        BY <4>3
    <3>7. QED
      BY <3>5, <3>6
  <2>7. QED
    BY <2>2, <2>3, <2>4, <2>5, <2>6 DEF SessionInv
<1>9. QED
  BY <1>5, <1>6, <1>7, <1>8 DEF OwnerInv

LEMMA InitOwners == Init => OwnerInv
<1>1. SUFFICES ASSUME Init PROVE OwnerInv
  OBVIOUS
<1>2. \A s \in Session : Changed(s) = {} /\ statement[s] = Idle
  BY <1>1 DEF Init, Changed, Untouched
<1>3. \A s \in Session : SessionInv(s)
  BY <1>2 DEF SessionInv, Shaped, DropShaped, MoveShaped, Placed, OwnersLeft, Idle, Lowering
<1>4. QED
  BY <1>1, <1>2, <1>3 DEF Init, OwnerInv, LocksApart, RowsPlaced

\* A statement that finds nothing to delete.
LEMMA NothingOwners ==
  ASSUME TypeOK, OwnerInv, NEW s \in Session, UNCHANGED <<tableVars, pending>>,
         statement[s].pc = "parent", statement' = [statement EXCEPT ![s] = Idle]
  PROVE  OwnerInv'
<1>1. /\ statement'[s] = Idle
      /\ \A t \in Session \ {s} : statement'[t] = statement[t] /\ pending'[t] = pending[t]
  BY DEF TypeOK
<1>2. Changed(s)' = {}
  BY DEF OwnerInv, SessionInv, Shaped, Changed
<1>3. SessionInv(s)'
  BY <1>1, <1>2, Resting
<1>4. QED
  BY <1>1, <1>2, <1>3, OneSession

LEMMA OwnersInductive ==
  TypeOK /\ OwnerInv /\ LoweringAlone /\ [Next]_vars => OwnerInv'
<1>1. SUFFICES ASSUME TypeOK, OwnerInv, LoweringAlone, [Next]_vars PROVE OwnerInv'
  OBVIOUS
<1>2. CASE UNCHANGED vars
  BY <1>1, <1>2 DEF OwnerInv, LocksApart, RowsPlaced, Led, Owns, MovedOut, Vacated, SessionInv,
     Shaped, DropShaped, MoveShaped, Placed, OwnersLeft, Changed, Sees, vars
<1>3. ASSUME NEW u \in User, NEW w \in Workspace, SignUp(u, w) \/ CreateWorkspace(u, w)
      PROVE  OwnerInv'
  BY <1>1, <1>3, FoundOwners DEF SignUp, CreateWorkspace
<1>4. ASSUME NEW s \in Session, SessionStep(s) PROVE OwnerInv'
  <2>1. CASE BeginSome(s)
    BY <1>1, <2>1, BeginOwners
  <2>2. CASE DeleteWorkspace(s)
    BY <1>1, <2>2, ParentOwners, NothingOwners DEF DeleteWorkspace
  <2>3. CASE DeleteUser(s)
    <3>1. statement[s].pc = "parent" /\ statement[s].kind = "deregister" /\ UNCHANGED tableVars
      BY <2>3 DEF DeleteUser
    <3>2. CASE Raise(s)
      BY <1>1, <3>1, <3>2, RaiseOwners
    <3>3. CASE ~Raise(s)
      BY <1>1, <2>3, <3>1, <3>3, ParentOwners, NothingOwners DEF DeleteUser
    <3>4. QED
      BY <3>2, <3>3
  <2>4. CASE \E x \in Key : ChangeRow(s, x) \/ InsertRow(s, x)
    BY <1>1, <2>4, ChangeRowOwners, InsertRowOwners
  <2>8. CASE \E x \in Key : MoveRow(s, x)
    BY <1>1, <2>8, MoveRowOwners
  <2>5. CASE Commit(s)
    BY <1>1, <2>5, CommitOwners
  <2>6. CASE Abort(s)
    BY <1>1, <2>6, RaiseOwners DEF Abort
  <2>7. QED
    BY <1>4, <2>1, <2>2, <2>3, <2>4, <2>5, <2>6, <2>8 DEF SessionStep
<1>5. QED
  BY <1>1, <1>2, <1>3, <1>4 DEF Next

\* A step of LastOwnerKept.
LastOwnerStays ==
  \A w \in workspaces \cap workspaces' :
    Led(w) /\ ~Led(w)' => \E s \in Session : Commit(s) /\ MovedOut(s, w)

LEMMA OwnersStep == TypeOK /\ OwnerInv /\ [Next]_vars => LastOwnerStays
<1>1. SUFFICES ASSUME TypeOK, OwnerInv, [Next]_vars,
                      NEW w \in workspaces, w \in workspaces', Led(w), ~Led(w)'
               PROVE  \E s \in Session : Commit(s) /\ MovedOut(s, w)
  BY DEF LastOwnerStays
<1>2. w \in Workspace
  BY <1>1 DEF TypeOK
<1>3. PICK u \in User : role[<<w, u>>] = "owner" /\ role'[<<w, u>>] # "owner"
  BY <1>1 DEF Led, Owns
<1>4. ASSUME NEW s \in Session, Commit(s) PROVE MovedOut(s, w)
  <2>1. statement[s].kind \in Lowering
    BY <1>1, <1>2, <1>3, <1>4, CommitKeepsOwners
  <2>2. statement[s].pc = "rows" /\ \A o \in User : role'[<<w, o>>] = Sees(s, <<w, o>>)
    BY <1>2, <1>4 DEF Commit
  <2>3. MovedOut(s, w) \/ \E o \in User : Sees(s, <<w, o>>) = "owner"
    BY <1>1, <2>1, <2>2 DEF OwnerInv, SessionInv, OwnersLeft
  <2>4. QED
    BY <1>1, <2>2, <2>3 DEF Led, Owns
<1>5. ASSUME NEW v \in User, NEW x \in Workspace, SignUp(v, x) \/ CreateWorkspace(v, x)
      PROVE  FALSE
  BY <1>1, <1>2, <1>3, <1>5 DEF SignUp, CreateWorkspace, Found, TypeOK
<1>6. ASSUME NEW s \in Session, SessionStep(s), ~Commit(s) PROVE FALSE
  BY <1>3, <1>6 DEF SessionStep, BeginSome, Remove, SetRole, Move, Add, Drop, Deregister, Begin,
     DeleteWorkspace, DeleteUser, ChangeRow, MoveRow, InsertRow, Abort, tableVars
<1>7. QED
  BY <1>1, <1>3, <1>4, <1>5, <1>6 DEF Next, vars

\* A workspace that has an owner is left without one by a move alone, as long as
\* one session takes owners away: the count of prevent_last_owner_removal is then
\* not stale when the transaction commits, whatever is added, promoted or dropped
\* meanwhile, and the one row it lets out of its workspace is an owner's that
\* stays an owner's.
THEOREM LastOwnersKept == ASSUME LoweringAlone PROVE Spec => LastOwnerKept
<1>1. Init => TypeOK /\ OwnerInv
  BY InitTypes, InitOwners
<1>2. TypeOK /\ OwnerInv /\ [Next]_vars => (TypeOK /\ OwnerInv)'
  BY TypesInductive, OwnersInductive
<1>3. TypeOK /\ OwnerInv /\ [Next]_vars => [LastOwnerStays]_vars
  BY OwnersStep
<1>4. Spec => [][LastOwnerStays]_vars
  BY <1>1, <1>2, <1>3, PTL DEF Spec
<1>5. QED
  BY <1>4 DEF LastOwnerKept, LastOwnerStays

\* No session moves a row out of its workspace.
NoMoves == \A s \in Session : "move" \notin Sends[s]

LEMMA LedInductive ==
  TypeOK /\ OwnerInv /\ OwnerRetained /\ NoMoves /\ [Next]_vars => OwnerRetained'
<1>1. SUFFICES ASSUME TypeOK, OwnerInv, OwnerRetained, NoMoves, [Next]_vars,
                      NEW w \in workspaces', ~Led(w)'
               PROVE  FALSE
  BY DEF OwnerRetained
<1>2. CASE w \in workspaces
  <2>1. PICK s \in Session : Commit(s) /\ MovedOut(s, w)
    BY <1>1, <1>2, OwnersStep DEF LastOwnerStays, OwnerRetained
  <2>2. QED
    BY <1>1, <2>1 DEF Commit, MovedOut, NoMoves, OwnerInv, SessionInv, Shaped
<1>3. CASE w \notin workspaces
  <2>1. ASSUME NEW u \in User, NEW v \in Workspace, SignUp(u, v) \/ CreateWorkspace(u, v)
        PROVE  FALSE
    <3>1. w = v /\ role' = [role EXCEPT ![<<v, u>>] = "owner"]
      BY <1>1, <1>3, <2>1 DEF SignUp, CreateWorkspace, Found
    <3>2. role'[<<w, u>>] = "owner"
      BY <1>1, <3>1 DEF TypeOK
    <3>3. QED
      BY <1>1, <3>2 DEF Led, Owns
  <2>2. ASSUME NEW s \in Session, SessionStep(s) PROVE FALSE
    BY <1>1, <1>3, <2>2 DEF SessionStep, BeginSome, Remove, SetRole, Move, Add, Drop, Deregister,
       Begin, DeleteWorkspace, DeleteUser, ChangeRow, MoveRow, InsertRow, Commit, Abort, tableVars
  <2>3. QED
    BY <1>1, <1>3, <2>1, <2>2 DEF Next, vars
<1>4. QED
  BY <1>2, <1>3

\* And where no session moves rows either, every workspace keeps an owner.
THEOREM OwnersKept == ASSUME LoweringAlone, NoMoves PROVE Spec => []OwnerRetained
<1>1. Init => TypeOK /\ OwnerInv /\ OwnerRetained
  BY InitTypes, InitOwners DEF Init, OwnerRetained
<1>2. TypeOK /\ OwnerInv /\ OwnerRetained /\ [Next]_vars => (TypeOK /\ OwnerInv /\ OwnerRetained)'
  BY TypesInductive, OwnersInductive, LedInductive
<1>3. QED
  BY <1>1, <1>2, PTL DEF Spec

-----------------------------------------------------------------------------
(* Dropping a workspace, with nothing assumed of what the sessions send.    *)

DropInv ==
  \A s \in Session :
    DropShaped(s) /\ (statement[s].pc # "rows" => Changed(s) = {})

LEMMA InitDrop == Init => DropInv
BY DEF Init, DropInv, DropShaped, Changed, Untouched, Idle

\* Only a session's own steps concern it.
LEMMA DropOfOne ==
  ASSUME TypeOK, DropInv, NEW s \in Session,
         \A t \in Session \ {s} : statement'[t] = statement[t] /\ pending'[t] = pending[t],
         DropShaped(s)', statement'[s].pc # "rows" => Changed(s)' = {}
  PROVE  DropInv'
BY DEF DropInv, DropShaped, Changed

LEMMA BeginDrop ==
  ASSUME TypeOK, DropInv, NEW s \in Session, BeginSome(s)
  PROVE  DropInv'
<1>1. SUFFICES ASSUME NEW kind, NEW pc \in {"parent", "rows"}, NEW todo, NEW to, NEW parent, NEW into,
                      Begin(s, kind, pc, todo, to, parent, into),
                      kind = "drop" => parent \in Workspace /\ todo = {}
               PROVE  DropInv'
  <2>1. CASE \E u \in User, rows \in SUBSET Key : Remove(s, u, rows)
    BY <1>1, <2>1 DEF Remove
  <2>2. CASE \E u \in User, rows \in SUBSET Key : SetRole(s, u, rows, "promote", "owner")
    BY <1>1, <2>2 DEF SetRole
  <2>3. CASE \E u \in User, rows \in SUBSET Key : SetRole(s, u, rows, "demote", "member")
    BY <1>1, <2>3 DEF SetRole
  <2>4. CASE \E u \in User, x \in Key, to \in {"owner", "member"} : Add(s, u, x, to)
    BY <1>1, <2>4 DEF Add
  <2>8. CASE \E u \in User, x, y \in Key, to \in {"owner", "member", "kept"} : Move(s, u, x, y, to)
    BY <1>1, <2>8 DEF Move
  <2>5. CASE \E u \in User, w \in Workspace : Drop(s, u, w)
    BY <1>1, <2>5 DEF Drop
  <2>6. CASE \E u \in User : Deregister(s, u)
    BY <1>1, <2>6 DEF Deregister
  <2>7. QED
    BY <2>1, <2>2, <2>3, <2>4, <2>5, <2>6, <2>8 DEF BeginSome
<1>2. /\ statement'[s] = [pc |-> pc, kind |-> kind, todo |-> todo, to |-> to, parent |-> parent,
                       into |-> into]
      /\ \A t \in Session \ {s} : statement'[t] = statement[t]
      /\ statement[s].pc # "rows" /\ pending' = pending
  BY <1>1 DEF Begin, BeginSome, TypeOK
<1>3. Changed(s)' = {}
  BY <1>2 DEF DropInv, Changed
<1>4. DropShaped(s)'
  BY <1>1, <1>2, <1>3 DEF DropShaped
<1>5. QED
  BY <1>2, <1>3, <1>4, DropOfOne

LEMMA RestDrop ==
  ASSUME TypeOK, DropInv, NEW s \in Session,
         statement' = [statement EXCEPT ![s] = Idle],
         \/ pending' = [pending EXCEPT ![s] = Untouched]
         \/ statement[s].pc # "rows" /\ UNCHANGED pending
  PROVE  DropInv'
<1>1. /\ \A t \in Session \ {s} : statement'[t] = statement[t] /\ pending'[t] = pending[t]
      /\ statement'[s].kind # "drop"
  BY DEF Idle, TypeOK
<1>2. Changed(s)' = {}
  BY DEF DropInv, Changed, Untouched, TypeOK
<1>3. QED
  BY <1>1, <1>2, DropOfOne DEF DropShaped

\* The rows a cascade follows refer to what it deletes.
LEMMA CommitDrop ==
  ASSUME TypeOK, DropInv, NEW s \in Session, Commit(s)
  PROVE  DropInv'
<1>1. /\ pending'[s] = Untouched
      /\ \A t \in Session \ {s} : pending'[t] = pending[t]
  BY DEF Commit, TypeOK
<1>2. ASSUME NEW t \in Session \ {s}
      PROVE  DropShaped(t)' /\ (statement'[t].pc # "rows" => Changed(t)' = {})
  <2>1. /\ statement'[t].pc = statement[t].pc /\ statement'[t].kind = statement[t].kind
        /\ statement'[t].parent = statement[t].parent
        /\ statement'[t].todo = statement[t].todo \cup Follows(s, t)
    BY <1>2, CommitSessions
  <2>2. Changed(t)' = Changed(t)
    BY <1>1, <1>2 DEF Changed
  <2>3. ASSUME statement[t].kind = "drop", NEW y \in Follows(s, t)
        PROVE  y[1] = statement[t].parent
    <3>1. statement[t].parent \in Workspace
      BY <2>3 DEF DropInv, DropShaped
    <3>2. y[2] \in User /\ statement[t].parent \in {y[1], y[2]}
      BY <2>3 DEF Follows, Parents
    <3>3. QED
      BY <3>1, <3>2, MembershipAssumption
  <2>4. statement[t].kind = "drop" /\ statement[t].pc # "rows" => Follows(s, t) = {}
    BY <1>2 DEF DropInv, DropShaped, Follows
  <2>5. QED
    BY <2>1, <2>2, <2>3, <2>4 DEF DropInv, DropShaped
<1>3. DropShaped(s)' /\ Changed(s)' = {}
  BY <1>1, CommitSessions DEF DropShaped, Changed, Untouched, Idle
<1>4. QED
  BY <1>2, <1>3 DEF DropInv

LEMMA CascadeDrop ==
  ASSUME TypeOK, DropInv, NEW s \in Session, UNCHANGED pending,
         statement[s].pc = "parent", DeleteRow(s, Cascades(statement[s].parent))
  PROVE  DropInv'
<1>1. /\ statement'[s].pc = "rows" /\ statement'[s].todo = Cascades(statement[s].parent)
      /\ statement'[s].kind = statement[s].kind
      /\ statement'[s].parent = statement[s].parent
      /\ \A t \in Session \ {s} : statement'[t] = statement[t] /\ pending'[t] = pending[t]
  BY DEF DeleteRow, TypeOK
<1>2. Changed(s)' = {}
  BY DEF DropInv, Changed
<1>3. ASSUME statement[s].kind = "drop", NEW x \in Cascades(statement[s].parent)
      PROVE  statement[s].parent \in Workspace /\ x[1] = statement[s].parent
  <2>1. statement[s].parent \in Workspace
    BY <1>3 DEF DropInv, DropShaped
  <2>2. x[2] \in User /\ statement[s].parent \in {x[1], x[2]}
    BY <1>3 DEF Cascades
  <2>3. QED
    BY <2>1, <2>2, MembershipAssumption
<1>4. DropShaped(s)'
  <2>1. statement[s].kind = "drop" => statement[s].parent \in Workspace
    BY DEF DropInv, DropShaped
  <2>2. QED
    BY <1>1, <1>2, <1>3, <2>1 DEF DropShaped
<1>5. QED
  BY <1>1, <1>2, <1>4, DropOfOne

LEMMA RowDrop ==
  ASSUME TypeOK, DropInv, NEW s \in Session, NEW x \in Key,
         statement[s].pc = "rows", x \in statement[s].todo, Done(s, x),
         \/ UNCHANGED pending
         \/ pending' = [pending EXCEPT ![s][x] = statement[s].to]
  PROVE  DropInv'
<1>1. /\ statement'[s].pc = statement[s].pc /\ statement'[s].kind = statement[s].kind
      /\ statement'[s].parent = statement[s].parent
      /\ statement'[s].todo = statement[s].todo \ {x}
      /\ \A t \in Session \ {s} : statement'[t] = statement[t] /\ pending'[t] = pending[t]
  BY DEF Done, TypeOK
<1>2. Changed(s)' \subseteq Changed(s) \cup {x}
  <2>1. pending \in [Session -> [Key -> Cell \cup {"kept"}]]
    BY DEF TypeOK
  <2>2. \A y \in Key \ {x} : pending'[s][y] = pending[s][y]
    BY <2>1
  <2>3. QED
    BY <2>2 DEF Changed
<1>3. DropShaped(s)'
  BY <1>1, <1>2 DEF DropInv, DropShaped
<1>4. QED
  BY <1>1, <1>3, DropOfOne

LEMMA DropInductive == TypeOK /\ DropInv /\ [Next]_vars => DropInv'
<1>1. SUFFICES ASSUME TypeOK, DropInv, [Next]_vars PROVE DropInv'
  OBVIOUS
<1>2. CASE UNCHANGED <<statement, pending>>
  BY <1>1, <1>2 DEF DropInv, DropShaped, Changed
<1>3. ASSUME NEW s \in Session, SessionStep(s) PROVE DropInv'
  <2>1. CASE BeginSome(s)
    BY <1>1, <2>1, BeginDrop
  <2>2. CASE DeleteWorkspace(s)
    BY <1>1, <2>2, CascadeDrop, RestDrop DEF DeleteWorkspace
  <2>3. CASE DeleteUser(s)
    <3>1. statement[s].pc = "parent" /\ statement[s].kind = "deregister"
      BY <2>3 DEF DeleteUser
    <3>2. CASE Raise(s)
      BY <1>1, <3>1, <3>2, RestDrop DEF Raise
    <3>3. CASE ~Raise(s)
      BY <1>1, <2>3, <3>1, <3>3, CascadeDrop, RestDrop DEF DeleteUser
    <3>4. QED
      BY <3>2, <3>3
  <2>8. ASSUME NEW x \in Key, MoveRow(s, x) PROVE DropInv'
    <3>1. CASE Raise(s)
      BY <1>1, <2>8, <3>1, RestDrop DEF MoveRow, Raise
    <3>2. CASE ~Raise(s)
      <4>1. statement[s].kind = "move" /\ statement[s].pc = "rows" /\ Done(s, x)
            /\ \A t \in Session \ {s} : pending'[t] = pending[t]
        BY <1>1, <2>8, <3>2 DEF MoveRow, TypeOK
      <4>2. /\ statement'[s].kind = "move" /\ statement'[s].pc = "rows"
            /\ \A t \in Session \ {s} : statement'[t] = statement[t]
        BY <1>1, <4>1 DEF Done, TypeOK
      <4>3. QED
        BY <1>1, <4>1, <4>2, DropOfOne DEF DropShaped
    <3>3. QED
      BY <3>1, <3>2
  <2>4. ASSUME NEW x \in Key, ChangeRow(s, x) PROVE DropInv'
    <3>1. CASE Raise(s)
      BY <1>1, <3>1, RestDrop DEF Raise
    <3>2. CASE /\ Done(s, x)
               /\ \/ UNCHANGED pending
                  \/ pending' = [pending EXCEPT ![s][x] = statement[s].to]
      <4>1. statement[s].pc = "rows" /\ x \in statement[s].todo
        BY <2>4 DEF ChangeRow
      <4>2. QED
        BY <1>1, <3>2, <4>1, RowDrop
    <3>3. QED
      BY <2>4, <3>1, <3>2 DEF ChangeRow
  <2>5. ASSUME NEW x \in Key, InsertRow(s, x) PROVE DropInv'
    <3>1. CASE Raise(s)
      BY <1>1, <2>5, <3>1, RestDrop DEF InsertRow, Raise
    <3>2. CASE ~Raise(s)
      BY <1>1, <2>5, <3>2, RowDrop DEF InsertRow
    <3>3. QED
      BY <3>1, <3>2
  <2>6. CASE Commit(s)
    BY <1>1, <2>6, CommitDrop
  <2>9. CASE Abort(s)
    BY <1>1, <2>9, RestDrop DEF Abort, Raise
  <2>7. QED
    BY <1>3, <2>1, <2>2, <2>3, <2>4, <2>5, <2>6, <2>8, <2>9 DEF SessionStep
<1>4. ASSUME NEW u \in User, NEW w \in Workspace, SignUp(u, w) \/ CreateWorkspace(u, w)
      PROVE  UNCHANGED <<statement, pending>>
  BY <1>4 DEF SignUp, CreateWorkspace, Found
<1>5. QED
  BY <1>1, <1>2, <1>3, <1>4 DEF Next, vars

\* Such a row belongs to the workspace that the transaction has deleted.
LEMMA DropRefusesNothing == DropInv => DropNeverRefused
<1>1. SUFFICES ASSUME DropInv, NEW s \in Session, statement[s].kind = "drop",
                      NEW x \in statement[s].todo
               PROVE  ~Refuses(s, x)
  BY DEF DropNeverRefused
<1>2. statement[s].pc = "rows" /\ statement[s].parent = x[1]
  BY <1>1 DEF DropInv, DropShaped
<1>3. ParentGone(s, x[1])
  BY <1>1, <1>2 DEF ParentGone, Deleting
<1>4. QED
  BY <1>3 DEF Refuses

\* The trigger never refuses a row that goes with its workspace, whoever else
\* is at work: an owner can always delete a workspace, its last owner too.
THEOREM DropsGoThrough == Spec => []DropNeverRefused
<1>1. Init => TypeOK /\ DropInv
  BY InitTypes, InitDrop
<1>2. TypeOK /\ DropInv /\ [Next]_vars => (TypeOK /\ DropInv)'
  BY TypesInductive, DropInductive
<1>3. QED
  BY <1>1, <1>2, DropRefusesNothing, PTL DEF Spec

-----------------------------------------------------------------------------
(* Memberships.  A foreign key is kept by two transactions together: the    *)
(* one that deletes the parent finds every row that refers to it, and the   *)
(* one that inserts a row finds nobody deleting the parent.                 *)

DeletesParent(s) == statement[s].kind \in {"drop", "deregister"}

\* A move has done nothing yet, or has taken its row from one key to another.
Moves(s) ==
  /\ statement[s].into \in Key /\ statement[s].to \in {"owner", "member", "kept"}
  /\ \E x \in Key :
       /\ x # statement[s].into
       /\ \/ Changed(s) = {} /\ statement[s].todo \subseteq {x}
          \/ /\ Changed(s) = {x, statement[s].into} /\ statement[s].todo = {}
             /\ pending[s][x] = "none" /\ role[x] # "none"
             /\ pending[s][statement[s].into] \in {"owner", "member"}

\* What a statement may have changed, and what it is about.
Written(s) ==
  /\ statement[s].pc # "rows" => Changed(s) = {}
  /\ statement[s].kind # "move" =>
       statement[s].to # "kept" /\ \A x \in Changed(s) : pending[s][x] = statement[s].to
  /\ statement[s].pc = "rows" /\ statement[s].kind = "add" =>
       statement[s].to \in {"owner", "member"}
  /\ statement[s].pc = "rows" /\ statement[s].kind = "move" => Moves(s)
  /\ DeletesParent(s) => statement[s].to = "none"
  /\ statement[s].pc = "rows" /\ DeletesParent(s) => statement[s].parent \in minted

\* What a row refers to, and the row it was moved from did not.
NewParents(s, x) == {x[1], x[2]} \ Parents(Vacated(s))

\* A new row refers to a workspace and a user that nobody is deleting.
AddsRefer(s) ==
  \A x \in Changed(s) : role[x] = "none" =>
    /\ statement[s].kind \in {"add", "move"}
    /\ \A p \in NewParents(s, x) :
         p \in workspaces \cup users /\ \A t \in Session : ~Deleting(t, p)

\* A deletion has found every row that refers to what it deletes.
CascadeCovers(s) ==
  \A x \in Key : role[x] # "none" /\ (Deleting(s, x[1]) \/ Deleting(s, x[2])) =>
    x \in statement[s].todo \cup Changed(s)

ReferInv ==
  /\ MembershipsRefer
  /\ workspaces \cup users \subseteq minted
  /\ LocksApart
  /\ \A s \in Session : Written(s) /\ AddsRefer(s) /\ CascadeCovers(s)

\* A step of one session that commits nothing.
LEMMA ReferOfOne ==
  ASSUME ReferInv, NEW s \in Session, UNCHANGED tableVars,
         \A t \in Session \ {s} : statement'[t] = statement[t] /\ pending'[t] = pending[t],
         Written(s)', AddsRefer(s)', CascadeCovers(s)',
         \A t \in Session \ {s} : Changed(s)' \cap Changed(t) = {},
         \A t \in Session \ {s} : \A x \in Changed(t) : role[x] = "none" =>
           \A p \in NewParents(t, x) : ~Deleting(s, p)'
  PROVE  ReferInv'
<1>1. UNCHANGED <<users, workspaces, minted, role>>
  BY DEF tableVars
<1>2. \A t \in Session \ {s} : /\ Changed(t)' = Changed(t)
                               /\ \A p : Deleting(t, p)' <=> Deleting(t, p)
                               /\ Vacated(t)' = Vacated(t)
  BY DEF Changed, Deleting, Vacated
<1>3. LocksApart'
  BY <1>2 DEF ReferInv, LocksApart
<1>4. ASSUME NEW t \in Session \ {s} PROVE Written(t)' /\ AddsRefer(t)' /\ CascadeCovers(t)'
  <2>1. Written(t)'
    BY <1>1, <1>2 DEF ReferInv, Written, Moves, DeletesParent
  <2>2. AddsRefer(t)'
    <3>1. SUFFICES ASSUME NEW x \in Changed(t), role[x] = "none"
                   PROVE  /\ statement[t].kind \in {"add", "move"}
                          /\ \A p \in NewParents(t, x) :
                               /\ p \in workspaces \cup users
                               /\ \A r \in Session : ~Deleting(r, p)'
      BY <1>1, <1>2 DEF AddsRefer, NewParents
    <3>2. QED
      BY <1>2, <3>1 DEF ReferInv, AddsRefer
  <2>3. CascadeCovers(t)'
    BY <1>1, <1>2 DEF ReferInv, CascadeCovers
  <2>4. QED
    BY <2>1, <2>2, <2>3
<1>5. MembershipsRefer' /\ (workspaces \cup users \subseteq minted)'
  BY <1>1 DEF ReferInv, MembershipsRefer
<1>6. QED
  BY <1>3, <1>4, <1>5 DEF ReferInv

\* A session that is not executing rows, with nothing changed.
LEMMA ReferAtRest ==
  ASSUME TypeOK, ReferInv, NEW s \in Session, UNCHANGED tableVars,
         \A t \in Session \ {s} : statement'[t] = statement[t] /\ pending'[t] = pending[t],
         Changed(s)' = {},
         \/ statement'[s].pc # "rows"
         \/ statement'[s].kind \notin {"drop", "deregister"},
         statement'[s].kind \in {"drop", "deregister"} => statement'[s].to = "none",
         statement'[s].kind # "move" => statement'[s].to # "kept",
         statement'[s].pc = "rows" /\ statement'[s].kind = "add" =>
           statement'[s].to \in {"owner", "member"},
         statement'[s].pc = "rows" /\ statement'[s].kind = "move" =>
           /\ statement'[s].into \in Key /\ statement'[s].to \in {"owner", "member", "kept"}
           /\ \E x \in Key : x # statement'[s].into /\ statement'[s].todo \subseteq {x}
  PROVE  ReferInv'
<1>1. Written(s)' /\ AddsRefer(s)'
  BY DEF Written, Moves, AddsRefer, DeletesParent
<1>2. \A p : ~Deleting(s, p)'
  BY DEF Deleting
<1>3. CascadeCovers(s)'
  BY <1>2 DEF CascadeCovers
<1>4. QED
  BY <1>1, <1>2, <1>3, ReferOfOne

LEMMA BeginRefer ==
  ASSUME TypeOK, ReferInv, NEW s \in Session, BeginSome(s)
  PROVE  ReferInv'
<1>1. SUFFICES ASSUME NEW kind \in Kind, NEW pc \in {"parent", "rows"},
                      NEW todo, NEW to, NEW parent, NEW into,
                      Begin(s, kind, pc, todo, to, parent, into),
                      kind \in {"drop", "deregister"} => pc = "parent" /\ to = "none",
                      kind # "move" => to # "kept",
                      kind = "add" => to \in {"owner", "member"},
                      kind = "move" =>
                        /\ into \in Key /\ to \in {"owner", "member", "kept"}
                        /\ \E x \in Key : x # into /\ todo \subseteq {x}
               PROVE  ReferInv'
  <2>1. CASE \E u \in User, rows \in SUBSET Key : Remove(s, u, rows)
    BY <1>1, <2>1 DEF Remove, Kind
  <2>2. CASE \E u \in User, rows \in SUBSET Key : SetRole(s, u, rows, "promote", "owner")
    BY <1>1, <2>2 DEF SetRole, Kind
  <2>3. CASE \E u \in User, rows \in SUBSET Key : SetRole(s, u, rows, "demote", "member")
    BY <1>1, <2>3 DEF SetRole, Kind
  <2>4. CASE \E u \in User, x \in Key, to \in {"owner", "member"} : Add(s, u, x, to)
    BY <1>1, <2>4 DEF Add, Kind
  <2>8. CASE \E u \in User, x, y \in Key, to \in {"owner", "member", "kept"} : Move(s, u, x, y, to)
    BY <1>1, <2>8 DEF Move, Kind
  <2>5. CASE \E u \in User, w \in Workspace : Drop(s, u, w)
    BY <1>1, <2>5 DEF Drop, Kind
  <2>6. CASE \E u \in User : Deregister(s, u)
    BY <1>1, <2>6 DEF Deregister, Kind
  <2>7. QED
    BY <2>1, <2>2, <2>3, <2>4, <2>5, <2>6, <2>8 DEF BeginSome
<1>2. /\ statement'[s] = [pc |-> pc, kind |-> kind, todo |-> todo, to |-> to, parent |-> parent,
                       into |-> into]
      /\ \A t \in Session \ {s} : statement'[t] = statement[t] /\ pending'[t] = pending[t]
      /\ statement[s].pc # "rows" /\ pending' = pending /\ UNCHANGED tableVars
  BY <1>1 DEF Begin, BeginSome, TypeOK
<1>3. Changed(s)' = {}
  BY <1>2 DEF ReferInv, Written, Changed
<1>4. QED
  BY <1>1, <1>2, <1>3, ReferAtRest

LEMMA RestRefer ==
  ASSUME TypeOK, ReferInv, NEW s \in Session, UNCHANGED tableVars,
         statement' = [statement EXCEPT ![s] = Idle],
         \/ pending' = [pending EXCEPT ![s] = Untouched]
         \/ statement[s].pc # "rows" /\ UNCHANGED pending
  PROVE  ReferInv'
<1>1. /\ \A t \in Session \ {s} : statement'[t] = statement[t]
      /\ statement'[s] = Idle
  BY DEF TypeOK
<1>2. statement'[s].pc # "rows" /\ statement'[s].to = "none"
  BY <1>1 DEF Idle
<1>3. Changed(s)' = {} /\ \A t \in Session \ {s} : pending'[t] = pending[t]
  BY DEF ReferInv, Written, Changed, Untouched, TypeOK
<1>4. QED
  BY <1>1, <1>2, <1>3, ReferAtRest

\* The parent row is deleted: no insert that refers to it is under way.
LEMMA ParentRefer ==
  ASSUME TypeOK, ReferInv, NEW s \in Session, UNCHANGED <<tableVars, pending>>,
         statement[s].pc = "parent", statement[s].kind \in {"drop", "deregister"},
         statement[s].parent \in minted, ~Referenced(s, statement[s].parent),
         DeleteRow(s, Cascades(statement[s].parent))
  PROVE  ReferInv'
<1>1. /\ statement'[s].pc = "rows" /\ statement'[s].todo = Cascades(statement[s].parent)
      /\ statement'[s].kind = statement[s].kind
      /\ statement'[s].to = statement[s].to
      /\ statement'[s].parent = statement[s].parent
      /\ \A t \in Session \ {s} : statement'[t] = statement[t] /\ pending'[t] = pending[t]
  BY DEF DeleteRow, TypeOK
<1>2. Changed(s) = {} /\ Changed(s)' = {} /\ UNCHANGED <<role, minted>>
  BY DEF ReferInv, Written, Changed, tableVars
<1>3. Written(s)' /\ AddsRefer(s)'
  <2>1. statement[s].kind \notin {"add", "move"}
    OBVIOUS
  <2>2. QED
    BY <1>1, <1>2, <2>1 DEF ReferInv, Written, DeletesParent, AddsRefer
<1>4. CascadeCovers(s)'
  BY <1>1, <1>2 DEF CascadeCovers, Deleting, Cascades
<1>5. ASSUME NEW t \in Session \ {s}, NEW x \in Changed(t), role[x] = "none"
      PROVE  \A p \in NewParents(t, x) : ~Deleting(s, p)'
  <2>1. statement[t].kind \in {"add", "move"} /\ x \in Key /\ statement[t].pc = "rows"
    BY <1>5 DEF ReferInv, AddsRefer, Written, Changed
  <2>2. x \in Filled(t)
    BY <1>5, <2>1 DEF ReferInv, Written, Moves, Changed, Filled
  <2>3. {x[1], x[2]} \subseteq Parents(Filled(t))
    BY <2>2 DEF Parents
  <2>4. statement[s].parent \notin NewParents(t, x)
    BY <2>1, <2>3 DEF Referenced, NewParents
  <2>5. QED
    BY <1>1, <2>4 DEF Deleting
<1>6. QED
  BY <1>1, <1>2, <1>3, <1>4, <1>5, ReferOfOne

\* A row that is gone by the time its lock is had.
LEMMA SkipRefer ==
  ASSUME TypeOK, ReferInv, NEW s \in Session, NEW x \in Key, UNCHANGED <<tableVars, pending>>,
         statement[s].pc = "rows", x \in statement[s].todo, Done(s, x), role[x] = "none"
  PROVE  ReferInv'
<1>1. /\ statement'[s].pc = statement[s].pc /\ statement'[s].kind = statement[s].kind
      /\ statement'[s].to = statement[s].to /\ statement'[s].parent = statement[s].parent
      /\ statement'[s].into = statement[s].into
      /\ statement'[s].todo = statement[s].todo \ {x}
      /\ \A t \in Session \ {s} : statement'[t] = statement[t] /\ pending'[t] = pending[t]
  BY DEF Done, TypeOK
<1>2. UNCHANGED <<role, users, workspaces, minted>>
  BY DEF tableVars
<1>3. /\ \A t \in Session : \A p : Deleting(t, p)' <=> Deleting(t, p)
      /\ Changed(s)' = Changed(s) /\ Vacated(s)' = Vacated(s)
  BY <1>1, <1>2 DEF Deleting, Changed, Vacated
<1>4. Written(s) /\ AddsRefer(s) /\ CascadeCovers(s)
  BY DEF ReferInv
<1>5. Written(s)'
  <2>1. Moves(s) => Moves(s)'
    BY <1>1, <1>2, <1>3 DEF Moves
  <2>2. QED
    BY <1>1, <1>2, <1>3, <1>4, <2>1 DEF Written, DeletesParent
<1>6. AddsRefer(s)'
  BY <1>1, <1>2, <1>3, <1>4 DEF AddsRefer, NewParents
<1>7. CascadeCovers(s)'
  BY <1>1, <1>2, <1>3, <1>4 DEF CascadeCovers
<1>8. \A t \in Session \ {s} : Changed(s)' \cap Changed(t) = {}
  BY <1>3 DEF ReferInv, LocksApart
<1>9. \A t \in Session \ {s} : \A y \in Changed(t) : role[y] = "none" =>
        \A p \in NewParents(t, y) : ~Deleting(s, p)'
  BY <1>3 DEF ReferInv, AddsRefer
<1>10. QED
  BY <1>1, <1>5, <1>6, <1>7, <1>8, <1>9, ReferOfOne

\* A row of a statement, changed under its lock.
LEMMA RowRefer ==
  ASSUME TypeOK, ReferInv, NEW s \in Session, NEW x \in Key, UNCHANGED tableVars,
         statement[s].pc = "rows", ~Locked(s, x), Done(s, x),
         pending' = [pending EXCEPT ![s][x] = statement[s].to],
         statement[s].kind # "move",
         role[x] = "none" =>
           /\ statement[s].kind = "add"
           /\ x[1] \in workspaces /\ x[2] \in users
           /\ \A t \in Session : ~Deleting(t, x[1]) /\ ~Deleting(t, x[2])
  PROVE  ReferInv'
<1>1. /\ statement'[s].pc = statement[s].pc /\ statement'[s].kind = statement[s].kind
      /\ statement'[s].to = statement[s].to /\ statement'[s].parent = statement[s].parent
      /\ statement'[s].todo = statement[s].todo \ {x}
      /\ \A t \in Session \ {s} : statement'[t] = statement[t] /\ pending'[t] = pending[t]
  BY DEF Done, TypeOK
<1>2. UNCHANGED <<role, users, workspaces, minted>>
  BY DEF tableVars
<1>3. \A t \in Session : \A p : Deleting(t, p)' <=> Deleting(t, p)
  BY <1>1 DEF Deleting
<1>4. Written(s) /\ AddsRefer(s) /\ CascadeCovers(s)
  BY DEF ReferInv
<1>5. /\ \A y \in Key \ {x} : pending'[s][y] = pending[s][y]
      /\ pending'[s][x] = statement[s].to
  <2>1. pending \in [Session -> [Key -> Cell \cup {"kept"}]]
    BY DEF TypeOK
  <2>2. QED
    BY <2>1
<1>6. Changed(s) \ {x} = Changed(s)' \ {x} /\ x \in Changed(s)'
  BY <1>4, <1>5 DEF Changed, Written
<1>7. \A y \in Changed(s)' : pending'[s][y] = statement[s].to
  BY <1>4, <1>5, <1>6 DEF Written, Changed
<1>8. Written(s)'
  BY <1>1, <1>2, <1>4, <1>7 DEF Written, DeletesParent
<1>9. AddsRefer(s)'
  <2>1. SUFFICES ASSUME NEW y \in Changed(s)', role[y] = "none"
                 PROVE  /\ statement[s].kind = "add"
                        /\ \A p \in {y[1], y[2]} :
                             /\ p \in workspaces \cup users
                             /\ \A t \in Session : ~Deleting(t, p)
    BY <1>1, <1>2, <1>3 DEF AddsRefer, NewParents
  <2>2. CASE y = x
    BY <2>1, <2>2
  <2>3. CASE y # x
    <3>1. y \in Changed(s) /\ statement[s].kind = "add"
      BY <1>4, <1>6, <2>1, <2>3 DEF AddsRefer
    <3>2. Vacated(s) = {}
      BY <1>4, <3>1 DEF Written, Vacated, Changed
    <3>3. NewParents(s, y) = {y[1], y[2]}
      BY <3>2 DEF NewParents, Parents
    <3>4. QED
      BY <1>4, <2>1, <3>1, <3>3 DEF AddsRefer
  <2>4. QED
    BY <2>2, <2>3
<1>10. CascadeCovers(s)'
  BY <1>1, <1>2, <1>3, <1>4, <1>6 DEF CascadeCovers
<1>11. \A t \in Session \ {s} : Changed(s)' \cap Changed(t) = {}
  <2>1. \A t \in Session \ {s} : x \notin Changed(t)
    BY DEF Locked, Changed
  <2>2. QED
    BY <1>6, <2>1 DEF ReferInv, LocksApart
<1>12. \A t \in Session \ {s} : \A y \in Changed(t) : role[y] = "none" =>
         \A p \in NewParents(t, y) : ~Deleting(s, p)'
  BY <1>3 DEF ReferInv, AddsRefer
<1>13. QED
  BY <1>1, <1>8, <1>9, <1>10, <1>11, <1>12, ReferOfOne

\* A row taken to another key: what it newly refers to is there to stay.
LEMMA MoveRefer ==
  ASSUME TypeOK, ReferInv, NEW s \in Session, NEW x \in Key, MoveRow(s, x),
         role[x] # "none", ~Raise(s)
  PROVE  ReferInv'
<1>y. PICK y \in Key : y = statement[s].into
  BY DEF MoveRow, ReferInv, Written, Moves
<1>0. /\ statement[s].pc = "rows" /\ statement[s].kind = "move" /\ x \in statement[s].todo
      /\ ~Locked(s, x) /\ ~Locked(s, y) /\ Done(s, x) /\ UNCHANGED tableVars
      /\ role[y] = "none"
      /\ \A p \in Parents({y}) \ Parents({x}) :
           p \in workspaces \cup users /\ \A t \in Session : ~Deleting(t, p)
      /\ pending' = [pending EXCEPT ![s][x] = "none", ![s][y] = NewRole(s, x)]
  BY <1>y DEF MoveRow
<1>1. /\ statement'[s].pc = "rows" /\ statement'[s].kind = "move"
      /\ statement'[s].into = y
      /\ statement'[s].to = statement[s].to
      /\ statement'[s].todo = statement[s].todo \ {x}
      /\ \A t \in Session \ {s} : statement'[t] = statement[t] /\ pending'[t] = pending[t]
  BY <1>y, <1>0 DEF Done, TypeOK
<1>2. UNCHANGED <<role, users, workspaces, minted>>
  BY <1>0 DEF tableVars
<1>3. \A t \in Session : \A p : Deleting(t, p)' <=> Deleting(t, p)
  BY <1>0, <1>1 DEF Deleting
<1>4. x # y /\ Changed(s) = {} /\ statement[s].todo = {x}
  BY <1>y, <1>0 DEF ReferInv, Written, Moves
<1>5. NewRole(s, x) \in {"owner", "member"}
  <2>1. role[x] \in {"owner", "member"}
    BY DEF TypeOK, Cell
  <2>2. statement[s].to \in {"owner", "member", "kept"}
    BY <1>0 DEF ReferInv, Written, Moves
  <2>3. QED
    BY <2>1, <2>2 DEF NewRole
<1>6. \A z \in Key : pending'[s][z] = IF z = y THEN NewRole(s, x)
                                      ELSE IF z = x THEN "none" ELSE "kept"
  <2>1. pending \in [Session -> [Key -> Cell \cup {"kept"}]]
    BY DEF TypeOK
  <2>2. \A z \in Key : pending[s][z] = "kept"
    BY <1>4 DEF Changed
  <2>3. QED
    BY <1>0, <1>4, <2>1, <2>2
<1>7. Changed(s)' = {x, y} /\ Vacated(s)' = {x}
  BY <1>4, <1>5, <1>6 DEF Changed, Vacated
<1>8. Written(s)'
  <2>1. Moves(s)'
    <3>1. statement[s].to \in {"owner", "member", "kept"}
      BY <1>0 DEF ReferInv, Written, Moves
    <3>2. /\ x # y /\ Changed(s)' = {x, y} /\ statement'[s].todo = {}
          /\ pending'[s][x] = "none" /\ pending'[s][y] \in {"owner", "member"}
      BY <1>1, <1>4, <1>5, <1>6, <1>7
    <3>3. QED
      BY <1>1, <1>2, <1>4, <3>1, <3>2 DEF Moves
  <2>2. QED
    BY <1>1, <2>1 DEF Written, DeletesParent
<1>9. AddsRefer(s)'
  <2>1. SUFFICES ASSUME NEW p \in {y[1], y[2]} \ Parents({x})
                 PROVE  p \in workspaces \cup users /\ \A t \in Session : ~Deleting(t, p)
    <3>1. \A z \in Changed(s)' : role'[z] = "none" => z = y
      BY <1>2, <1>7
    <3>2. NewParents(s, y)' = {y[1], y[2]} \ Parents({x})
      BY <1>7 DEF NewParents, Parents
    <3>3. QED
      BY <1>1, <1>2, <1>3, <2>1, <3>1, <3>2 DEF AddsRefer
  <2>2. p \in Parents({y})
    BY DEF Parents
  <2>3. QED
    BY <1>0, <2>1, <2>2
<1>10. CascadeCovers(s)'
  BY <1>0, <1>3 DEF CascadeCovers, Deleting
<1>11. \A t \in Session \ {s} : Changed(s)' \cap Changed(t) = {}
  <2>1. \A t \in Session \ {s} : x \notin Changed(t) /\ y \notin Changed(t)
    BY <1>0 DEF Locked, Changed
  <2>2. QED
    BY <1>7, <2>1
<1>12. \A t \in Session \ {s} : \A z \in Changed(t) : role[z] = "none" =>
         \A p \in NewParents(t, z) : ~Deleting(s, p)'
  BY <1>3 DEF ReferInv, AddsRefer
<1>13. QED
  BY <1>0, <1>1, <1>8, <1>9, <1>10, <1>11, <1>12, ReferOfOne

\* The workspace is new, and nobody is deleting its creator.
LEMMA FoundRefer ==
  ASSUME TypeOK, ReferInv, NEW u \in User, NEW w \in Workspace, Found(u, w),
         minted \cup {w} \subseteq minted', users \subseteq users', users' \subseteq minted',
         u \in users', \A s \in Session : ~Deleting(s, u)
  PROVE  ReferInv'
<1>1. /\ \A x \in Key : role'[x] = IF x = <<w, u>> THEN "owner" ELSE role[x]
      /\ w \notin minted
      /\ workspaces' = workspaces \cup {w}
      /\ UNCHANGED <<statement, pending>>
  BY DEF Found, TypeOK
<1>2. \A s \in Session : Changed(s)' = Changed(s) /\ \A p : Deleting(s, p)' <=> Deleting(s, p)
  BY <1>1 DEF Changed, Deleting
<1>3. \A s \in Session : ~Deleting(s, w)
  BY <1>1 DEF ReferInv, Written, DeletesParent, Deleting
<1>4. ASSUME NEW s \in Session PROVE Written(s)' /\ AddsRefer(s)' /\ CascadeCovers(s)'
  <2>1. Written(s) /\ AddsRefer(s) /\ CascadeCovers(s)
    BY DEF ReferInv
  <2>2. Written(s)'
    <3>1. Moves(s) => Moves(s)'
      BY <1>1, <1>2 DEF Moves
    <3>2. QED
      BY <1>1, <1>2, <2>1, <3>1 DEF Written, DeletesParent
  <2>3. AddsRefer(s)'
    <3>1. \A x \in Changed(s) : role'[x] = "none" => role[x] = "none"
      BY <1>1 DEF Changed
    <3>2. Vacated(s)' = Vacated(s) /\ workspaces \cup users \subseteq workspaces' \cup users'
      BY <1>1 DEF Vacated
    <3>3. QED
      BY <1>1, <1>2, <2>1, <3>1, <3>2 DEF AddsRefer, NewParents
  <2>4. CascadeCovers(s)'
    BY <1>1, <1>2, <1>3, <2>1 DEF CascadeCovers
  <2>5. QED
    BY <2>2, <2>3, <2>4
<1>5. LocksApart'
  BY <1>2 DEF ReferInv, LocksApart
<1>6. MembershipsRefer' /\ (workspaces \cup users \subseteq minted)'
  BY <1>1 DEF ReferInv, MembershipsRefer
<1>7. QED
  BY <1>4, <1>5, <1>6 DEF ReferInv

\* The row a transaction adds comes from one it has moved, where it does not add
\* what the row refers to.
LEMMA AddedOrMoved ==
  ASSUME TypeOK, ReferInv, NEW s \in Session, statement[s].pc = "rows",
         NEW x \in Changed(s), role[x] = "none", NEW p \in {x[1], x[2]}
  PROVE  /\ statement[s].kind \in {"add", "move"}
         /\ \/ p \in workspaces \cup users /\ \A t \in Session : ~Deleting(t, p)
            \/ /\ statement[s].kind = "move" /\ x = statement[s].into
               /\ \E z \in Key : /\ z \in Changed(s) /\ z \in Vacated(s)
                                 /\ role[z] # "none" /\ p \in {z[1], z[2]}
<1>1. Written(s) /\ AddsRefer(s)
  BY DEF ReferInv
<1>2. statement[s].kind \in {"add", "move"}
  BY <1>1 DEF AddsRefer
<1>3. CASE p \in NewParents(s, x)
  BY <1>1, <1>2, <1>3 DEF AddsRefer
<1>4. CASE p \notin NewParents(s, x)
  <2>1. PICK z \in Vacated(s) : p \in {z[1], z[2]}
    BY <1>4 DEF NewParents, Parents
  <2>2. z \in Key /\ pending[s][z] = "none" /\ z \in Changed(s)
    BY <2>1 DEF Vacated, Changed
  <2>3. statement[s].kind = "move"
    BY <1>1, <1>2, <2>2 DEF Written
  <2>4. PICK y \in Key :
          /\ Changed(s) = {y, statement[s].into}
          /\ role[y] # "none" /\ pending[s][statement[s].into] \in {"owner", "member"}
    BY <1>1, <2>2, <2>3 DEF Written, Moves
  <2>5. z = y /\ x = statement[s].into
    BY <2>2, <2>4
  <2>6. QED
    BY <2>1, <2>2, <2>3, <2>4, <2>5
<1>5. QED
  BY <1>2, <1>3, <1>4

\* What a transaction adds refers to what stays, what it deletes leaves no row
\* behind, and neither disturbs what another is about to add or delete: a
\* cascade follows the row it was about to delete.
LEMMA CommitRefer ==
  ASSUME TypeOK, ReferInv, NEW s \in Session, Commit(s)
  PROVE  ReferInv'
<1>1. /\ \A x \in Key : role'[x] = Sees(s, x)
      /\ workspaces' = workspaces \ {w \in Workspace : Deleting(s, w)}
      /\ users' = users \ {u \in User : Deleting(s, u)}
      /\ minted' = minted
      /\ pending'[s] = Untouched
      /\ \A t \in Session \ {s} : pending'[t] = pending[t]
      /\ statement[s].pc = "rows" /\ statement[s].todo = {}
  BY DEF Commit, TypeOK
<1>2. /\ statement'[s] = Idle
      /\ \A t \in Session \ {s} :
           /\ statement'[t].pc = statement[t].pc /\ statement'[t].kind = statement[t].kind
           /\ statement'[t].to = statement[t].to /\ statement'[t].parent = statement[t].parent
           /\ statement'[t].into = statement[t].into
           /\ statement'[t].todo = statement[t].todo \cup Follows(s, t)
  BY CommitSessions
<1>3. /\ Written(s) /\ AddsRefer(s) /\ CascadeCovers(s)
      /\ MembershipsRefer
  BY DEF ReferInv
<1>4. /\ \A x \in Key : x \notin Changed(s) => role'[x] = role[x]
      /\ \A x \in Changed(s) : role'[x] = pending[s][x]
  BY <1>1 DEF Changed, Sees
<1>5. /\ Changed(s)' = {} /\ \A p : ~Deleting(s, p)'
      /\ \A t \in Session \ {s} : /\ Changed(t)' = Changed(t)
                                  /\ Vacated(t)' = Vacated(t)
                                  /\ Changed(t) \cap Changed(s) = {}
                                  /\ \A p : Deleting(t, p)' <=> Deleting(t, p)
  <2>1. \A p : ~Deleting(s, p)'
    BY <1>2 DEF Deleting, Idle
  <2>2. \A t \in Session \ {s} : \A p : Deleting(t, p)' <=> Deleting(t, p)
    BY <1>2 DEF Deleting
  <2>3. QED
    BY <1>1, <2>1, <2>2 DEF Changed, Vacated, Untouched, ReferInv, LocksApart
<1>6. ASSUME NEW x \in Key, role'[x] # "none", NEW p \in {x[1], x[2]}
      PROVE  p \in workspaces \cup users /\ ~Deleting(s, p)
  <2>1. CASE x \notin Changed(s)
    <3>1. role[x] # "none"
      BY <1>4, <1>6, <2>1
    <3>2. QED
      BY <1>1, <1>3, <1>6, <2>1, <3>1 DEF MembershipsRefer, CascadeCovers
  <2>2. CASE x \in Changed(s)
    <3>1. ~DeletesParent(s)
      <4>1. pending[s][x] # "none"
        BY <1>4, <1>6, <2>2
      <4>2. QED
        BY <1>3, <2>2, <4>1 DEF Written, DeletesParent
    <3>2. ~Deleting(s, p)
      BY <3>1 DEF Deleting, DeletesParent
    <3>3. CASE role[x] # "none"
      BY <1>3, <1>6, <3>2, <3>3 DEF MembershipsRefer
    <3>4. CASE role[x] = "none"
      BY <1>1, <1>3, <1>6, <2>2, <3>2, <3>4, AddedOrMoved DEF MembershipsRefer
    <3>5. QED
      BY <3>3, <3>4
  <2>3. QED
    BY <2>1, <2>2
<1>7. MembershipsRefer'
  <2>1. SUFFICES ASSUME NEW x \in Key, role'[x] # "none"
                 PROVE  x[1] \in workspaces' /\ x[2] \in users'
    BY DEF MembershipsRefer
  <2>2. /\ x[1] \in workspaces \cup users /\ x[2] \in workspaces \cup users
        /\ ~Deleting(s, x[1]) /\ ~Deleting(s, x[2])
    BY <1>6, <2>1
  <2>3. x[1] \in workspaces /\ x[2] \in users
    BY <2>2, MembershipAssumption DEF TypeOK
  <2>4. QED
    BY <1>1, <2>2, <2>3
<1>8. LocksApart'
  BY <1>5 DEF ReferInv, LocksApart
<1>9. Written(s)' /\ AddsRefer(s)' /\ CascadeCovers(s)'
  BY <1>2, <1>5 DEF Written, AddsRefer, CascadeCovers, DeletesParent, Idle
<1>10. ASSUME NEW t \in Session \ {s} PROVE Written(t)' /\ AddsRefer(t)' /\ CascadeCovers(t)'
  <2>1. Written(t) /\ AddsRefer(t) /\ CascadeCovers(t)
    BY DEF ReferInv
  <2>2. \A x \in Changed(t) : role'[x] = role[x]
    BY <1>4, <1>5 DEF Changed
  <2>3. Written(t)'
    <3>1. statement[t].kind = "move" => Follows(s, t) = {}
      BY DEF Follows
    <3>2. statement[t].kind = "move" /\ Moves(t) => Moves(t)'
      BY <1>1, <1>2, <1>5, <2>2, <3>1 DEF Moves
    <3>3. QED
      BY <1>1, <1>2, <1>5, <2>1, <3>2 DEF Written, DeletesParent
  <2>4. AddsRefer(t)'
    <3>1. SUFFICES ASSUME NEW x \in Changed(t), role'[x] = "none"
                   PROVE  /\ statement[t].kind \in {"add", "move"}
                          /\ \A p \in NewParents(t, x) :
                               /\ p \in workspaces' \cup users'
                               /\ \A r \in Session : ~Deleting(r, p)'
      BY <1>2, <1>5 DEF AddsRefer, NewParents
    <3>2. role[x] = "none"
      BY <2>2, <3>1
    <3>3. /\ statement[t].kind \in {"add", "move"}
          /\ \A p \in NewParents(t, x) :
               p \in workspaces \cup users /\ \A r \in Session : ~Deleting(r, p)
      BY <2>1, <3>1, <3>2 DEF AddsRefer
    <3>4. QED
      BY <1>1, <1>5, <3>3
  <2>5. CascadeCovers(t)'
    <3>1. SUFFICES ASSUME NEW x \in Key, role'[x] # "none",
                          NEW p \in {x[1], x[2]}, Deleting(t, p)
                   PROVE  x \in statement[t].todo \cup Follows(s, t) \cup Changed(t)
      BY <1>2, <1>5 DEF CascadeCovers
    <3>2. CASE role[x] # "none"
      BY <2>1, <3>1, <3>2 DEF CascadeCovers
    <3>3. CASE role[x] = "none"
      <4>1. x \in Changed(s)
        BY <1>4, <3>1, <3>3
      <4>2. PICK z \in Key : /\ statement[s].kind = "move" /\ x = statement[s].into
                             /\ z \in Changed(s) /\ z \in Vacated(s)
                             /\ role[z] # "none" /\ p \in {z[1], z[2]}
        BY <1>1, <3>1, <3>3, <4>1, AddedOrMoved
      <4>3. z \in statement[t].todo
        BY <1>5, <2>1, <3>1, <4>2 DEF CascadeCovers
      <4>4. statement[t].kind \in {"drop", "deregister"} /\ statement[t].parent = p
        BY <3>1 DEF Deleting
      <4>5. p \in Parents({x})
        BY <3>1 DEF Parents
      <4>6. x \in Follows(s, t)
        BY <4>2, <4>3, <4>4, <4>5 DEF Follows
      <4>7. QED
        BY <4>6
    <3>4. QED
      BY <3>2, <3>3
  <2>6. QED
    BY <2>3, <2>4, <2>5
<1>11. (workspaces \cup users \subseteq minted)'
  BY <1>1 DEF ReferInv
<1>12. QED
  BY <1>7, <1>8, <1>9, <1>10, <1>11 DEF ReferInv

LEMMA ReferInductive == TypeOK /\ ReferInv /\ [Next]_vars => ReferInv'
<1>1. SUFFICES ASSUME TypeOK, ReferInv, [Next]_vars PROVE ReferInv'
  OBVIOUS
<1>2. CASE UNCHANGED vars
  BY <1>1, <1>2 DEF ReferInv, MembershipsRefer, LocksApart, Written, Moves, AddsRefer, NewParents,
     Vacated, CascadeCovers, DeletesParent, Deleting, Changed, vars
<1>3. ASSUME NEW u \in User, NEW w \in Workspace, SignUp(u, w) PROVE ReferInv'
  <2>1. \A s \in Session : ~Deleting(s, u)
    BY <1>1, <1>3 DEF SignUp, ReferInv, Written, DeletesParent, Deleting
  <2>2. QED
    BY <1>1, <1>3, <2>1, FoundRefer DEF SignUp, ReferInv
<1>4. ASSUME NEW u \in User, NEW w \in Workspace, CreateWorkspace(u, w) PROVE ReferInv'
  BY <1>1, <1>4, FoundRefer DEF CreateWorkspace, ReferInv
<1>5. ASSUME NEW s \in Session, SessionStep(s) PROVE ReferInv'
  <2>1. CASE BeginSome(s)
    BY <1>1, <2>1, BeginRefer
  <2>2. CASE DeleteWorkspace(s)
    BY <1>1, <2>2, ParentRefer, RestRefer DEF DeleteWorkspace, ReferInv
  <2>3. CASE DeleteUser(s)
    <3>1. statement[s].pc = "parent" /\ UNCHANGED tableVars
      BY <2>3 DEF DeleteUser
    <3>2. CASE Raise(s)
      BY <1>1, <3>1, <3>2, RestRefer DEF Raise
    <3>3. CASE ~Raise(s)
      BY <1>1, <2>3, <3>1, <3>3, ParentRefer, RestRefer DEF DeleteUser, ReferInv
    <3>4. QED
      BY <3>2, <3>3
  <2>4. ASSUME NEW x \in Key, ChangeRow(s, x) \/ InsertRow(s, x) PROVE ReferInv'
    <3>1. UNCHANGED tableVars /\ statement[s].pc = "rows" /\ x \in statement[s].todo
          /\ ~Locked(s, x)
      BY <2>4 DEF ChangeRow, InsertRow
    <3>2. CASE Raise(s)
      BY <1>1, <3>1, <3>2, RestRefer DEF Raise
    <3>3. CASE ~Raise(s)
      BY <1>1, <2>4, <3>1, <3>3, SkipRefer, RowRefer DEF ChangeRow, InsertRow
    <3>4. QED
      BY <3>2, <3>3
  <2>8. ASSUME NEW x \in Key, MoveRow(s, x) PROVE ReferInv'
    <3>1. UNCHANGED tableVars /\ statement[s].pc = "rows" /\ x \in statement[s].todo
      BY <2>8 DEF MoveRow
    <3>2. CASE Raise(s)
      BY <1>1, <3>1, <3>2, RestRefer DEF Raise
    <3>3. CASE ~Raise(s) /\ role[x] # "none"
      BY <1>1, <2>8, <3>3, MoveRefer
    <3>4. CASE ~Raise(s) /\ role[x] = "none"
      BY <1>1, <2>8, <3>1, <3>4, SkipRefer DEF MoveRow
    <3>5. QED
      BY <3>2, <3>3, <3>4
  <2>5. CASE Commit(s)
    BY <1>1, <2>5, CommitRefer
  <2>6. CASE Abort(s)
    BY <1>1, <2>6, RestRefer DEF Abort, Raise
  <2>7. QED
    BY <1>5, <2>1, <2>2, <2>3, <2>4, <2>5, <2>6, <2>8 DEF SessionStep
<1>6. QED
  BY <1>1, <1>2, <1>3, <1>4, <1>5 DEF Next

LEMMA InitRefer == Init => ReferInv
<1>1. SUFFICES ASSUME Init PROVE ReferInv
  OBVIOUS
<1>2. \A s \in Session : Changed(s) = {} /\ statement[s] = Idle /\ \A p : ~Deleting(s, p)
  BY <1>1 DEF Init, Changed, Untouched, Idle, Deleting
<1>3. QED
  BY <1>1, <1>2 DEF Init, ReferInv, MembershipsRefer, LocksApart, Written, AddsRefer,
     CascadeCovers, DeletesParent, Idle

\* The foreign keys of workspace_members hold at every commit, whatever the
\* sessions send: a cascade, an insert and a move never pass each other.
THEOREM MembershipsKept == Spec => []MembershipsRefer
<1>1. TypeOK /\ ReferInv /\ [Next]_vars => (TypeOK /\ ReferInv)'
  BY TypesInductive, ReferInductive
<1>2. ReferInv => MembershipsRefer
  BY DEF ReferInv
<1>3. QED
  BY <1>1, <1>2, InitTypes, InitRefer, PTL DEF Spec

-----------------------------------------------------------------------------
(* Documents.  Their workspace takes them with it; their uploader stays until  *)
(* they are gone, because nobody deletes the account of one.                   *)

\* No deletion of the account of an uploader is under way.
UploaderStays(d) ==
  Present(d) => /\ home[d] \in Key
                /\ home[d][1] \in workspaces /\ home[d][2] \in users
                /\ \A s \in Session : ~Deleting(s, home[d][2])

AccessInv ==
  /\ home \in [Document -> Key \cup {<<>>}]
  /\ call \in Key \cup {NoCall}
  /\ \A d \in Document : UploaderStays(d)

\* A deletion begins only where the account has no documents.
LEMMA DeletionBegins ==
  ASSUME TypeOK, DropInv, Next, NEW s \in Session, NEW u \in User, Deleting(s, u)'
  PROVE  \/ Deleting(s, u)
         \/ DeletingUser(s) /\ statement'[s].pc = "rows" /\ statement[s].parent = u
<1>1. CASE statement' = statement
  BY <1>1 DEF Deleting
<1>2. ASSUME NEW t \in Session, SessionStep(t)
      PROVE  \/ Deleting(s, u)
             \/ DeletingUser(s) /\ statement'[s].pc = "rows" /\ statement[s].parent = u
  <2>1. CASE s # t
    <3>1. /\ statement'[s].pc = statement[s].pc /\ statement'[s].kind = statement[s].kind
          /\ statement'[s].parent = statement[s].parent
      <4>1. CASE BeginSome(t)
        BY <2>1, <4>1 DEF TypeOK, BeginSome, Remove, SetRole, Move, Add, Drop, Deregister, Begin
      <4>2. CASE DeleteWorkspace(t) \/ DeleteUser(t)
        BY <2>1, <4>2 DEF TypeOK, DeleteWorkspace, DeleteUser, DeleteRow, Raise
      <4>3. CASE \E x \in Key : ChangeRow(t, x) \/ MoveRow(t, x) \/ InsertRow(t, x)
        BY <2>1, <4>3 DEF TypeOK, ChangeRow, MoveRow, InsertRow, Done, Raise
      <4>4. CASE Commit(t)
        BY <2>1, <4>4, CommitSessions
      <4>6. CASE Abort(t)
        BY <2>1, <4>6 DEF TypeOK, Abort, Raise
      <4>5. QED
        BY <1>2, <4>1, <4>2, <4>3, <4>4, <4>6 DEF SessionStep
    <3>2. QED
      BY <3>1 DEF Deleting
  <2>2. CASE s = t
    <3>1. CASE BeginSome(s)
      <4>1. SUFFICES ASSUME NEW kind, NEW pc, NEW todo, NEW to, NEW parent, NEW into,
                            Begin(s, kind, pc, todo, to, parent, into),
                            kind \in {"drop", "deregister"} => pc = "parent"
                     PROVE  FALSE
        BY <3>1 DEF BeginSome, Remove, SetRole, Move, Add, Drop, Deregister
      <4>2. statement'[s] = [pc |-> pc, kind |-> kind, todo |-> todo, to |-> to,
                             parent |-> parent, into |-> into]
        BY <4>1 DEF Begin, TypeOK
      <4>3. QED
        BY <4>1, <4>2 DEF Deleting
    <3>2. CASE statement'[s] = Idle \/ Raise(s)
      <4>1. statement'[s].pc # "rows"
        BY <3>2 DEF Idle, Raise, TypeOK
      <4>2. QED
        BY <4>1 DEF Deleting
    <3>3. CASE \E x \in Key : Done(s, x)
      <4>1. /\ statement'[s].pc = statement[s].pc /\ statement'[s].kind = statement[s].kind
            /\ statement'[s].parent = statement[s].parent
        BY <3>3 DEF Done, TypeOK
      <4>2. QED
        BY <4>1 DEF Deleting
    <3>4. CASE /\ statement[s].pc = "parent"
               /\ DeleteRow(s, Cascades(statement[s].parent))
      <4>1. /\ statement'[s].pc = "rows" /\ statement'[s].kind = statement[s].kind
            /\ statement'[s].parent = statement[s].parent
        BY <3>4 DEF DeleteRow, TypeOK
      <4>2. statement[s].kind # "drop"
        BY <4>1, MembershipAssumption DEF DropInv, DropShaped, Deleting
      <4>3. QED
        BY <3>4, <4>1, <4>2 DEF Deleting, DeletingUser
    <3>5. CASE Commit(s)
      BY <3>2, <3>5, CommitSessions
    <3>6. QED
      BY <1>2, <2>2, <3>1, <3>2, <3>3, <3>4, <3>5 DEF SessionStep, DeleteWorkspace, DeleteUser,
         ChangeRow, MoveRow, InsertRow, Abort, TypeOK
  <2>3. QED
    BY <2>1, <2>2
<1>3. ASSUME NEW v \in User, NEW w \in Workspace, SignUp(v, w) \/ CreateWorkspace(v, w)
      PROVE  statement' = statement
  BY <1>3 DEF SignUp, CreateWorkspace, Found
<1>4. QED
  BY <1>1, <1>2, <1>3 DEF Next

\* A user goes by a deletion that was under way.
LEMMA UsersGo ==
  ASSUME Next, NEW u \in users, u \notin users', u \in User
  PROVE  \E s \in Session : Deleting(s, u)
<1>1. ASSUME NEW s \in Session, SessionStep(s) PROVE Deleting(s, u)
  <2>1. Commit(s)
    BY <1>1 DEF SessionStep, BeginSome, Remove, SetRole, Move, Add, Drop, Deregister, Begin,
       DeleteWorkspace, DeleteUser, ChangeRow, MoveRow, InsertRow, Abort, tableVars
  <2>2. QED
    BY <2>1 DEF Commit
<1>2. ASSUME NEW v \in User, NEW w \in Workspace, SignUp(v, w) \/ CreateWorkspace(v, w)
      PROVE  FALSE
  BY <1>2 DEF SignUp, CreateWorkspace
<1>3. QED
  BY <1>1, <1>2 DEF Next

LEMMA MembershipStepDocuments ==
  ASSUME TypeOK, DropInv, AccessInv, MembershipStep
  PROVE  AccessInv'
<1>1. /\ Next /\ call' = call
      /\ \A s \in Session : DeletingUser(s) /\ statement'[s].pc = "rows" => Uploaded(s) = {}
      /\ home' = [d \in Document |-> IF Kept(d) THEN home[d] ELSE <<>>]
  BY DEF MembershipStep
<1>2. ASSUME NEW d \in Document, Present(d)' PROVE UploaderStays(d)'
  <2>1. /\ home'[d] = home[d] /\ Present(d) /\ home[d][1] \in workspaces'
        /\ home[d] \in Key /\ home[d][2] \in users
        /\ \A s \in Session : ~Deleting(s, home[d][2])
    BY <1>1, <1>2 DEF AccessInv, UploaderStays, Kept, Present
  <2>2. PICK u \in User : u = home[d][2]
    BY <2>1 DEF Key
  <2>3. u \in users'
    BY <1>1, <2>1, <2>2, UsersGo
  <2>4. ASSUME NEW s \in Session, Deleting(s, u)' PROVE FALSE
    <3>1. DeletingUser(s) /\ statement'[s].pc = "rows" /\ statement[s].parent = u
      BY <1>1, <2>1, <2>2, <2>4, DeletionBegins
    <3>2. d \in Uploaded(s)
      BY <2>1, <2>2, <3>1 DEF Uploaded
    <3>3. QED
      BY <1>1, <3>1, <3>2
  <2>5. u = home'[d][2]
    BY <2>1, <2>2
  <2>6. QED
    BY <2>1, <2>2, <2>3, <2>4, <2>5 DEF UploaderStays, Deleting
<1>3. home' \in [Document -> Key \cup {<<>>}]
  BY <1>1 DEF AccessInv
<1>4. QED
  BY <1>1, <1>2, <1>3 DEF AccessInv, UploaderStays

LEMMA AccessInductive ==
  TypeOK /\ DropInv /\ AccessInv /\ [AccessNext]_<<vars, accessVars>> => AccessInv'
<1>1. SUFFICES ASSUME TypeOK, DropInv, AccessInv, [AccessNext]_<<vars, accessVars>>
               PROVE  AccessInv'
  OBVIOUS
<1>2. CASE MembershipStep
  BY <1>1, <1>2, MembershipStepDocuments
<1>3. CASE UNCHANGED <<vars, home>> /\ call' \in Key \cup {NoCall}
  BY <1>1, <1>3 DEF AccessInv, UploaderStays, Present, Deleting, vars
<1>4. CASE Admit
  <2>1. call' \in Key
    BY <1>4 DEF Admit, Identified, Key
  <2>2. QED
    BY <1>3, <1>4, <2>1 DEF Admit
<1>5. CASE UploadDocument
  <2>1. UNCHANGED vars /\ call' = NoCall
    BY <1>5 DEF UploadDocument
  <2>2. CASE home' = home
    BY <1>3, <2>1, <2>2
  <2>3. ASSUME NEW d \in Document, home' = [home EXCEPT ![d] = call],
               call[1] \in workspaces, call[2] \in users
        PROVE  AccessInv'
    <3>1. call \in Key /\ \A s \in Session : ~Deleting(s, call[2])
      BY <1>1, <1>5 DEF AccessInv, UploadDocument, Unlocked
    <3>2. \A e \in Document : home'[e] = IF e = d THEN call ELSE home[e]
      BY <1>1, <2>3 DEF AccessInv
    <3>3. ASSUME NEW e \in Document PROVE UploaderStays(e)'
      BY <1>1, <2>1, <2>3, <3>1, <3>2 DEF AccessInv, UploaderStays, Present, Deleting, vars
    <3>4. home' \in [Document -> Key \cup {<<>>}]
      BY <1>1, <2>3, <3>1 DEF AccessInv
    <3>5. QED
      BY <2>1, <3>3, <3>4 DEF AccessInv
  <2>4. QED
    BY <1>5, <2>2, <2>3 DEF UploadDocument
<1>6. ASSUME NEW d \in Document, DeleteDocument(d) PROVE AccessInv'
  <2>1. UNCHANGED vars /\ call' = NoCall
    BY <1>6 DEF DeleteDocument
  <2>2. CASE home' = home
    BY <1>3, <2>1, <2>2
  <2>3. CASE home' = [home EXCEPT ![d] = <<>>]
    <3>1. \A e \in Document : home'[e] = IF e = d THEN <<>> ELSE home[e]
      BY <1>1, <2>3 DEF AccessInv
    <3>2. ASSUME NEW e \in Document PROVE UploaderStays(e)'
      BY <1>1, <2>1, <3>1 DEF AccessInv, UploaderStays, Present, Deleting, vars
    <3>3. home' \in [Document -> Key \cup {<<>>}]
      BY <1>1, <2>3 DEF AccessInv
    <3>4. QED
      BY <2>1, <3>2, <3>3 DEF AccessInv
  <2>4. QED
    BY <1>6, <2>2, <2>3 DEF DeleteDocument
<1>7. ASSUME NEW s \in Session, RestrictUser(s) PROVE AccessInv'
  <2>1. /\ UNCHANGED <<tableVars, home, call>> /\ statement[s].pc = "parent"
        /\ statement' = [statement EXCEPT ![s] = Idle]
    BY <1>7 DEF RestrictUser, accessVars, DeletingUser, Raise
  <2>2. Idle.pc # "rows"
    BY DEF Idle
  <2>3. \A t \in Session : \A p : Deleting(t, p)' => Deleting(t, p)
    BY <1>1, <2>1, <2>2 DEF Deleting, TypeOK
  <2>4. ASSUME NEW d \in Document PROVE UploaderStays(d)'
    BY <1>1, <2>1, <2>3 DEF AccessInv, UploaderStays, Present, tableVars
  <2>5. QED
    BY <1>1, <2>1, <2>4 DEF AccessInv
<1>8. QED
  BY <1>1, <1>2, <1>3, <1>4, <1>5, <1>6, <1>7 DEF AccessNext, accessVars, AccessInv

\* RestrictUser raises for a statement that deletes an account.
LEMMA RestrictKeeps ==
  ASSUME TypeOK, DropInv, NEW s \in Session, RestrictUser(s)
  PROVE  TypeOK' /\ DropInv'
<1>1. Raise(s) /\ UNCHANGED tableVars /\ statement[s].pc = "parent"
      /\ statement[s].kind = "deregister"
  BY DEF RestrictUser, DeletingUser
<1>2. TypeOK'
  <2>1. /\ statement' \in [Session -> Statement]
        /\ pending' \in [Session -> [Key -> Cell \cup {"kept"}]]
    BY <1>1, RaiseType
  <2>2. QED
    BY <1>1, <2>1 DEF TypeOK, tableVars, Statement
<1>3. DropInv'
  BY <1>1, RestDrop DEF Raise
<1>4. QED
  BY <1>2, <1>3

LEMMA AccessBegins == AccessInit => TypeOK /\ DropInv /\ AccessInv
BY InitTypes, InitDrop DEF AccessInit, AccessInv, UploaderStays, Present, NoCall

LEMMA AccessKeeps ==
  TypeOK /\ DropInv /\ AccessInv /\ [AccessNext]_<<vars, accessVars>>
    => (TypeOK /\ DropInv /\ AccessInv)'
<1>1. TypeOK /\ DropInv /\ [AccessNext]_<<vars, accessVars>> => (TypeOK /\ DropInv)'
  <2>1. SUFFICES ASSUME TypeOK, DropInv, [AccessNext]_<<vars, accessVars>>
                 PROVE  TypeOK' /\ DropInv'
    OBVIOUS
  <2>2. CASE Next \/ UNCHANGED vars
    BY <2>1, <2>2, TypesInductive, DropInductive
  <2>3. ASSUME NEW s \in Session, RestrictUser(s) PROVE TypeOK' /\ DropInv'
    BY <2>1, <2>3, RestrictKeeps
  <2>4. QED
    BY <2>1, <2>2, <2>3 DEF AccessNext, MembershipStep, Admit, UploadDocument, DeleteDocument
<1>2. QED
  BY <1>1, AccessInductive

\* The foreign keys of documents hold at every commit: a request that was let in
\* before its workspace was dropped or its account deleted inserts its row
\* before that, or not at all.
THEOREM DocumentsKept == AccessSpec => []DocumentsRefer
<1>1. AccessInv => DocumentsRefer
  BY DEF AccessInv, UploaderStays, DocumentsRefer
<1>2. QED
  BY <1>1, AccessBegins, AccessKeeps, PTL DEF AccessSpec

\* Documents and the calls over them do not disturb what the memberships promise
\* on their own: the account deletions they stop are rolled back.
THEOREM MembersKeptUnderAccess ==
  ASSUME LoweringAlone
  PROVE  AccessSpec => LastOwnerKept /\ [](MembershipsRefer /\ DropNeverRefused)
<1> DEFINE Inv == TypeOK /\ OwnerInv /\ DropInv /\ ReferInv
<1>1. AccessInit => Inv
  BY InitTypes, InitOwners, InitDrop, InitRefer DEF AccessInit
<1>2. ASSUME NEW s \in Session, RestrictUser(s)
      PROVE  /\ Raise(s) /\ UNCHANGED tableVars
             /\ statement[s].pc = "parent" /\ statement[s].kind = "deregister"
  BY <1>2 DEF RestrictUser, DeletingUser
<1>3. [AccessNext]_<<vars, accessVars>> =>
        [Next]_vars \/ \E s \in Session : RestrictUser(s)
  BY DEF AccessNext, MembershipStep, Admit, UploadDocument, DeleteDocument, vars
<1>4. Inv /\ [AccessNext]_<<vars, accessVars>> => Inv'
  <2>1. SUFFICES ASSUME Inv, [AccessNext]_<<vars, accessVars>> PROVE Inv'
    OBVIOUS
  <2>2. CASE [Next]_vars
    BY <2>1, <2>2, TypesInductive, OwnersInductive, DropInductive, ReferInductive
  <2>3. ASSUME NEW s \in Session, RestrictUser(s) PROVE Inv'
    <3>1. /\ Raise(s) /\ UNCHANGED tableVars
          /\ statement[s].pc = "parent" /\ statement[s].kind = "deregister"
      BY <1>2, <2>3
    <3>2. TypeOK' /\ DropInv'
      BY <2>1, <2>3, RestrictKeeps
    <3>3. OwnerInv'
      BY <2>1, <3>1, RaiseOwners
    <3>4. ReferInv'
      BY <2>1, <3>1, RestRefer DEF Raise
    <3>5. QED
      BY <3>2, <3>3, <3>4
  <2>4. QED
    BY <1>3, <2>1, <2>2, <2>3
<1>5. Inv => MembershipsRefer /\ DropNeverRefused
  BY DropRefusesNothing DEF ReferInv
<1>6. Inv /\ [AccessNext]_<<vars, accessVars>> => [LastOwnerStays]_vars
  <2>1. SUFFICES ASSUME Inv, [AccessNext]_<<vars, accessVars>> PROVE [LastOwnerStays]_vars
    OBVIOUS
  <2>2. CASE [Next]_vars
    BY <2>1, <2>2, OwnersStep
  <2>3. ASSUME NEW s \in Session, RestrictUser(s) PROVE LastOwnerStays
    <3>1. UNCHANGED role
      BY <1>2, <2>3 DEF tableVars
    <3>2. QED
      BY <3>1 DEF LastOwnerStays, Led, Owns
  <2>4. QED
    BY <1>3, <2>1, <2>2, <2>3
<1> HIDE DEF Inv
<1>7. AccessSpec => [][LastOwnerStays]_vars /\ [](MembershipsRefer /\ DropNeverRefused)
  BY <1>1, <1>4, <1>5, <1>6, PTL DEF AccessSpec
<1>8. QED
  BY <1>7 DEF LastOwnerKept, LastOwnerStays

=============================================================================
