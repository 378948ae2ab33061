--------------------------- MODULE WorkspaceAccess ---------------------------
(***************************************************************************)
(* Documents of workspaces, through the API, while the clients of          *)
(* WorkspaceMembership change who is a member and delete workspaces and    *)
(* accounts.  A request is let in by a read of the membership; what it     *)
(* then does is a statement of its own, later, and checks nothing again.   *)
(***************************************************************************)
EXTENDS WorkspaceMembership

CONSTANT Document   \* bound: rows of documents at one time; no id is remembered

VARIABLES
  home,   \* the workspace and the uploader of each row, <<>> without a row
  call    \* a request: the workspace and the caller it was let in for

accessVars == <<home, call>>

NoCall == <<>>
Present(d) == home[d] # <<>>

-----------------------------------------------------------------------------
(* Being let in                                                              *)

\* verify: a token stands for its subject until it expires, and longer than an
\* account that is deleted.
Identified == {u \in User : u \in minted}

Rank(cell) == CASE cell = "owner" -> 20 [] cell = "member" -> 10

\* satisfies
Satisfies(cell, required) == Rank(cell) >= Rank(required)

\* get_membership, joined with its workspace: none of the other tables decides.
GetMembership(w, u) == IF w \in workspaces THEN role[<<w, u>>] ELSE "none"

\* require_membership: without a row the workspace does not exist.
RequireMembership(w, u, required) ==
  LET cell == GetMembership(w, u) IN cell # "none" /\ Satisfies(cell, required)

\* WorkspaceMember, the dependency of every route over documents.
Admit ==
  /\ call = NoCall
  /\ \E u \in Identified, w \in Workspace :
       RequireMembership(w, u, "member") /\ call' = <<w, u>>
  /\ UNCHANGED <<vars, home>>

-----------------------------------------------------------------------------
(* What a request does then: the API is no client of the policies.           *)

\* Every query names the workspace the caller was let into.
FoundInWorkspace(d) == Present(d) /\ home[d][1] = call[1]

\* No other transaction has deleted the row, or one it refers to.
Unlocked(w) == \A s \in Session : ~Deleting(s, w)

\* insert into documents: the foreign keys wait for a transaction that deletes
\* the workspace or the account, and refuse the row if either is gone.
UploadDocument ==
  /\ call # NoCall
  /\ Unlocked(call[1]) /\ Unlocked(call[2])
  /\ \/ /\ call[1] \in workspaces /\ call[2] \in users
        /\ \E d \in Document : ~Present(d) /\ home' = [home EXCEPT ![d] = call]
     \/ (call[1] \notin workspaces \/ call[2] \notin users) /\ UNCHANGED home
  /\ call' = NoCall
  /\ UNCHANGED vars

\* delete from documents; 404 if there is none.
DeleteDocument(d) ==
  /\ call # NoCall
  /\ \/ FoundInWorkspace(d) /\ Unlocked(home[d][1]) /\ home' = [home EXCEPT ![d] = <<>>]
     \/ ~FoundInWorkspace(d) /\ UNCHANGED home
  /\ call' = NoCall
  /\ UNCHANGED vars

-----------------------------------------------------------------------------
(* The documents while workspaces and accounts go                            *)

\* Mutant: accounts go with documents that name them.
UploadedNothing(s) == {}

\* uploaded_by: on delete restrict.
Uploaded(s) == {d \in Document : Present(d) /\ home[d][2] = statement[s].parent}

\* A workspace takes its documents with it.
Kept(d) == Present(d) /\ home[d][1] \in workspaces'

DeletingUser(s) == statement[s].pc = "parent" /\ statement[s].kind = "deregister"

MembershipStep ==
  /\ Next
  /\ \A s \in Session : DeletingUser(s) /\ statement'[s].pc = "rows" => Uploaded(s) = {}
  /\ home' = [d \in Document |-> IF Kept(d) THEN home[d] ELSE <<>>]
  /\ UNCHANGED call

\* An account that uploaded documents is not deleted while they exist; the
\* check waits for the transactions that hold the account or one of them.
RestrictUser(s) ==
  /\ DeletingUser(s)
  /\ ~Referenced(s, statement[s].parent) /\ Unlocked(statement[s].parent)
  /\ \E d \in Uploaded(s) : Unlocked(home[d][1])
  /\ Raise(s)
  /\ UNCHANGED <<tableVars, accessVars>>

AccessInit ==
  /\ Init
  /\ home = [d \in Document |-> <<>>]
  /\ call = NoCall

AccessNext ==
  \/ MembershipStep
  \/ Admit \/ UploadDocument
  \/ \E d \in Document : DeleteDocument(d)
  \/ \E s \in Session : RestrictUser(s)

AccessSpec == AccessInit /\ [][AccessNext]_<<vars, accessVars>>

-----------------------------------------------------------------------------
(* Properties *)

\* No document outlives its workspace, or names an uploader who is gone: an
\* upload that was let in before a member left, a workspace was dropped or an
\* account deleted lands before the deletion, or not at all.
DocumentsRefer ==
  \A d \in Document : Present(d) => home[d][1] \in workspaces /\ home[d][2] \in users

=============================================================================
