--------------------------- MODULE DocumentManager ---------------------------
(***************************************************************************)
(* The list of documents in a browser: the component DocumentManager over  *)
(* the API, whose documents move as DocumentLifecycle says.                *)
(*                                                                         *)
(* Calls are connections of their own: the API may read for one and answer *)
(* it before or after another, and nothing in the page puts the answers in *)
(* order.  The page asks for its list when it is loaded, after a document  *)
(* was handed to processing, and every two seconds while it shows one that *)
(* is being processed; uploads and deletes it applies to the list it has.  *)
(***************************************************************************)
EXTENDS DocumentLifecycle

CONSTANTS
  List,    \* bound: list requests that may be on their way at once
  Action,  \* bound: uploads, deletes and process requests on their way at once
  Stored   \* documents that exist before the page is opened

ASSUME ManagerAssumption == Stored \subseteq Document

VARIABLES
  minted,  \* documents that exist or have existed
  page,    \* what the page shows, and what it may be behind on
  list,    \* the list requests
  action,  \* what the user has asked for
  pressed, \* deletingId and processingId, as sets of at most one document
  mine     \* what the page was told of its own uploads and deletes

serverVars == <<status, run, minted>>
clientVars == <<page, list, action, pressed, mine>>
vars == <<status, run, minted, page, list, action, pressed, mine>>

Shown == {"uploaded", "processing", "ready", "failed"}
Row == [document : Document, status : Shown]

Free == [pc |-> "free", awaited |-> FALSE, rows |-> {}, stale |-> {}]
NoAction == [pc |-> "free", kind |-> "none", document |-> {}]

\* Mutant: the list of everything that ever was.
RowsOfMinted == {[document |-> d, status |-> status[d]] : d \in minted}

\* GET documents: a set, since no property asks for the order of the rows.
RowsNow ==
  {[document |-> d, status |-> status[d]] : d \in {e \in Document : status[e] # "absent"}}

Shows(d) == \E row \in page.rows : row.document = d

\* Mutant: the status of a job where a document's belongs.
JobInFlight(rows) == \E row \in rows : row.status = "running"

\* hasWorkInFlight
HasWorkInFlight(rows) == \E row \in rows : row.status = "processing"

\* canProcess
CanProcess(s) == s \in {"uploaded", "failed"}

-----------------------------------------------------------------------------
(* Lists                                                                     *)

\* handleProcess awaits its refresh.
Sent(c, awaited) ==
  [list EXCEPT ![c] = [pc |-> "sent", awaited |-> awaited, rows |-> {}, stale |-> {}]]

Broken == [kind |-> "error", rows |-> {}, stale |-> {}]

\* refresh: without a session nothing is sent.
Refresh(c) ==
  /\ list[c].pc = "free"
  /\ \/ list' = Sent(c, FALSE) /\ UNCHANGED page
     \/ page' = Broken /\ UNCHANGED list

\* The interval, which runs while the page shows work in flight.
Poll ==
  /\ page.kind = "loaded" /\ HasWorkInFlight(page.rows)
  /\ \E c \in List : Refresh(c)
  /\ UNCHANGED <<serverVars, action, pressed, mine>>

\* "Try again"
TryAgain ==
  /\ page.kind = "error"
  /\ page' = [page EXCEPT !.kind = "loading"]
  /\ \E c \in List : list[c].pc = "free" /\ list' = Sent(c, FALSE)
  /\ UNCHANGED <<serverVars, action, pressed, mine>>

\* The API reads the rows, or refuses: no longer a member, an expired token, a
\* failure of its own.
AnswerList(c) ==
  /\ list[c].pc = "sent"
  /\ \/ list' = [list EXCEPT ![c].pc = "answered", ![c].rows = RowsNow]
     \/ list' = [list EXCEPT ![c].pc = "refused"]
  /\ UNCHANGED <<serverVars, page, action, pressed, mine>>

\* finally: setDeletingId(null), setProcessingId(null), whoever pressed last
Released(kind) == [x \in DOMAIN pressed |-> IF x = kind THEN {} ELSE pressed[x]]

ListArrives(c) ==
  /\ list[c].pc \in {"answered", "refused"}
  /\ page' = IF list[c].pc = "refused" THEN Broken
             ELSE [kind |-> "loaded", rows |-> list[c].rows, stale |-> list[c].stale]
  /\ list' = [list EXCEPT ![c] = Free]
  /\ pressed' = IF list[c].awaited THEN Released("process") ELSE pressed
  /\ UNCHANGED <<serverVars, action, mine>>

-----------------------------------------------------------------------------
(* What the user asks for                                                    *)

Ask(a, kind, ds) ==
  /\ action[a].pc = "free"
  /\ action' = [action EXCEPT ![a] = [pc |-> "sent", kind |-> kind, document |-> ds]]
  /\ UNCHANGED <<serverVars, page, list, mine>>

\* The input is disabled while an upload is under way.
AskUpload(a) ==
  /\ \A b \in Action : action[b].kind # "upload"
  /\ Ask(a, "upload", {})
  /\ UNCHANGED pressed

\* The button of a row is disabled while the page remembers it as pressed.
AskRow(a, row) ==
  \E kind \in {"delete", "process"} :
    /\ row.document \notin pressed[kind]
    /\ kind = "process" => CanProcess(row.status)
    /\ Ask(a, kind, {row.document})
    /\ pressed' = [pressed EXCEPT ![kind] = {row.document}]

Answered(a, outcome, ds) ==
  action' = [action EXCEPT ![a] = [pc |-> outcome, kind |-> @.kind, document |-> ds]]

\* POST documents: a row appears, or the upload is refused.
AnswerUpload(a) ==
  /\ action[a].pc = "sent" /\ action[a].kind = "upload"
  /\ \/ \E d \in Document \ minted :
          Appear(d) /\ minted' = minted \cup {d} /\ Answered(a, "done", {d})
     \/ Answered(a, "refused", {}) /\ UNCHANGED serverVars
  /\ UNCHANGED <<page, list, pressed, mine>>

\* DELETE and POST process: 404 without a row; either may fail, or have its
\* answer lost after it took effect.
AnswerRow(a) ==
  /\ action[a].pc = "sent"
  /\ \E d \in action[a].document :
       \/ /\ status[d] # "absent"
          /\ \/ action[a].kind = "delete" /\ Remove(d)
             \/ action[a].kind = "process" /\ Claim(d)
             \/ action[a].kind = "process" /\ run[d] # "none" /\ UNCHANGED <<status, run>>
          /\ \E outcome \in {"done", "refused"} : Answered(a, outcome, {d})
       \/ Answered(a, "refused", {d}) /\ UNCHANGED <<status, run>>
  /\ UNCHANGED <<minted, page, list, pressed, mine>>

\* handleUpload: the created document, before those the page has by now
RowsWith(d) == {[document |-> d, status |-> "uploaded"]} \cup page.rows

\* Mutant: the row stays until the next list.
RowsKept(d) == page.rows

\* handleDelete: documents.filter
RowsWithout(d) == {row \in page.rows : row.document # d}

\* A change of the list the page has is lost if the page has none, and to any
\* list that was read before and has yet to arrive.
Applied(rows, d) ==
  /\ page' = IF page.kind = "loaded"
             THEN [page EXCEPT !.rows = rows, !.stale = @ \ {d}] ELSE page
  /\ list' = [c \in List |-> IF list[c].pc = "answered"
                             THEN [list[c] EXCEPT !.stale = @ \cup {d}] ELSE list[c]]

\* handleProcess: the row is released when the list it asks for has arrived.
Follow ==
  \E c \in List :
    /\ list[c].pc = "free"
    /\ \/ list' = Sent(c, TRUE) /\ UNCHANGED <<page, pressed>>
       \/ page' = Broken /\ pressed' = Released("process") /\ UNCHANGED list

ActionArrives(a) ==
  /\ \/ /\ action[a].pc = "refused"
        /\ pressed' = Released(action[a].kind)
        /\ UNCHANGED <<page, list, mine>>
     \/ /\ action[a].pc = "done" /\ action[a].kind \in {"upload", "delete"}
        /\ \E d \in action[a].document :
             \/ action[a].kind = "upload" /\ Applied(RowsWith(d), d)
                /\ mine' = [mine EXCEPT ![d] = "uploaded"]
             \/ action[a].kind = "delete" /\ Applied(RowsWithout(d), d)
                /\ mine' = [mine EXCEPT ![d] = "deleted"]
        /\ pressed' = Released(action[a].kind)
     \/ /\ action[a].pc = "done" /\ action[a].kind = "process"
        /\ Follow
        /\ UNCHANGED mine
  /\ action' = [action EXCEPT ![a] = NoAction]
  /\ UNCHANGED serverVars

-----------------------------------------------------------------------------

\* The documents move: other members and tabs start runs of their own, as often
\* as they like, delete and upload.
Server ==
  /\ \/ \E d \in Document : (Claim(d) \/ Advance(d)) /\ UNCHANGED minted
     \/ \E d \in Document : status[d] # "absent" /\ Remove(d) /\ UNCHANGED minted
     \/ \E d \in Document \ minted : Appear(d) /\ minted' = minted \cup {d}
  /\ UNCHANGED clientVars

\* The page is opened and asks for its list.
ManagerInit ==
  /\ status = [d \in Document |-> IF d \in Stored THEN "uploaded" ELSE "absent"]
  /\ run = [d \in Document |-> "none"]
  /\ minted = Stored
  /\ page = [kind |-> "loading", rows |-> {}, stale |-> {}]
  /\ \E c \in List : list = [x \in List |->
       IF x = c THEN [Free EXCEPT !.pc = "sent"] ELSE Free]
  /\ action = [a \in Action |-> NoAction]
  /\ pressed = [kind \in {"delete", "process"} |-> {}]
  /\ mine = [d \in Document |-> "none"]

ManagerNext ==
  \/ Poll \/ TryAgain
  \/ \E c \in List : AnswerList(c) \/ ListArrives(c)
  \/ \E a \in Action :
       \/ AskUpload(a)
       \/ \E row \in page.rows : AskRow(a, row)
       \/ AnswerUpload(a) \/ AnswerRow(a) \/ ActionArrives(a)
  \/ Server

\* The timer fires, calls are answered and answers arrive.  Nobody has to press
\* a button, and no run has to start or to end.
PageFairness ==
  /\ WF_vars(Poll)
  /\ \A c \in List : WF_vars(AnswerList(c)) /\ WF_vars(ListArrives(c))
  /\ \A a \in Action :
       WF_vars(AnswerUpload(a)) /\ WF_vars(AnswerRow(a)) /\ WF_vars(ActionArrives(a))

ManagerSpec == ManagerInit /\ [][ManagerNext]_vars /\ PageFairness

\* A server at its best: every job starts, marks its document, ends and writes
\* the outcome.
ServerFairness ==
  \A d \in Document :
    /\ WF_vars(Start(d) /\ UNCHANGED <<minted, clientVars>>)
    /\ WF_vars(End(d) /\ UNCHANGED <<minted, clientVars>>)
    /\ WF_vars(Mark(d) /\ UNCHANGED <<minted, clientVars>>)
    /\ WF_vars(run[d] = "none" /\ status[d] = "processing"
                 /\ (Settle(d, "ready") \/ Settle(d, "failed"))
                 /\ UNCHANGED <<minted, clientVars>>)

ServedSpec == ManagerSpec /\ ServerFairness

-----------------------------------------------------------------------------
(* Properties *)

\* Type correctness of the page and its calls.
ManagerTypeOK ==
  /\ minted \subseteq Document
  /\ page \in [kind : {"loading", "loaded", "error"}, rows : SUBSET Row,
               stale : SUBSET Document]
  /\ list \in [List -> [pc : {"free", "sent", "answered", "refused"},
                        awaited : BOOLEAN, rows : SUBSET Row, stale : SUBSET Document]]
  /\ action \in [Action -> [pc : {"free", "sent", "done", "refused"},
                            kind : {"none", "upload", "delete", "process"},
                            document : SUBSET Document]]
  /\ pressed \in [{"delete", "process"} -> SUBSET Document]
  /\ mine \in [Document -> {"none", "uploaded", "deleted"}]

\* The page never loses a change of its own but to a list that was read before
\* the change was answered and arrived after it: what it deleted stays away,
\* what it uploaded stays there, and no list that is asked for later differs.
OwnChangesShown ==
  page.kind = "loaded" =>
    \A d \in Document \ page.stale :
      /\ mine[d] = "deleted" => ~Shows(d)
      /\ mine[d] = "uploaded" /\ status[d] # "absent" => Shows(d)

\* The page does not stay behind: when a document has left processing for good,
\* or is gone, polling ends only once the page has seen it, however polls
\* overtake each other, what is asked for or fails meanwhile, and however long a
\* run took.  Nothing is promised while others start one run after the other:
\* each poll may fall into the next.
ShownResolves ==
  \A d \in Document :
    <>[](status[d] # "processing") =>
      <>[]([document |-> d, status |-> "processing"] \notin page.rows)

\* format.ts: "the only way a client learns it finished is by asking again.
\* Polling stops as soon as nothing is running".  A document that the page had
\* accepted for processing is shown in processing, or past it, some time.
ProcessFollowed ==
  \A d \in Document :
    (\E a \in Action : action[a] = [pc |-> "done", kind |-> "process", document |-> {d}])
      ~> \/ page.kind # "loaded" \/ status[d] = "absent"
         \/ \E row \in page.rows :
              row.document = d /\ row.status \in {"processing", "ready", "failed"}

=============================================================================
