------------------------ MODULE DocumentManagerProofs ------------------------
(***************************************************************************)
(* Theorems about DocumentManager, for every set of documents and any      *)
(* number of lists and actions on their way at once.                       *)
(***************************************************************************)
EXTENDS DocumentManager, TLAPS

-----------------------------------------------------------------------------
(* Types *)

Page == [kind : {"loading", "loaded", "error"}, rows : SUBSET Row, stale : SUBSET Document]
Listing == [pc : {"free", "sent", "answered", "refused"},
            awaited : BOOLEAN, rows : SUBSET Row, stale : SUBSET Document]
Asked == [pc : {"free", "sent", "done", "refused"},
          kind : {"none", "upload", "delete", "process"}, document : SUBSET Document]

\* A document without a row has no run.
StatusTypeOK ==
  /\ status \in [Document -> Shown \cup {"absent"}] /\ run \in [Document -> Run]
  /\ \A d \in Document : run[d] # "none" => status[d] # "absent"

TypeInv == ManagerTypeOK /\ StatusTypeOK

LEMMA TypeInvParts ==
  /\ TypeInv <=>
       /\ StatusTypeOK /\ minted \subseteq Document
       /\ page \in Page /\ list \in [List -> Listing] /\ action \in [Action -> Asked]
       /\ pressed \in [{"delete", "process"} -> SUBSET Document]
       /\ mine \in [Document -> {"none", "uploaded", "deleted"}]
  /\ TypeInv' <=>
       /\ StatusTypeOK' /\ minted' \subseteq Document
       /\ page' \in Page /\ list' \in [List -> Listing] /\ action' \in [Action -> Asked]
       /\ pressed' \in [{"delete", "process"} -> SUBSET Document]
       /\ mine' \in [Document -> {"none", "uploaded", "deleted"}]
BY DEF TypeInv, ManagerTypeOK, Page, Listing, Asked

LEMMA RowTypes ==
  /\ StatusTypeOK => RowsNow \in SUBSET Row
  /\ Free \in Listing /\ Broken \in Page /\ NoAction \in Asked
BY DEF RowsNow, StatusTypeOK, Row, Free, Listing, Broken, Page, NoAction, Asked, Shown

LEMMA SentTypes ==
  ASSUME list \in [List -> Listing], NEW c \in List, NEW awaited \in BOOLEAN
  PROVE  /\ Sent(c, awaited) \in [List -> Listing]
         /\ Sent(c, awaited)[c].pc = "sent"
         /\ \A x \in List \ {c} : Sent(c, awaited)[x] = list[x]
<1>1. [pc |-> "sent", awaited |-> awaited, rows |-> {}, stale |-> {}] \in Listing
  BY DEF Listing
<1>2. QED
  BY <1>1 DEF Sent

LEMMA ReleasedTypes ==
  ASSUME TypeInv, NEW kind
  PROVE  Released(kind) \in [{"delete", "process"} -> SUBSET Document]
BY TypeInvParts DEF Released

LEMMA AnsweredTypes ==
  ASSUME action \in [Action -> Asked], NEW a \in Action,
         NEW outcome \in {"done", "refused"}, NEW ds \in SUBSET Document,
         Answered(a, outcome, ds)
  PROVE  /\ action' \in [Action -> Asked]
         /\ action'[a].pc = outcome /\ action'[a].document = ds
         /\ action'[a].kind = action[a].kind
         /\ \A b \in Action \ {a} : action'[b] = action[b]
<1>1. action[a].kind \in {"none", "upload", "delete", "process"}
  BY DEF Asked
<1>2. [pc |-> outcome, kind |-> action[a].kind, document |-> ds] \in Asked
  BY <1>1 DEF Asked
<1>3. QED
  BY <1>2 DEF Answered

\* The server moves: a status is one of those it may show.
LEMMA StatusTypes ==
  ASSUME StatusTypeOK, NEW d \in Document,
         Appear(d) \/ Claim(d) \/ Advance(d) \/ Remove(d)
  PROVE  StatusTypeOK'
<1>1. CASE Appear(d)
  BY <1>1 DEF StatusTypeOK, Appear, Shown
<1>2. CASE Claim(d) \/ Start(d) \/ End(d)
  BY <1>2 DEF StatusTypeOK, Claim, Start, End, Run
<1>3. CASE Mark(d)
  BY <1>3 DEF StatusTypeOK, Mark, Shown
<1>4. CASE Settle(d, "ready") \/ Settle(d, "failed")
  BY <1>4 DEF StatusTypeOK, Settle, Shown
<1>5. CASE Remove(d)
  BY <1>5 DEF StatusTypeOK, Remove, Run
<1>6. QED
  BY <1>1, <1>2, <1>3, <1>4, <1>5 DEF Advance

-----------------------------------------------------------------------------
(* What the page knows.  A list agrees with the page's own changes except    *)
(* about documents it is stale for: those that were answered after it was    *)
(* read.  A deleted document never comes back, because no id is used twice.  *)

Agree(rows, stale) ==
  \A d \in Document \ stale :
    /\ mine[d] = "deleted" => \A row \in rows : row.document # d
    /\ mine[d] = "uploaded" /\ status[d] # "absent" => \E row \in rows : row.document = d

PageAgrees == page.kind = "loaded" => Agree(page.rows, page.stale)
ListAgrees(c) == list[c].pc = "answered" => Agree(list[c].rows, list[c].stale)

\* What the page was told, or is about to be told, is so.
Told ==
  /\ \A d \in Document :
       /\ status[d] # "absent" \/ mine[d] # "none" => d \in minted
       /\ mine[d] = "deleted" => status[d] = "absent"
  /\ \A a \in Action : action[a].pc = "done" =>
       \A d \in action[a].document :
         d \in minted /\ (action[a].kind = "delete" => status[d] = "absent")

ManagerInv ==
  /\ TypeInv
  /\ Told
  /\ PageAgrees
  /\ \A c \in List : ListAgrees(c)

\* A list is sent, an answer fails or the page is broken: nothing new is known.
LEMMA NothingLearnt ==
  ASSUME ManagerInv, TypeInv', UNCHANGED <<status, minted, mine>>,
         page' = page \/ page'.kind # "loaded",
         \A c \in List : list'[c] = list[c] \/ list'[c].pc # "answered",
         \A a \in Action : action'[a] = action[a] \/ action'[a].pc # "done"
  PROVE  ManagerInv'
<1>1. Told'
  BY DEF ManagerInv, Told
<1>2. PageAgrees'
  BY DEF ManagerInv, PageAgrees, Agree
<1>3. \A c \in List : ListAgrees(c)'
  BY DEF ManagerInv, ListAgrees, Agree
<1>4. QED
  BY <1>1, <1>2, <1>3 DEF ManagerInv

\* The server moves: of the documents that were minted, none comes back.
LEMMA ServerMoves ==
  ASSUME ManagerInv, TypeInv', UNCHANGED <<mine, page, list>>,
         minted \subseteq minted',
         \A d \in Document : status'[d] # "absent" =>
           status[d] # "absent" \/ d \in minted' \ minted,
         \A a \in Action :
           \/ action'[a] = action[a] \/ action'[a].pc # "done"
           \/ \A d \in action'[a].document :
                d \in minted' /\ (action'[a].kind = "delete" => status'[d] = "absent")
  PROVE  ManagerInv'
<1>1. Told'
  <2>1. \A d \in Document : /\ status'[d] # "absent" \/ mine'[d] # "none" => d \in minted'
                            /\ mine'[d] = "deleted" => status'[d] = "absent"
    BY DEF ManagerInv, Told
  <2>2. ASSUME NEW a \in Action, action'[a].pc = "done", NEW d \in action'[a].document
        PROVE  d \in minted' /\ (action'[a].kind = "delete" => status'[d] = "absent")
    <3>1. CASE action'[a] = action[a]
      <4>1. d \in minted /\ (action[a].kind = "delete" => status[d] = "absent")
        BY <2>2, <3>1 DEF ManagerInv, Told
      <4>2. QED
        BY <3>1, <4>1, TypeInvParts DEF ManagerInv
    <3>2. QED
      BY <2>2, <3>1
  <2>3. QED
    BY <2>1, <2>2 DEF Told
<1>2. \A d \in Document : mine[d] # "none" /\ status'[d] # "absent" => status[d] # "absent"
  BY DEF ManagerInv, Told
<1>3. PageAgrees'
  BY <1>2 DEF ManagerInv, PageAgrees, Agree
<1>4. \A c \in List : ListAgrees(c)'
  BY <1>2 DEF ManagerInv, ListAgrees, Agree
<1>5. QED
  BY <1>1, <1>3, <1>4 DEF ManagerInv

\* A document appears only by the step that says so.
LEMMA NothingReappears ==
  ASSUME StatusTypeOK, NEW d \in Document, Claim(d) \/ Advance(d) \/ Remove(d)
  PROVE  \A e \in Document : status'[e] # "absent" => status[e] # "absent"
<1>1. CASE Claim(d)
  BY <1>1 DEF Claim
<1>2. CASE Remove(d)
  BY <1>2 DEF StatusTypeOK, Remove
<1>3. CASE Start(d) \/ End(d)
  BY <1>3 DEF Start, End
<1>4. CASE Settle(d, "ready") \/ Settle(d, "failed")
  BY <1>4 DEF StatusTypeOK, Settle
<1>5. CASE Mark(d)
  BY <1>5 DEF StatusTypeOK, Mark
<1>6. QED
  BY <1>1, <1>2, <1>3, <1>4, <1>5 DEF Advance

LEMMA AnswerRowMoves ==
  ASSUME ManagerInv, NEW a \in Action, AnswerRow(a)
  PROVE  ManagerInv'
<1>1. PICK d \in action[a].document :
        \/ /\ status[d] # "absent"
           /\ \/ action[a].kind = "delete" /\ Remove(d)
              \/ action[a].kind = "process" /\ Claim(d)
              \/ action[a].kind = "process" /\ run[d] # "none" /\ UNCHANGED <<status, run>>
           /\ \E outcome \in {"done", "refused"} : Answered(a, outcome, {d})
        \/ Answered(a, "refused", {d}) /\ UNCHANGED <<status, run>>
  BY DEF AnswerRow
<1>2. PICK outcome \in {"done", "refused"} : Answered(a, outcome, {d})
  BY <1>1
<1>3. d \in Document /\ TypeInv /\ UNCHANGED <<minted, page, list, pressed, mine>>
  BY TypeInvParts DEF ManagerInv, AnswerRow, Asked
<1>4. /\ action' \in [Action -> Asked]
      /\ action'[a].pc = outcome /\ action'[a].document = {d}
      /\ action'[a].kind = action[a].kind
      /\ \A b \in Action \ {a} : action'[b] = action[b]
  BY <1>2, <1>3, TypeInvParts, AnsweredTypes
<1>5. StatusTypeOK'
  BY <1>1, <1>3, StatusTypes DEF TypeInv, StatusTypeOK
<1>6. TypeInv'
  BY <1>3, <1>4, <1>5, TypeInvParts
<1>7. /\ \A e \in Document : status'[e] # "absent" => status[e] # "absent"
      /\ action'[a].pc = "done" => status[d] # "absent"
      /\ action'[a].pc = "done" /\ action[a].kind = "delete" => status'[d] = "absent"
  <2>1. \A e \in Document : status'[e] # "absent" => status[e] # "absent"
    BY <1>1, <1>3, NothingReappears DEF TypeInv
  <2>2. CASE Answered(a, "refused", {d})
    <3>1. action'[a].pc = "refused"
      BY <1>3, <2>2, TypeInvParts DEF Answered, Asked
    <3>2. QED
      BY <2>1, <3>1
  <2>3. CASE /\ status[d] # "absent"
             /\ \/ action[a].kind = "delete" /\ Remove(d)
                \/ action[a].kind = "process"
    <3>1. action[a].kind = "delete" => status'[d] = "absent"
      BY <1>3, <2>3 DEF TypeInv, StatusTypeOK, Remove
    <3>2. QED
      BY <2>1, <2>3, <3>1
  <2>4. QED
    BY <1>1, <2>2, <2>3
<1>8. action'[a].pc = "done" => d \in minted
  BY <1>3, <1>7 DEF ManagerInv, Told
<1>9. QED
  BY <1>3, <1>4, <1>6, <1>7, <1>8, ServerMoves

LEMMA AnswerUploadMoves ==
  ASSUME ManagerInv, NEW a \in Action, AnswerUpload(a)
  PROVE  ManagerInv'
<1>1. TypeInv /\ UNCHANGED <<page, list, pressed, mine>> /\ action[a].kind = "upload"
  BY DEF ManagerInv, AnswerUpload
<1>2. CASE Answered(a, "refused", {}) /\ UNCHANGED serverVars
  <2>1. /\ action' \in [Action -> Asked] /\ action'[a].pc = "refused"
        /\ \A b \in Action \ {a} : action'[b] = action[b]
    BY <1>1, <1>2, TypeInvParts DEF Answered, Asked
  <2>2. TypeInv'
    BY <1>1, <1>2, <2>1, TypeInvParts DEF serverVars, StatusTypeOK
  <2>3. QED
    BY <1>1, <1>2, <2>1, <2>2, NothingLearnt DEF serverVars
<1>3. ASSUME NEW d \in Document \ minted,
             Appear(d), minted' = minted \cup {d}, Answered(a, "done", {d})
      PROVE  ManagerInv'
  <2>1. /\ action' \in [Action -> Asked] /\ action'[a].document = {d}
        /\ action'[a].kind = "upload"
        /\ \A b \in Action \ {a} : action'[b] = action[b]
    BY <1>1, <1>3, TypeInvParts DEF Answered, Asked
  <2>2. TypeInv'
    BY <1>1, <1>3, <2>1, TypeInvParts, StatusTypes
  <2>3. \A e \in Document : status'[e] # "absent" => status[e] # "absent" \/ e = d
    BY <1>1, <1>3, TypeInvParts DEF Appear, StatusTypeOK
  <2>4. QED
    BY <1>1, <1>3, <2>1, <2>2, <2>3, ServerMoves
<1>4. QED
  BY <1>2, <1>3 DEF AnswerUpload

LEMMA ServerStep ==
  ASSUME ManagerInv, Server
  PROVE  ManagerInv'
<1>1. TypeInv /\ UNCHANGED clientVars
  BY DEF ManagerInv, Server
<1>2. ASSUME NEW d \in Document, minted' = minted,
             Claim(d) \/ Advance(d) \/ (status[d] # "absent" /\ Remove(d))
      PROVE  ManagerInv'
  <2>1. TypeInv'
    BY <1>1, <1>2, StatusTypes, TypeInvParts DEF clientVars
  <2>2. \A e \in Document : status'[e] # "absent" => status[e] # "absent"
    BY <1>1, <1>2, NothingReappears DEF TypeInv
  <2>3. QED
    BY <1>1, <1>2, <2>1, <2>2, ServerMoves DEF clientVars
<1>3. ASSUME NEW d \in Document \ minted, Appear(d), minted' = minted \cup {d}
      PROVE  ManagerInv'
  <2>1. TypeInv'
    BY <1>1, <1>3, StatusTypes, TypeInvParts DEF clientVars
  <2>2. \A e \in Document : status'[e] # "absent" => status[e] # "absent" \/ e = d
    BY <1>1, <1>3, TypeInvParts DEF Appear, StatusTypeOK
  <2>3. QED
    BY <1>1, <1>3, <2>1, <2>2, ServerMoves DEF clientVars
<1>4. QED
  BY <1>2, <1>3 DEF Server

LEMMA RefreshTypes ==
  ASSUME TypeInv, NEW c \in List, Refresh(c)
  PROVE  /\ page' \in Page /\ list' \in [List -> Listing]
         /\ page' = page \/ page'.kind # "loaded"
         /\ \A x \in List : list'[x] = list[x] \/ list'[x].pc # "answered"
<1>1. /\ list \in [List -> Listing] /\ page \in Page
  BY TypeInvParts
<1>2. CASE list' = Sent(c, FALSE) /\ UNCHANGED page
  <2>1. /\ Sent(c, FALSE) \in [List -> Listing] /\ Sent(c, FALSE)[c].pc = "sent"
        /\ \A x \in List \ {c} : Sent(c, FALSE)[x] = list[x]
    BY <1>1, SentTypes
  <2>2. QED
    BY <1>1, <1>2, <2>1
<1>3. CASE page' = Broken /\ UNCHANGED list
  BY <1>1, <1>3, RowTypes DEF Broken
<1>4. QED
  BY <1>2, <1>3 DEF Refresh

LEMMA PollStep ==
  ASSUME ManagerInv, Poll \/ TryAgain
  PROVE  ManagerInv'
<1>1. TypeInv /\ UNCHANGED <<serverVars, action, pressed, mine>>
  BY DEF ManagerInv, Poll, TryAgain
<1>2. /\ page' \in Page /\ list' \in [List -> Listing]
      /\ page' = page \/ page'.kind # "loaded"
      /\ \A x \in List : list'[x] = list[x] \/ list'[x].pc # "answered"
  <2>1. CASE Poll
    BY <1>1, <2>1, RefreshTypes DEF Poll
  <2>2. CASE TryAgain
    <3>1. PICK c \in List : list' = Sent(c, FALSE)
      BY <2>2 DEF TryAgain
    <3>2. /\ Sent(c, FALSE) \in [List -> Listing] /\ Sent(c, FALSE)[c].pc = "sent"
          /\ \A x \in List \ {c} : Sent(c, FALSE)[x] = list[x]
      BY <1>1, SentTypes, TypeInvParts
    <3>3. page' \in Page /\ page'.kind = "loading"
      BY <1>1, <2>2, TypeInvParts DEF TryAgain, Page
    <3>4. QED
      BY <3>1, <3>2, <3>3
  <2>3. QED
    BY <2>1, <2>2
<1>3. TypeInv'
  BY <1>1, <1>2, TypeInvParts DEF serverVars, StatusTypeOK
<1>4. QED
  BY <1>1, <1>2, <1>3, NothingLearnt DEF serverVars

\* A list agrees with everything when it is read.
LEMMA AnswerListStep ==
  ASSUME ManagerInv, NEW c \in List, AnswerList(c)
  PROVE  ManagerInv'
<1>1. TypeInv /\ UNCHANGED <<serverVars, page, action, pressed, mine>>
  BY DEF ManagerInv, AnswerList
<1>2. CASE list' = [list EXCEPT ![c].pc = "refused"]
  <2>1. /\ list' \in [List -> Listing] /\ list'[c].pc = "refused"
        /\ \A x \in List \ {c} : list'[x] = list[x]
    BY <1>1, <1>2, TypeInvParts DEF Listing
  <2>2. TypeInv'
    BY <1>1, <2>1, TypeInvParts DEF serverVars, StatusTypeOK
  <2>3. QED
    BY <1>1, <2>1, <2>2, NothingLearnt DEF serverVars
<1>3. CASE list' = [list EXCEPT ![c].pc = "answered", ![c].rows = RowsNow]
  <2>1. RowsNow \in SUBSET Row /\ list \in [List -> Listing]
    BY <1>1, RowTypes, TypeInvParts
  <2>2. /\ list' \in [List -> Listing]
        /\ list'[c].rows = RowsNow /\ list'[c].stale = list[c].stale
        /\ \A x \in List \ {c} : list'[x] = list[x]
    BY <1>3, <2>1 DEF Listing
  <2>3. TypeInv'
    BY <1>1, <2>2, TypeInvParts DEF serverVars, StatusTypeOK
  <2>4. Agree(RowsNow, list[c].stale)
    <3>1. ASSUME NEW d \in Document, mine[d] = "deleted", NEW row \in RowsNow
          PROVE  row.document # d
      <4>1. status[d] = "absent"
        BY <3>1 DEF ManagerInv, Told
      <4>2. status[row.document] # "absent"
        BY DEF RowsNow
      <4>3. QED
        BY <4>1, <4>2
    <3>2. ASSUME NEW d \in Document, status[d] # "absent"
          PROVE  \E row \in RowsNow : row.document = d
      <4>1. [document |-> d, status |-> status[d]] \in RowsNow
        BY <3>2 DEF RowsNow
      <4>2. QED
        BY <4>1
    <3>3. QED
      BY <3>1, <3>2 DEF Agree
  <2>5. ListAgrees(c)'
    BY <1>1, <2>2, <2>4 DEF ListAgrees, Agree, serverVars
  <2>6. \A x \in List \ {c} : ListAgrees(x)'
    BY <1>1, <2>2 DEF ManagerInv, ListAgrees, Agree, serverVars
  <2>7. Told' /\ PageAgrees'
    BY <1>1 DEF ManagerInv, Told, PageAgrees, Agree, serverVars
  <2>8. QED
    BY <2>3, <2>5, <2>6, <2>7 DEF ManagerInv
<1>4. QED
  BY <1>2, <1>3 DEF AnswerList

LEMMA ListArrivesStep ==
  ASSUME ManagerInv, NEW c \in List, ListArrives(c)
  PROVE  ManagerInv'
<1>1. TypeInv /\ UNCHANGED <<serverVars, action, mine>> /\ list \in [List -> Listing]
  BY TypeInvParts DEF ManagerInv, ListArrives
<1>2. /\ list' \in [List -> Listing] /\ list'[c].pc = "free"
      /\ \A x \in List \ {c} : list'[x] = list[x]
  BY <1>1, RowTypes DEF ListArrives, Free
<1>3. pressed' \in [{"delete", "process"} -> SUBSET Document]
  BY <1>1, ReleasedTypes, TypeInvParts DEF ListArrives
<1>4. CASE list[c].pc = "refused"
  <2>1. page' = Broken
    BY <1>4 DEF ListArrives
  <2>2. page' \in Page /\ page'.kind # "loaded"
    BY <2>1, RowTypes DEF Broken
  <2>3. TypeInv'
    BY <1>1, <1>2, <1>3, <2>2, TypeInvParts DEF serverVars, StatusTypeOK
  <2>4. QED
    BY <1>1, <1>2, <2>2, <2>3, NothingLearnt DEF serverVars
<1>5. CASE list[c].pc = "answered"
  <2>1. page' = [kind |-> "loaded", rows |-> list[c].rows, stale |-> list[c].stale]
    BY <1>5 DEF ListArrives
  <2>2. page' \in Page
    BY <1>1, <2>1 DEF Page, Listing
  <2>3. TypeInv'
    BY <1>1, <1>2, <1>3, <2>2, TypeInvParts DEF serverVars, StatusTypeOK
  <2>4. Agree(list[c].rows, list[c].stale)
    BY <1>5 DEF ManagerInv, ListAgrees
  <2>5. PageAgrees'
    BY <1>1, <2>1, <2>4 DEF PageAgrees, Agree, serverVars
  <2>6. \A x \in List : ListAgrees(x)'
    BY <1>1, <1>2 DEF ManagerInv, ListAgrees, Agree, serverVars
  <2>7. Told'
    BY <1>1 DEF ManagerInv, Told, serverVars
  <2>8. QED
    BY <2>3, <2>5, <2>6, <2>7 DEF ManagerInv
<1>6. QED
  BY <1>4, <1>5 DEF ListArrives

LEMMA AskStep ==
  ASSUME ManagerInv, NEW a \in Action, NEW kind \in {"upload", "delete", "process"},
         NEW ds \in SUBSET Document, Ask(a, kind, ds),
         pressed' \in [{"delete", "process"} -> SUBSET Document]
  PROVE  ManagerInv'
<1>1. TypeInv /\ UNCHANGED <<serverVars, page, list, mine>> /\ action \in [Action -> Asked]
  BY TypeInvParts DEF ManagerInv, Ask
<1>2. [pc |-> "sent", kind |-> kind, document |-> ds] \in Asked
  BY DEF Asked
<1>3. /\ action' \in [Action -> Asked] /\ action'[a].pc = "sent"
      /\ \A b \in Action \ {a} : action'[b] = action[b]
  BY <1>1, <1>2 DEF Ask
<1>4. TypeInv'
  BY <1>1, <1>3, TypeInvParts DEF serverVars, StatusTypeOK
<1>5. QED
  BY <1>1, <1>3, <1>4, NothingLearnt DEF serverVars

LEMMA AskSteps ==
  ASSUME ManagerInv, NEW a \in Action, AskUpload(a) \/ \E row \in page.rows : AskRow(a, row)
  PROVE  ManagerInv'
<1>1. TypeInv /\ pressed \in [{"delete", "process"} -> SUBSET Document] /\ page.rows \subseteq Row
  BY TypeInvParts DEF ManagerInv, Page
<1>2. CASE AskUpload(a)
  BY <1>1, <1>2, AskStep DEF AskUpload
<1>3. ASSUME NEW row \in page.rows, NEW kind \in {"delete", "process"},
             Ask(a, kind, {row.document}), pressed' = [pressed EXCEPT ![kind] = {row.document}]
      PROVE  ManagerInv'
  <2>1. {row.document} \in SUBSET Document
    BY <1>1 DEF Row
  <2>2. pressed' \in [{"delete", "process"} -> SUBSET Document]
    BY <1>1, <1>3, <2>1
  <2>3. kind \in {"upload", "delete", "process"}
    OBVIOUS
  <2>4. QED
    BY <1>3, <2>1, <2>2, <2>3, AskStep
<1>4. QED
  BY <1>2, <1>3 DEF AskRow

\* The answer of an upload or a delete: the page has it, and every list that was
\* read before is stale for it.
LEMMA AppliedStep ==
  ASSUME ManagerInv, NEW d \in Document, NEW rows \in SUBSET Row,
         NEW word \in {"uploaded", "deleted"},
         UNCHANGED serverVars, Applied(rows, d), mine' = [mine EXCEPT ![d] = word],
         TypeInv', d \in minted,
         \A a \in Action : action'[a] = action[a] \/ action'[a].pc # "done",
         \A e \in Document \ {d} : (\E row \in rows : row.document = e) <=>
                                   (\E row \in page.rows : row.document = e),
         IF word = "uploaded" THEN \E row \in rows : row.document = d
         ELSE status[d] = "absent" /\ \A row \in rows : row.document # d
  PROVE  ManagerInv'
<1>1. TypeInv /\ UNCHANGED <<status, minted>>
  BY DEF ManagerInv, serverVars
<1>2. /\ \A e \in Document : mine'[e] = IF e = d THEN word ELSE mine[e]
      /\ page \in Page /\ list \in [List -> Listing]
  BY <1>1, TypeInvParts
<1>3. Told'
  <2>1. ASSUME NEW e \in Document
        PROVE  /\ status'[e] # "absent" \/ mine'[e] # "none" => e \in minted'
               /\ mine'[e] = "deleted" => status'[e] = "absent"
    BY <1>1, <1>2 DEF ManagerInv, Told
  <2>2. QED
    BY <1>1, <2>1 DEF ManagerInv, Told
<1>4. PageAgrees'
  <2>1. CASE page.kind = "loaded"
    <3>1. page' = [page EXCEPT !.rows = rows, !.stale = @ \ {d}]
      BY <2>1 DEF Applied
    <3>2. page'.rows = rows /\ page'.stale = page.stale \ {d}
      BY <1>2, <3>1 DEF Page
    <3>3. Agree(page.rows, page.stale)
      BY <2>1 DEF ManagerInv, PageAgrees
    <3>4. ASSUME NEW e \in Document \ page'.stale
          PROVE  /\ mine'[e] = "deleted" => \A row \in rows : row.document # e
                 /\ mine'[e] = "uploaded" /\ status[e] # "absent" =>
                      \E row \in rows : row.document = e
      <4>1. CASE e = d
        BY <1>2, <4>1
      <4>2. CASE e # d
        BY <1>2, <3>2, <3>3, <3>4, <4>2 DEF Agree
      <4>3. QED
        BY <4>1, <4>2
    <3>5. QED
      BY <1>1, <3>2, <3>4 DEF PageAgrees, Agree
  <2>2. CASE page.kind # "loaded"
    BY <2>2 DEF Applied, PageAgrees
  <2>3. QED
    BY <2>1, <2>2
<1>5. ASSUME NEW c \in List PROVE ListAgrees(c)'
  <2>0. SUFFICES ASSUME list'[c].pc = "answered"
                 PROVE  \A e \in Document \ list'[c].stale :
                   /\ mine'[e] = "deleted" => \A row \in list'[c].rows : row.document # e
                   /\ mine'[e] = "uploaded" /\ status'[e] # "absent" =>
                        \E row \in list'[c].rows : row.document = e
    BY DEF ListAgrees, Agree
  <2>1. /\ list[c].pc = "answered"
        /\ list'[c].rows = list[c].rows /\ list'[c].stale = list[c].stale \cup {d}
    BY <1>2, <2>0 DEF Applied, Listing
  <2>2. Agree(list[c].rows, list[c].stale)
    BY <2>1 DEF ManagerInv, ListAgrees
  <2>3. \A e \in Document \ list'[c].stale : e \notin list[c].stale /\ mine'[e] = mine[e]
    BY <1>2, <2>1
  <2>4. QED
    BY <1>1, <2>1, <2>2, <2>3 DEF Agree
<1>6. QED
  BY <1>3, <1>4, <1>5 DEF ManagerInv

LEMMA AppliedTypes ==
  ASSUME TypeInv, NEW d \in Document, NEW rows \in SUBSET Row, Applied(rows, d)
  PROVE  page' \in Page /\ list' \in [List -> Listing]
<1>1. page \in Page /\ list \in [List -> Listing]
  BY TypeInvParts
<1>2. page' \in Page
  <2>1. CASE page.kind = "loaded"
    BY <1>1, <2>1 DEF Applied, Page
  <2>2. CASE page.kind # "loaded"
    BY <1>1, <2>2 DEF Applied
  <2>3. QED
    BY <2>1, <2>2
<1>3. ASSUME NEW c \in List
      PROVE  [list[c] EXCEPT !.stale = @ \cup {d}] \in Listing /\ list[c] \in Listing
  BY <1>1 DEF Listing
<1>4. QED
  BY <1>2, <1>3 DEF Applied

LEMMA RowsTypes ==
  ASSUME TypeInv, NEW d \in Document
  PROVE  /\ RowsWith(d) \in SUBSET Row /\ RowsWithout(d) \in SUBSET Row
         /\ \E row \in RowsWith(d) : row.document = d
         /\ \A row \in RowsWithout(d) : row.document # d
         /\ \A e \in Document \ {d} :
              /\ (\E row \in RowsWith(d) : row.document = e) <=>
                 (\E row \in page.rows : row.document = e)
              /\ (\E row \in RowsWithout(d) : row.document = e) <=>
                 (\E row \in page.rows : row.document = e)
<1>1. page.rows \subseteq Row
  BY TypeInvParts DEF Page
<1>2. DEFINE new == [document |-> d, status |-> "uploaded"]
<1>3. new \in Row /\ new.document = d
  BY DEF Row, Shown
<1>4. RowsWith(d) = {new} \cup page.rows
  BY DEF RowsWith
<1>5. QED
  BY <1>1, <1>3, <1>4 DEF RowsWithout

LEMMA ActionArrivesStep ==
  ASSUME ManagerInv, NEW a \in Action, ActionArrives(a)
  PROVE  ManagerInv'
<1>1. /\ TypeInv /\ UNCHANGED serverVars /\ action \in [Action -> Asked]
      /\ action' = [action EXCEPT ![a] = NoAction]
  BY TypeInvParts DEF ManagerInv, ActionArrives
<1>2. /\ action' \in [Action -> Asked]
      /\ \A b \in Action : action'[b] = action[b] \/ action'[b].pc # "done"
  BY <1>1, RowTypes DEF NoAction
<1>3. StatusTypeOK' /\ minted' \subseteq Document
  BY <1>1, TypeInvParts DEF serverVars, StatusTypeOK
<1>4. Released(action[a].kind) \in [{"delete", "process"} -> SUBSET Document]
  BY <1>1, ReleasedTypes
<1>5. CASE action[a].pc = "refused"
  <2>1. pressed' = Released(action[a].kind) /\ UNCHANGED <<page, list, mine>>
    BY <1>5 DEF ActionArrives
  <2>2. TypeInv'
    BY <1>1, <1>2, <1>3, <1>4, <2>1, TypeInvParts
  <2>3. QED
    BY <1>1, <1>2, <2>1, <2>2, NothingLearnt DEF serverVars
<1>6. CASE action[a].pc = "done" /\ action[a].kind = "process"
  <2>1. PICK c \in List :
          \/ list' = Sent(c, TRUE) /\ UNCHANGED <<page, pressed>>
          \/ page' = Broken /\ pressed' = Released("process") /\ UNCHANGED list
    BY <1>6 DEF ActionArrives, Follow
  <2>2. UNCHANGED mine
    BY <1>6 DEF ActionArrives
  <2>3. /\ page' \in Page /\ list' \in [List -> Listing]
        /\ page' = page \/ page'.kind # "loaded"
        /\ \A x \in List : list'[x] = list[x] \/ list'[x].pc # "answered"
        /\ pressed' \in [{"delete", "process"} -> SUBSET Document]
    <3>1. CASE list' = Sent(c, TRUE) /\ UNCHANGED <<page, pressed>>
      <4>1. /\ Sent(c, TRUE) \in [List -> Listing] /\ Sent(c, TRUE)[c].pc = "sent"
            /\ \A x \in List \ {c} : Sent(c, TRUE)[x] = list[x]
        BY <1>1, SentTypes, TypeInvParts
      <4>2. QED
        BY <1>1, <3>1, <4>1, TypeInvParts
    <3>2. CASE page' = Broken /\ pressed' = Released("process") /\ UNCHANGED list
      BY <1>1, <3>2, RowTypes, ReleasedTypes, TypeInvParts DEF Broken
    <3>3. QED
      BY <2>1, <3>1, <3>2
  <2>4. TypeInv'
    BY <1>1, <1>2, <1>3, <2>2, <2>3, TypeInvParts
  <2>5. QED
    BY <1>1, <1>2, <2>2, <2>3, <2>4, NothingLearnt DEF serverVars
<1>7. ASSUME action[a].pc = "done", NEW d \in action[a].document,
             pressed' = Released(action[a].kind),
             \/ /\ action[a].kind = "upload" /\ Applied(RowsWith(d), d)
                /\ mine' = [mine EXCEPT ![d] = "uploaded"]
             \/ /\ action[a].kind = "delete" /\ Applied(RowsWithout(d), d)
                /\ mine' = [mine EXCEPT ![d] = "deleted"]
      PROVE  ManagerInv'
  <2>1. d \in Document
    BY <1>1 DEF Asked
  <2>2. d \in minted /\ (action[a].kind = "delete" => status[d] = "absent")
    BY <1>7 DEF ManagerInv, Told
  <2>3. page' \in Page /\ list' \in [List -> Listing]
    BY <1>1, <1>7, <2>1, RowsTypes, AppliedTypes
  <2>4. mine' \in [Document -> {"none", "uploaded", "deleted"}]
    BY <1>1, <1>7, <2>1, TypeInvParts
  <2>5. TypeInv'
    BY <1>2, <1>3, <1>4, <1>7, <2>3, <2>4, TypeInvParts
  <2>6. CASE action[a].kind = "upload"
    <3>1. PICK word \in {"uploaded", "deleted"} : word = "uploaded"
      OBVIOUS
    <3>2. Applied(RowsWith(d), d) /\ mine' = [mine EXCEPT ![d] = word]
      BY <1>7, <2>6, <3>1
    <3>3. /\ RowsWith(d) \in SUBSET Row
          /\ \A e \in Document \ {d} :
               (\E row \in RowsWith(d) : row.document = e) <=>
               (\E row \in page.rows : row.document = e)
      BY <1>1, <2>1, RowsTypes
    <3>4. IF word = "uploaded" THEN \E row \in RowsWith(d) : row.document = d
          ELSE status[d] = "absent" /\ \A row \in RowsWith(d) : row.document # d
      BY <1>1, <2>1, <2>2, <2>6, <3>1, RowsTypes
    <3>5. QED
      BY <1>1, <1>2, <2>1, <2>2, <2>5, <3>1, <3>2, <3>3, <3>4, AppliedStep
  <2>7. CASE action[a].kind = "delete"
    <3>1. PICK word \in {"uploaded", "deleted"} : word = "deleted"
      OBVIOUS
    <3>2. Applied(RowsWithout(d), d) /\ mine' = [mine EXCEPT ![d] = word]
      BY <1>7, <2>7, <3>1
    <3>3. /\ RowsWithout(d) \in SUBSET Row
          /\ \A e \in Document \ {d} :
               (\E row \in RowsWithout(d) : row.document = e) <=>
               (\E row \in page.rows : row.document = e)
      BY <1>1, <2>1, RowsTypes
    <3>4. IF word = "uploaded" THEN \E row \in RowsWithout(d) : row.document = d
          ELSE status[d] = "absent" /\ \A row \in RowsWithout(d) : row.document # d
      BY <1>1, <2>1, <2>2, <2>7, <3>1, RowsTypes
    <3>5. QED
      BY <1>1, <1>2, <2>1, <2>2, <2>5, <3>1, <3>2, <3>3, <3>4, AppliedStep
  <2>8. QED
    BY <1>7, <2>6, <2>7
<1>8. CASE action[a].pc = "done" /\ action[a].kind \in {"upload", "delete"}
  <2>1. pressed' = Released(action[a].kind)
    BY <1>8 DEF ActionArrives
  <2>2. PICK d \in action[a].document :
          \/ /\ action[a].kind = "upload" /\ Applied(RowsWith(d), d)
             /\ mine' = [mine EXCEPT ![d] = "uploaded"]
          \/ /\ action[a].kind = "delete" /\ Applied(RowsWithout(d), d)
             /\ mine' = [mine EXCEPT ![d] = "deleted"]
    BY <1>8 DEF ActionArrives
  <2>3. QED
    BY <1>7, <1>8, <2>1, <2>2
<1>9. QED
  BY <1>5, <1>6, <1>8 DEF ActionArrives

-----------------------------------------------------------------------------
(* The invariant and the theorems                                            *)

LEMMA ManagerInvInit ==
  ASSUME ManagerInit
  PROVE  ManagerInv
<1>1. PICK c \in List : list = [x \in List |->
        IF x = c THEN [Free EXCEPT !.pc = "sent"] ELSE Free]
  BY DEF ManagerInit
<1>2. [Free EXCEPT !.pc = "sent"] \in Listing /\ Free \in Listing
  BY DEF Free, Listing
<1>3. list \in [List -> Listing] /\ \A x \in List : list[x].pc # "answered"
  BY <1>1, <1>2 DEF Free
<1>4. page \in Page /\ page.kind = "loading"
  BY DEF ManagerInit, Page
<1>5. action \in [Action -> Asked] /\ \A a \in Action : action[a].pc = "free"
  BY RowTypes DEF ManagerInit, NoAction
<1>6. StatusTypeOK /\ minted \subseteq Document
  BY ManagerAssumption DEF ManagerInit, StatusTypeOK, Shown, Run
<1>7. pressed \in [{"delete", "process"} -> SUBSET Document]
  BY DEF ManagerInit
<1>8. mine \in [Document -> {"none", "uploaded", "deleted"}]
  BY DEF ManagerInit
<1>9. TypeInv
  BY <1>3, <1>4, <1>5, <1>6, <1>7, <1>8, TypeInvParts
<1>10. Told
  BY <1>5 DEF ManagerInit, Told
<1>11. QED
  BY <1>3, <1>4, <1>9, <1>10 DEF ManagerInv, PageAgrees, ListAgrees

LEMMA ManagerInvNext ==
  ASSUME ManagerInv, [ManagerNext]_vars
  PROVE  ManagerInv'
<1>1. CASE UNCHANGED vars
  <2>1. /\ UNCHANGED <<status, run, minted, page, list, action, pressed, mine>>
    BY <1>1 DEF vars
  <2>2. TypeInv'
    BY <2>1, TypeInvParts DEF ManagerInv, StatusTypeOK
  <2>3. QED
    BY <2>1, <2>2, NothingLearnt
<1>2. CASE Poll \/ TryAgain
  BY <1>2, PollStep
<1>3. CASE \E c \in List : AnswerList(c) \/ ListArrives(c)
  BY <1>3, AnswerListStep, ListArrivesStep
<1>4. ASSUME NEW a \in Action,
             \/ AskUpload(a) \/ \E row \in page.rows : AskRow(a, row)
             \/ AnswerUpload(a) \/ AnswerRow(a) \/ ActionArrives(a)
      PROVE  ManagerInv'
  BY <1>4, AskSteps, AnswerUploadMoves, AnswerRowMoves, ActionArrivesStep
<1>5. CASE Server
  BY <1>5, ServerStep
<1>6. QED
  BY <1>1, <1>2, <1>3, <1>4, <1>5 DEF ManagerNext

LEMMA ManagerInvInductive == ManagerSpec => []ManagerInv
<1>1. ManagerInit => ManagerInv
  BY ManagerInvInit
<1>2. ManagerInv /\ [ManagerNext]_vars => ManagerInv'
  BY ManagerInvNext
<1>3. QED
  BY <1>1, <1>2, PTL DEF ManagerSpec

\* The page and its calls are well typed, for any number of documents, lists and
\* actions on their way (document-manager.tsx).
THEOREM ManagerTypeCorrect == ManagerSpec => []ManagerTypeOK
<1>1. ManagerInv => ManagerTypeOK
  BY DEF ManagerInv, TypeInv
<1>2. QED
  BY <1>1, ManagerInvInductive, PTL

\* The page never loses a change of its own but to a list that was read before
\* the change was answered (handleUpload, handleDelete and refresh of
\* document-manager.tsx), however many lists overtake each other.
THEOREM OwnChangesAreShown == ManagerSpec => []OwnChangesShown
<1>1. ManagerInv => OwnChangesShown
  BY DEF ManagerInv, PageAgrees, Agree, OwnChangesShown, Shows
<1>2. QED
  BY <1>1, ManagerInvInductive, PTL

=============================================================================
