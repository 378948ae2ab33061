---------------------------- MODULE DocumentStore ----------------------------
(***************************************************************************)
(* Uploading and deleting documents: DocumentService over the documents    *)
(* table (Postgres) and the research-documents bucket (Supabase Storage).  *)
(*                                                                         *)
(* The two stores share no transaction.  An upload writes the object, then *)
(* the row, and compensates when the row is refused; a delete removes the  *)
(* object, then the row.  Every awaited call is one step, so uploads,      *)
(* deletes and a restart of the process interleave between any two.        *)
(*                                                                         *)
(* One workspace: every query of the repositories is scoped by workspace,  *)
(* so two workspaces never meet in these tables.                           *)
(***************************************************************************)
EXTENDS Naturals, FiniteSets

CONSTANTS
  Document,    \* document ids, minted with uuid4
  NoDocument,  \* a call that has no document yet
  Content,     \* what a caller may send; equal contents have equal checksums
  NoContent,   \* checksum of an id that was never recorded
  Accepted,    \* contents that are not empty, not too large, of a known type
  Stored,      \* documents uploaded before the behaviour begins
  Uploader,    \* calls of DocumentService.upload
  Deleter,     \* calls of DocumentService.delete
  MayRefuse,   \* awaited calls that may raise having done nothing
  MayLose,     \* awaited calls that may raise having taken effect
  MaxBoot      \* bound: incarnations of the API process

ASSUME StoreAssumption ==
  /\ NoDocument \notin Document
  /\ NoContent \notin Content
  /\ Accepted \subseteq Content
  /\ Stored \subseteq Document
  /\ MaxBoot \in Nat \ {0}

ASSUME StoredAssumption ==
  \E f \in [Stored -> Accepted] : \A d, e \in Stored : f[d] = f[e] => d = e

VARIABLES
  status,    \* documents.status, or "absent" when there is no row
  checksum,  \* documents.checksum_sha256
  objects,   \* documents whose object is in the bucket
  minted,    \* ids handed out by uuid4 so far; it never repeats one
  uploads,   \* the calls of upload in flight or finished
  deletes,   \* the calls of delete in flight or finished
  boot       \* which incarnation of the process is running

storeVars == <<status, checksum, objects, minted, uploads, deletes, boot>>

DocumentStatus == {"uploaded", "processing", "ready", "failed"}

UploadPc == {"idle", "find", "write", "insert", "compensate",
             "created", "duplicate", "rejected", "error", "lost"}
DeletePc == {"idle", "object", "row", "deleted", "not_found", "error", "lost"}

Recorded(d) == status[d] # "absent"

\* How an awaited call may end: answered, refused before it did anything, or
\* done with the answer lost on the way back (a timeout, a dropped connection).
Answers(call) ==
  {"ok"} \cup (IF call \in MayRefuse THEN {"refused"} ELSE {})
         \cup (IF call \in MayLose THEN {"lost"} ELSE {})

TookEffect(answer) == answer # "refused"

-----------------------------------------------------------------------------
(* Uploading *)

NewUpload == [pc |-> "idle", content |-> NoContent, document |-> NoDocument]

\* upload() validates the bytes it was handed before it awaits anything.
BeginUpload(u, c) ==
  /\ uploads[u].pc = "idle"
  /\ uploads' = [uploads EXCEPT
       ![u].pc = IF c \in Accepted THEN "find" ELSE "rejected",
       ![u].content = c]
  /\ UNCHANGED <<status, checksum, objects, minted, deletes, boot>>

\* The checksum is looked up; unless the content is already here an id is
\* minted for the object about to be written.
FindByChecksum(u) ==
  /\ uploads[u].pc = "find"
  /\ \E answer \in Answers("find") :
       LET known == \E d \in Document :
                      Recorded(d) /\ checksum[d] = uploads[u].content
       IN
       \/ /\ answer # "ok"
          /\ uploads' = [uploads EXCEPT ![u].pc = "error"]
          /\ minted' = minted
       \/ /\ answer = "ok" /\ known
          /\ uploads' = [uploads EXCEPT ![u].pc = "duplicate"]
          /\ minted' = minted
       \/ /\ answer = "ok" /\ ~known
          /\ \E d \in Document \ minted :
               /\ uploads' = [uploads EXCEPT ![u].pc = "write", ![u].document = d]
               /\ minted' = minted \cup {d}
  /\ UNCHANGED <<status, checksum, objects, deletes, boot>>

\* storage.upload, outside the try block: an error leaves whatever was written.
WriteObject(u) ==
  /\ uploads[u].pc = "write"
  /\ \E answer \in Answers("write") :
       /\ objects' = IF TookEffect(answer)
                     THEN objects \cup {uploads[u].document} ELSE objects
       /\ uploads' = [uploads EXCEPT
            ![u].pc = IF answer = "ok" THEN "insert" ELSE "error"]
  /\ UNCHANGED <<status, checksum, minted, deletes, boot>>

\* Mutant: the table without its unique constraint.
ContentUnconstrained(c) == TRUE

\* documents_unique_content_per_workspace
ContentIsFree(c) == \A d \in Document : Recorded(d) => checksum[d] # c

\* repository.create: the unique constraint settles a race of two uploads of
\* the same content.  Whatever is raised, the handler takes it to mean that
\* there is no row.
CreateRow(u) ==
  /\ uploads[u].pc = "insert"
  /\ LET d == uploads[u].document
         c == uploads[u].content
     IN
     \/ \E answer \in Answers("insert") :
          /\ ContentIsFree(c)
          /\ IF TookEffect(answer)
             THEN /\ status' = [status EXCEPT ![d] = "uploaded"]
                  /\ checksum' = [checksum EXCEPT ![d] = c]
             ELSE UNCHANGED <<status, checksum>>
          /\ uploads' = [uploads EXCEPT
               ![u].pc = IF answer = "ok" THEN "created" ELSE "compensate"]
     \/ /\ ~ContentIsFree(c)
        /\ uploads' = [uploads EXCEPT ![u].pc = "compensate"]
        /\ UNCHANGED <<status, checksum>>
  /\ UNCHANGED <<objects, minted, deletes, boot>>

\* Mutant: the handler only logs.
CompensateNothing(u) ==
  /\ uploads[u].pc = "compensate"
  /\ uploads' = [uploads EXCEPT ![u].pc = "error"]
  /\ UNCHANGED <<status, checksum, objects, minted, deletes, boot>>

\* Mutant: objects keyed by their checksum instead of by their document.
CompensateByContent(u) ==
  /\ uploads[u].pc = "compensate"
  /\ objects' = {d \in objects : checksum[d] # uploads[u].content}
  /\ uploads' = [uploads EXCEPT ![u].pc = "error"]
  /\ UNCHANGED <<status, checksum, minted, deletes, boot>>

\* storage.delete in the handler; its own failure is only logged.
Compensate(u) ==
  /\ uploads[u].pc = "compensate"
  /\ \E answer \in Answers("compensate") :
       objects' = IF TookEffect(answer)
                  THEN objects \ {uploads[u].document} ELSE objects
  /\ uploads' = [uploads EXCEPT ![u].pc = "error"]
  /\ UNCHANGED <<status, checksum, minted, deletes, boot>>

UploadStep(u) ==
  \/ \E c \in Content : BeginUpload(u, c)
  \/ FindByChecksum(u)
  \/ WriteObject(u)
  \/ CreateRow(u)
  \/ Compensate(u)

-----------------------------------------------------------------------------
(* Deleting *)

NewDelete == [pc |-> "idle", document |-> NoDocument]

\* DocumentService.get, then _purge_derived_data, which removes nothing.
BeginDelete(x, d) ==
  /\ deletes[x].pc = "idle"
  /\ d \in minted
  /\ \E answer \in Answers("get") :
       deletes' = [deletes EXCEPT
         ![x].pc = IF answer # "ok" THEN "error"
                   ELSE IF Recorded(d) THEN "object" ELSE "not_found",
         ![x].document = d]
  /\ UNCHANGED <<status, checksum, objects, minted, uploads, boot>>

\* Mutant: a missing object is an error like any other status above 400.
AbsentIsError == "refused"

\* What storage.delete answers for an object that is already gone.
AbsentObject == "ok"

\* Mutant: an error of the bucket is logged and the delete goes on.
AfterObjectAlways(answer) == "row"

\* An error of the bucket ends the delete before it reaches the row.
AfterObject(answer) == IF answer = "ok" THEN "row" ELSE "error"

\* storage.delete
RemoveObject(x) ==
  /\ deletes[x].pc = "object"
  /\ LET d == deletes[x].document IN
     \E answer \in Answers("object") :
       /\ objects' = IF TookEffect(answer) THEN objects \ {d} ELSE objects
       /\ deletes' = [deletes EXCEPT
            ![x].pc = AfterObject(IF answer = "ok" /\ d \notin objects
                                  THEN AbsentObject ELSE answer)]
  /\ UNCHANGED <<status, checksum, minted, uploads, boot>>

\* Mutant: rows are marked instead of removed.
SoftDeleted(d) == [status EXCEPT ![d] = "deleted"]

\* delete from public.documents
RowRemoved(d) == [status EXCEPT ![d] = "absent"]

\* repository.delete; no row to delete means another delete came first.
RemoveRow(x) ==
  /\ deletes[x].pc = "row"
  /\ LET d == deletes[x].document IN
     \E answer \in Answers("row") :
       /\ status' = IF TookEffect(answer) THEN RowRemoved(d) ELSE status
       /\ deletes' = [deletes EXCEPT
            ![x].pc = IF answer # "ok" THEN "error"
                      ELSE IF Recorded(d) THEN "deleted" ELSE "not_found"]
  /\ UNCHANGED <<checksum, objects, minted, uploads, boot>>

DeleteStep(x) ==
  \/ \E d \in Document : BeginDelete(x, d)
  \/ RemoveObject(x)
  \/ RemoveRow(x)

-----------------------------------------------------------------------------
(* The process *)

UploadInFlight == {"find", "write", "insert", "compensate"}
DeleteInFlight == {"object", "row"}

\* The process stops and another starts: every call in flight is gone, and
\* nothing at startup looks for what it left behind.
CrashStore ==
  /\ boot < MaxBoot
  /\ boot' = boot + 1
  /\ uploads' = [u \in Uploader |->
       IF uploads[u].pc \in UploadInFlight
       THEN [uploads[u] EXCEPT !.pc = "lost"] ELSE uploads[u]]
  /\ deletes' = [x \in Deleter |->
       IF deletes[x].pc \in DeleteInFlight
       THEN [deletes[x] EXCEPT !.pc = "lost"] ELSE deletes[x]]
  /\ UNCHANGED <<status, checksum, objects, minted>>

StoreInit ==
  /\ status = [d \in Document |-> IF d \in Stored THEN "uploaded" ELSE "absent"]
  /\ checksum \in [Document -> Accepted \cup {NoContent}]
  /\ \A d \in Document : checksum[d] = NoContent <=> d \notin Stored
  /\ \A d, e \in Stored : checksum[d] = checksum[e] => d = e
  /\ objects = Stored
  /\ minted = Stored
  /\ uploads = [u \in Uploader |-> NewUpload]
  /\ deletes = [x \in Deleter |-> NewDelete]
  /\ boot = 1

StoreNext ==
  \/ \E u \in Uploader : UploadStep(u)
  \/ \E x \in Deleter : DeleteStep(x)
  \/ CrashStore

StoreSpec == StoreInit /\ [][StoreNext]_storeVars

\* A request handler is a coroutine on the event loop: it is resumed when its
\* awaited call ends, and every awaited call ends.  Nobody has to send one.
StoreFairness ==
  /\ \A u \in Uploader :
       WF_storeVars(uploads[u].pc \in UploadInFlight /\ UploadStep(u))
  /\ \A x \in Deleter :
       WF_storeVars(deletes[x].pc \in DeleteInFlight /\ DeleteStep(x))

FairStoreSpec == StoreSpec /\ StoreFairness

-----------------------------------------------------------------------------
(* Properties *)

\* Type correctness of the two stores and of the calls on them.
StoreTypeOK ==
  /\ status \in [Document -> DocumentStatus \cup {"absent"}]
  /\ checksum \in [Document -> Content \cup {NoContent}]
  /\ objects \subseteq Document
  /\ minted \subseteq Document
  /\ uploads \in [Uploader -> [pc : UploadPc, content : Content \cup {NoContent},
                               document : Document \cup {NoDocument}]]
  /\ deletes \in [Deleter -> [pc : DeletePc, document : Document \cup {NoDocument}]]
  /\ boot \in 1..MaxBoot

\* Whatever fails or restarts, bytes that no row records belong to an upload
\* that did not complete: deleting a document, in the order object then row,
\* never leaves bytes that nothing references.
RemovalNeverOrphans ==
  \A d \in objects : ~Recorded(d) =>
    \E u \in Uploader : uploads[u].document = d /\ uploads[u].pc # "created"

\* While compensation works, bytes without a row are those of an upload that is
\* still under way or died with its process: one that is refused, or loses the
\* race for its checksum, takes its object back.
NoOrphanBytes ==
  \A d \in objects : ~Recorded(d) =>
    \E u \in Uploader : uploads[u].document = d
                        /\ uploads[u].pc \in {"insert", "compensate", "lost"}

\* The bytes of a recorded document disappear only because a delete of that
\* document was begun; an upload that fails, or loses the race for its
\* checksum, never takes the bytes of another.
RowHasBytes ==
  \A d \in Document : Recorded(d) =>
    d \in objects \/ \E x \in Deleter : deletes[x].document = d

\* Two uploads of the same content, however they interleave, never end as two
\* rows: the lookup is only a courtesy, the constraint decides.
UniqueContent ==
  \A d, e \in Document :
    Recorded(d) /\ Recorded(e) /\ checksum[d] = checksum[e] => d = e

\* The comment in the handler: "Bytes were written but the row was not."
CompensatesOnlyWithoutRow ==
  \A u \in Uploader :
    uploads[u].pc = "compensate" => ~Recorded(uploads[u].document)

\* A delete that has found its document removes the row unless the process
\* dies under it, also when another delete already removed the object, or the
\* answer that the row is gone is lost.
DeleteCompletes ==
  \A x \in Deleter :
    deletes[x].pc = "object" ~>
      \/ deletes[x].pc = "lost"
      \/ /\ deletes[x].pc \notin DeleteInFlight
         /\ \A d \in Document : deletes[x].document = d => ~Recorded(d)

=============================================================================
