--------------------------- MODULE ProcessingStatus --------------------------
(***************************************************************************)
(* IngestionService.status_for_document beside everything that moves the   *)
(* rows it reads.  Its three reads are three awaited calls, and no         *)
(* snapshot holds them together.                                           *)
(***************************************************************************)
EXTENDS Ingestion

VARIABLE report  \* the call under way: what it read of the document and its job

statusVars == <<vars, report>>

NoReport == [next |-> "document", document |-> NoDocument,
             past |-> FALSE, named |-> FALSE]

\* Mutant: the job comes from the answer before.
ReadDocumentOnly(d) ==
  /\ report.next = "document"
  /\ Recorded(d)
  /\ report' = [next |-> "chunks", document |-> d, named |-> FALSE,
                past |-> status[d] # "uploaded"]

\* documents.get; without a row the answer is 404.
ReadDocument(d) ==
  /\ report.next = "document"
  /\ Recorded(d)
  /\ report' = [report EXCEPT !.next = "job", !.document = d,
                              !.past = status[d] # "uploaded"]

\* jobs.latest_for_document; there may be none.
ReadJob ==
  /\ report.next = "job"
  /\ report' = [report EXCEPT !.next = "chunks",
                              !.named = LatestJobs(report.document) # {}]

\* The call ends with chunks.count_for_document, or when one of its reads fails.
EndReport ==
  /\ report.next # "document"
  /\ report' = NoReport

StatusForDocument ==
  \/ \E d \in Document : ReadDocument(d)
  \/ ReadJob
  \/ EndReport

StatusInit == Init /\ report = NoReport

StatusNext ==
  \/ Next /\ UNCHANGED report
  \/ StatusForDocument /\ UNCHANGED vars

StatusSpec == StatusInit /\ [][StatusNext]_statusVars

-----------------------------------------------------------------------------
(* Properties *)

\* The document is read before its job, so an answer that says anything past
\* "uploaded" names a job, however far a run, a failure, a restart or the next
\* attempt gets between the two reads; only a delete can leave it without one.
StatusNamesJob ==
  report.next = "chunks" /\ report.past /\ ~report.named =>
    ~Recorded(report.document)

=============================================================================
