------------------------------ MODULE Ingestion ------------------------------
(***************************************************************************)
(* The ingestion pipeline: IngestionService over the documents,            *)
(* ingestion_jobs and document_chunks tables, the bucket, the embedding    *)
(* provider and the Neo4j chunk graph, run by the in-process task runner,  *)
(* together with the uploads and deletes of DocumentStore.                 *)
(*                                                                         *)
(* The unit of atomicity is the awaited call: one SQL statement, one       *)
(* Postgres transaction, one Neo4j transaction, one HTTP exchange.  Tasks, *)
(* requests, uploads, deletes and a restart interleave between any two.    *)
(* A claim is two steps: what its statement takes as it starts is old by   *)
(* the time the unique index decides.                                      *)
(*                                                                         *)
(* The bytes of a document never change, so the chunks of a run depend on  *)
(* the code and configuration of the process it runs in: boot b of the     *)
(* process produces ChunksOf[b] and embeds them with model b.              *)
(***************************************************************************)
EXTENDS DocumentStore

CONSTANTS
  Job,       \* ingestion_jobs ids, minted by Postgres
  NoJob,     \* a request that has no job yet
  Request,   \* calls of IngestionService.request_processing
  Chunk,     \* chunk ids, deterministic in content and position
  ChunksOf   \* the chunks incarnation b of the process makes of a document

ASSUME IngestionAssumption ==
  /\ NoJob \notin Job
  /\ ChunksOf \in [1..MaxBoot -> SUBSET Chunk]

VARIABLES
  job,        \* public.ingestion_jobs
  chunks,     \* public.document_chunks, per document
  chunkJob,   \* document_chunks.ingestion_job_id
  nodes,      \* documents that have a :Document node in Neo4j
  indexed,    \* the :Chunk nodes of a document, with their embedding model
  task,       \* where the background task of each job has got to
  request     \* the calls of request_processing in flight or finished

tableVars == <<chunks, chunkJob>>
graphVars == <<nodes, indexed>>
vars == <<storeVars, job, chunks, chunkJob, nodes, indexed, task, request>>

-----------------------------------------------------------------------------
(* Jobs *)

Stage == {"upload", "extract", "clean", "chunk", "persist", "embed", "index"}

\* IngestionStage.order: declaration order is execution order.
StageOrder == [upload |-> 0, extract |-> 1, clean |-> 2, chunk |-> 3,
               persist |-> 4, embed |-> 5, index |-> 6]

ActiveStatus == {"queued", "running"}
TerminalStatus == {"succeeded", "failed", "cancelled"}

\* "unused" is an id Postgres has not minted, "gone" a row removed with its
\* document; a job never leaves "gone".
JobStatus == ActiveStatus \cup TerminalStatus \cup {"unused", "gone"}

\* created is the column created_at, in rows that the table had received by
\* then: claims that began between the same two inserts compare equal, and
\* either may come first.  inserted is history, not a column: which insert into
\* the table this row was.
NewJob == [status |-> "unused", document |-> NoDocument, stage |-> "upload",
           attempt |-> 0, created |-> 0, inserted |-> 0]

Active(j) == job[j].status \in ActiveStatus
Exists(j) == job[j].status \in ActiveStatus \cup TerminalStatus

\* Mutant: a retry takes up the failed row again.
FreshOrFailed(j) == job[j].status \in {"unused", "failed"}

\* A row that an insert may create.
Fresh(j) == job[j].status = "unused"

JobsOf(d) == {j \in Job : Exists(j) /\ job[j].document = d}

\* Mutant: the partial index covers running jobs only.
RunningJobs(d) == {j \in JobsOf(d) : job[j].status = "running"}

\* ingestion_jobs_one_active_per_document, and active_for_document.
ActiveJobs(d) == {j \in JobsOf(d) : Active(j)}

\* Mutant: only failures count as attempts.
AttemptAfterFailures(d) ==
  Cardinality({j \in JobsOf(d) : job[j].status = "failed"}) + 1

\* The attempt number of a job claimed now.
NextAttempt(d) == Cardinality(JobsOf(d)) + 1

\* The rows the table has received.
Inserts == Cardinality({j \in Job : job[j].status # "unused"})

\* Mutant: created_at without desc.
FirstJobs(d) ==
  {j \in JobsOf(d) : \A k \in JobsOf(d) : job[j].created <= job[k].created}

\* order by created_at desc, id desc, one of which is returned.
LatestJobs(d) ==
  {j \in JobsOf(d) : \A k \in JobsOf(d) : job[k].created <= job[j].created}

\* IngestionJobRepository.finish: only an active job takes an outcome.
Finished(j, outcome) ==
  IF Active(j) THEN [job EXCEPT ![j].status = outcome] ELSE job

\* Mutant: the stage is recorded only while the job is queued.
AdvancedWhileQueued(j, stage) ==
  IF job[j].status = "queued" THEN [job EXCEPT ![j].stage = stage] ELSE job

\* IngestionJobRepository.advance: only a running job takes a stage.
Advanced(j, stage) ==
  IF job[j].status = "running" THEN [job EXCEPT ![j].stage = stage] ELSE job

\* Mutant: the name of a job's outcome where a document's status belongs.
StatusSetAsJob(d, s) ==
  IF Recorded(d)
  THEN [status EXCEPT ![d] = IF s = "ready" THEN "succeeded" ELSE s] ELSE status

\* DocumentRepository.update_status: unconditional, and a no-op without a row.
StatusSet(d, s) == IF Recorded(d) THEN [status EXCEPT ![d] = s] ELSE status

-----------------------------------------------------------------------------
(* Requests to process a document *)

RequestPc == {"idle", "claim", "insert", "active", "reclaim", "reinsert",
              "latest", "submit", "started", "joined", "not_found", "error", "lost"}
RequestInFlight == {"claim", "insert", "active", "reclaim", "reinsert", "latest",
                    "submit"}

\* What a claim under way has taken: created_at and the attempt.
NoClaim == [created |-> 0, attempt |-> 0]

NewRequest == [pc |-> "idle", document |-> NoDocument, job |-> NoJob,
               claim |-> NoClaim]

\* documents.get
RequestProcessing(r, d) ==
  /\ request[r].pc = "idle"
  /\ d \in minted
  /\ \E answer \in Answers("get") :
       request' = [request EXCEPT
         ![r].pc = IF answer # "ok" THEN "error"
                   ELSE IF Recorded(d) THEN "claim" ELSE "not_found",
         ![r].document = d]
  /\ UNCHANGED <<storeVars, job, tableVars, graphVars, task>>

\* jobs.claim is one statement.  As it starts it takes created_at, which is
\* now(), and the snapshot in which it counts the attempts.
BeginClaim(r) ==
  /\ request[r].pc \in {"claim", "reclaim"}
  /\ request' = [request EXCEPT
       ![r].pc = IF @ = "claim" THEN "insert" ELSE "reinsert",
       ![r].claim = [created |-> Inserts, attempt |-> NextAttempt(request[r].document)]]
  /\ UNCHANGED <<storeVars, job, tableVars, graphVars, task>>

\* The row that a claim inserts.
QueuedJob(r) ==
  [status |-> "queued", document |-> request[r].document, stage |-> "upload",
   attempt |-> request[r].claim.attempt, created |-> request[r].claim.created,
   inserted |-> Inserts + 1]

\* It then inserts the row it has made, unless the partial unique index holds
\* an active job by now; without the document its foreign key raises.
Claim(r) ==
  /\ request[r].pc \in {"insert", "reinsert"}
  /\ LET d == request[r].document IN
     \E answer \in Answers("claim") :
       \/ /\ ~Recorded(d) \/ answer = "refused"
          /\ request' = [request EXCEPT ![r].pc = "error", ![r].claim = NoClaim]
          /\ job' = job
       \/ /\ Recorded(d) /\ ActiveJobs(d) # {} /\ answer # "refused"
          /\ request' = [request EXCEPT
               ![r].pc = IF answer = "lost" THEN "error"
                         ELSE IF @ = "insert" THEN "active" ELSE "latest",
               ![r].claim = NoClaim]
          /\ job' = job
       \/ /\ Recorded(d) /\ ActiveJobs(d) = {} /\ answer # "refused"
          /\ \E j \in Job :
               /\ Fresh(j)
               /\ job' = [job EXCEPT ![j] = QueuedJob(r)]
               /\ request' = IF answer = "ok"
                    THEN [request EXCEPT ![r] =
                           [@ EXCEPT !.pc = "submit", !.job = j, !.claim = NoClaim]]
                    ELSE [request EXCEPT ![r].pc = "error", ![r].claim = NoClaim]
  /\ UNCHANGED <<storeVars, tableVars, graphVars, task>>

\* jobs.active_for_document after a lost claim.
JoinActive(r) ==
  /\ request[r].pc = "active"
  /\ LET d == request[r].document IN
     \E answer \in Answers("active") :
       \/ /\ answer # "ok"
          /\ request' = [request EXCEPT ![r].pc = "error"]
       \/ /\ answer = "ok"
          /\ \E j \in ActiveJobs(d) :
               request' = [request EXCEPT ![r].pc = "joined", ![r].job = j]
       \/ /\ answer = "ok" /\ ActiveJobs(d) = {}
          /\ request' = [request EXCEPT ![r].pc = "reclaim"]
  /\ UNCHANGED <<storeVars, job, tableVars, graphVars, task>>

\* jobs.latest_for_document after a second lost claim.
JoinLatest(r) ==
  /\ request[r].pc = "latest"
  /\ LET d == request[r].document IN
     \E answer \in Answers("latest") :
       \/ /\ answer # "ok"
          /\ request' = [request EXCEPT ![r].pc = "error"]
       \/ /\ answer = "ok"
          /\ \E j \in LatestJobs(d) :
               request' = [request EXCEPT ![r].pc = "joined", ![r].job = j]
       \/ /\ answer = "ok" /\ LatestJobs(d) = {}
          /\ request' = [request EXCEPT ![r].pc = "not_found"]
  /\ UNCHANGED <<storeVars, job, tableVars, graphVars, task>>

\* runner.submit, once the answer of the claim has resumed the handler.
Submit(r) ==
  /\ request[r].pc = "submit"
  /\ task' = [task EXCEPT ![request[r].job] = "start"]
  /\ request' = [request EXCEPT ![r].pc = "started"]
  /\ UNCHANGED <<storeVars, job, tableVars, graphVars>>

RequestStep(r) ==
  \/ \E d \in Document : RequestProcessing(r, d)
  \/ BeginClaim(r)
  \/ Claim(r)
  \/ JoinActive(r)
  \/ JoinLatest(r)
  \/ Submit(r)

-----------------------------------------------------------------------------
(* The background task of a job: IngestionService.run *)

\* The awaited calls inside the try block of run, by where the task stands.
InsideTry == {"download", "extract", "clean", "chunk", "persist", "replace",
              "embed", "embedding", "index", "node", "stale", "upsert"}

\* The calls between the start of the job and the end of its row.
Pipeline == {"lookup", "mark"} \cup InsideTry \cup {"finish", "fail"}

\* "ready" and "failed" write the document after the job has ended.
TaskRunning == {"start", "cancel"} \cup Pipeline \cup {"ready", "failed"}

\* "dead" is a task whose exception _guard logged, "lost" one that a restart
\* took with it.
TaskPc == TaskRunning \cup {"none", "done", "dead", "lost"}

\* An exception inside the try block is recorded by _fail; any other ends the
\* task in _guard.
Raised(j) == IF task[j] \in InsideTry THEN "fail" ELSE "dead"

Proceed(j, answer, next) ==
  task' = [task EXCEPT ![j] = IF answer = "ok" THEN next ELSE Raised(j)]

\* jobs.start: only a queued job starts.
StartJob(j) ==
  /\ task[j] = "start"
  /\ LET queued == job[j].status = "queued" IN
     \E answer \in Answers("start") :
       /\ job' = IF queued /\ TookEffect(answer)
                 THEN [job EXCEPT ![j].status = "running", ![j].stage = "upload"]
                 ELSE job
       /\ Proceed(j, answer, IF queued THEN "lookup" ELSE "done")
  /\ UNCHANGED <<storeVars, tableVars, graphVars, request>>

\* documents.get
LookUp(j) ==
  /\ task[j] = "lookup"
  /\ \E answer \in Answers("lookup") :
       Proceed(j, answer, IF Recorded(job[j].document) THEN "mark" ELSE "cancel")
  /\ UNCHANGED <<storeVars, job, tableVars, graphVars, request>>

\* The document was deleted between the request and the run.
Cancel(j) ==
  /\ task[j] = "cancel"
  /\ \E answer \in Answers("cancel") :
       /\ job' = IF TookEffect(answer) THEN Finished(j, "cancelled") ELSE job
       /\ Proceed(j, answer, "done")
  /\ UNCHANGED <<storeVars, tableVars, graphVars, request>>

\* documents.update_status at one of its three places in a run.
SetDocument(j, at, s, next) ==
  /\ task[j] = at
  /\ \E answer \in Answers(at) :
       /\ status' = IF TookEffect(answer)
                    THEN StatusSet(job[j].document, s) ELSE status
       /\ Proceed(j, answer, next)
  /\ UNCHANGED <<checksum, objects, minted, uploads, deletes, boot,
                 job, tableVars, graphVars, request>>

\* Mutant: the run leaves the document as it was uploaded.
MarkUploaded(j) == SetDocument(j, "mark", "uploaded", "download")

MarkProcessing(j) == SetDocument(j, "mark", "processing", "download")
MarkReady(j)      == SetDocument(j, "ready", "ready", "done")
MarkFailed(j)     == SetDocument(j, "failed", "failed", "done")

\* storage.download: a missing object is an error.
Download(j) ==
  /\ task[j] = "download"
  /\ \E answer \in Answers("download") :
       Proceed(j, IF job[j].document \in objects THEN answer ELSE "refused",
               "extract")
  /\ UNCHANGED <<storeVars, job, tableVars, graphVars, request>>

\* jobs.advance, which records the stage before it is attempted, and whatever
\* synchronous work (parse, clean, chunk) comes before the next awaited call.
Advance(j, at, next) ==
  /\ task[j] = at
  /\ \E answer \in Answers(at) :
       /\ job' = IF TookEffect(answer) THEN Advanced(j, at) ELSE job
       /\ Proceed(j, answer, next)
  /\ UNCHANGED <<storeVars, tableVars, graphVars, request>>

Extract(j) == Advance(j, "extract", "clean")
Clean(j)   == Advance(j, "clean", "chunk")
Split(j)   == Advance(j, "chunk", "persist")
Persist(j) == Advance(j, "persist", "replace")
Embed(j)   == Advance(j, "embed", "embedding")
Index(j)   == Advance(j, "index", "node")

\* chunks.replace_for_document: one transaction deletes the absent chunks and
\* upserts the rest.  The foreign key raises when the document is gone, unless
\* there is no chunk to insert.
ReplaceChunks(j) ==
  /\ task[j] = "replace"
  /\ LET d == job[j].document
         new == ChunksOf[boot]
         orphan == ~Recorded(d) /\ new # {}
     IN
     \E answer \in Answers("replace") :
       /\ IF TookEffect(answer) /\ Recorded(d)
          THEN /\ chunks' = [chunks EXCEPT ![d] = new]
               /\ chunkJob' = [chunkJob EXCEPT ![d] = IF new = {} THEN NoJob ELSE j]
          ELSE UNCHANGED tableVars
       /\ Proceed(j, IF orphan THEN "refused" ELSE answer, "embed")
  /\ UNCHANGED <<storeVars, job, graphVars, request>>

\* embeddings.embed_texts: no state of ours changes.
EmbedTexts(j) ==
  /\ task[j] = "embedding"
  /\ \E answer \in Answers("embedding") : Proceed(j, answer, "index")
  /\ UNCHANGED <<storeVars, job, tableVars, graphVars, request>>

\* ChunkGraph.index_document is three write transactions; the first is for the
\* :Document node.
GraphNode(j) ==
  /\ task[j] = "node"
  /\ \E answer \in Answers("node") :
       /\ nodes' = IF TookEffect(answer) THEN nodes \cup {job[j].document} ELSE nodes
       /\ Proceed(j, answer, "stale")
  /\ UNCHANGED <<storeVars, job, tableVars, indexed, request>>

\* Mutant: no chunks, nothing to do.
KeptIfEmpty(d, new) ==
  IF new = {} THEN indexed[d] ELSE {n \in indexed[d] : n.chunk \in new}

\* The nodes that survive the deletion of stale chunks.
Kept(d, new) == {n \in indexed[d] : n.chunk \in new}

\* The second removes the chunks this run did not produce, all of them when it
\* produced none.
GraphStale(j) ==
  /\ task[j] = "stale"
  /\ LET d == job[j].document
         new == ChunksOf[boot]
     IN
     \E answer \in Answers("stale") :
       /\ indexed' = IF TookEffect(answer)
                     THEN [indexed EXCEPT ![d] = Kept(d, new)]
                     ELSE indexed
       /\ Proceed(j, answer, IF new = {} THEN "finish" ELSE "upsert")
  /\ UNCHANGED <<storeVars, job, tableVars, nodes, request>>

\* The third writes the chunks it did, with their vectors, if the node is there
\* to match.
GraphUpsert(j) ==
  /\ task[j] = "upsert"
  /\ LET d == job[j].document
         new == ChunksOf[boot]
         kept == {n \in indexed[d] : n.chunk \notin new}
     IN
     \E answer \in Answers("upsert") :
       /\ indexed' = IF TookEffect(answer) /\ d \in nodes
                     THEN [indexed EXCEPT ![d] =
                            kept \cup {[chunk |-> c, model |-> boot] : c \in new}]
                     ELSE indexed
       /\ Proceed(j, answer, "finish")
  /\ UNCHANGED <<storeVars, job, tableVars, nodes, request>>

\* jobs.finish, after the pipeline or from _fail; the document follows in a
\* statement of its own.
Finish(j, at, outcome, next) ==
  /\ task[j] = at
  /\ \E answer \in Answers(at) :
       /\ job' = IF TookEffect(answer) THEN Finished(j, outcome) ELSE job
       /\ Proceed(j, answer, next)
  /\ UNCHANGED <<storeVars, tableVars, graphVars, request>>

Succeed(j) == Finish(j, "finish", "succeeded", "ready")

\* Mutants: one of the two statements of _fail is missing.
FailDocumentOnly(j) == SetDocument(j, "fail", "failed", "done")
FailJobOnly(j) == Finish(j, "fail", "failed", "done")

Fail(j) == Finish(j, "fail", "failed", "failed")

TaskStep(j) ==
  \/ StartJob(j) \/ LookUp(j) \/ Cancel(j) \/ MarkProcessing(j) \/ Download(j)
  \/ Extract(j) \/ Clean(j) \/ Split(j) \/ Persist(j) \/ ReplaceChunks(j)
  \/ Embed(j) \/ EmbedTexts(j) \/ Index(j)
  \/ GraphNode(j) \/ GraphStale(j) \/ GraphUpsert(j)
  \/ Succeed(j) \/ MarkReady(j) \/ Fail(j) \/ MarkFailed(j)

-----------------------------------------------------------------------------
(* The document store, with what follows a deleted row, and the process *)

\* on delete cascade: jobs and chunks go with the document, in its statement.
\* Neo4j hears nothing of it.
Cascade ==
  /\ job' = [j \in Job |->
       IF Exists(j) /\ status'[job[j].document] = "absent"
       THEN [job[j] EXCEPT !.status = "gone"] ELSE job[j]]
  /\ chunks' = [d \in Document |-> IF status'[d] = "absent" THEN {} ELSE chunks[d]]
  /\ chunkJob' = [d \in Document |->
       IF status'[d] = "absent" THEN NoJob ELSE chunkJob[d]]

Upload(u) == UploadStep(u) /\ UNCHANGED <<job, tableVars, graphVars, task, request>>
Delete(x) == DeleteStep(x) /\ Cascade /\ UNCHANGED <<graphVars, task, request>>

\* The process stops, with its tasks, and another starts: whatever a job had
\* recorded stays, and nothing at startup looks for it.
Crash ==
  /\ CrashStore
  /\ task' = [j \in Job |-> IF task[j] \in TaskRunning THEN "lost" ELSE task[j]]
  /\ request' = [r \in Request |->
       IF request[r].pc \in RequestInFlight
       THEN [request[r] EXCEPT !.pc = "lost", !.claim = NoClaim] ELSE request[r]]
  /\ UNCHANGED <<job, tableVars, graphVars>>

Init ==
  /\ StoreInit
  /\ job = [j \in Job |-> NewJob]
  /\ chunks = [d \in Document |-> {}]
  /\ chunkJob = [d \in Document |-> NoJob]
  /\ nodes = {}
  /\ indexed = [d \in Document |-> {}]
  /\ task = [j \in Job |-> "none"]
  /\ request = [r \in Request |-> NewRequest]

Next ==
  \/ \E r \in Request : RequestStep(r)
  \/ \E j \in Job : TaskStep(j)
  \/ \E u \in Uploader : Upload(u)
  \/ \E x \in Deleter : Delete(x)
  \/ Crash

Spec == Init /\ [][Next]_vars

-----------------------------------------------------------------------------
(* Properties *)

\* Type correctness of the tables, the graph, the tasks and the requests.
TypeOK ==
  /\ StoreTypeOK
  /\ job \in [Job -> [status : JobStatus, document : Document \cup {NoDocument},
                      stage : Stage, attempt : Nat, created : Nat, inserted : Nat]]
  /\ chunks \in [Document -> SUBSET Chunk]
  /\ chunkJob \in [Document -> Job \cup {NoJob}]
  /\ nodes \subseteq Document
  /\ indexed \in [Document -> SUBSET [chunk : Chunk, model : 1..MaxBoot]]
  /\ task \in [Job -> TaskPc]
  /\ request \in [Request -> [pc : RequestPc, document : Document \cup {NoDocument},
                              job : Job \cup {NoJob},
                              claim : [created : Nat, attempt : Nat]]]

\* Two runs over one document never overlap: between starting its job and
\* ending it a task has the document to itself, so the writes of two runs to
\* the chunk table and to the graph do not interleave ("one run at a time"),
\* also for a document deleted while it is being processed.
RunsNeverOverlap ==
  \A j, k \in Job :
    j # k /\ task[j] \in Pipeline /\ task[k] \in Pipeline =>
      job[j].document # job[k].document

\* "Most recent run": the job the status endpoint shows, the latest one by its
\* stamp, is the active one if there is any, but for a claim that was overtaken
\* by another that began after it and by the run of that one.  The job that hides
\* an active one was inserted before it, by a claim that ended only after
\* the active one's had begun: a run claimed after the row of the last one was there
\* is never hidden.
HiddenOnlyByOverlap ==
  \A j \in Job : Active(j) =>
    \A k \in LatestJobs(job[j].document) \ {j} :
      /\ job[j].created < job[k].inserted
      /\ job[k].inserted < job[j].inserted

\* "Which attempt this is for the document": jobs claimed one after the other
\* are numbered in that order, although a number is counted before the insert
\* that uses it and rows go with their document in between.  Claims that
\* overlap may give two rows one number.
AttemptsInOrder ==
  \A j, k \in Job :
    /\ Exists(j) /\ Exists(k) /\ job[j].document = job[k].document
    /\ job[j].inserted <= job[k].created
    => job[j].attempt < job[k].attempt

\* "ready means a document is retrievable": the graph holds the document,
\* exactly the chunks that Postgres holds, embedded by one model.  True in
\* spite of the status being written in a statement of its own, possibly while
\* a later run of the same document is under way, of graph writes in three
\* transactions, of failures, restarts and changes of the chunking code.
ReadyIsRetrievable ==
  \A d \in Document : status[d] = "ready" =>
    /\ d \in nodes
    /\ {n.chunk : n \in indexed[d]} = chunks[d]
    /\ \A m, n \in indexed[d] : m.model = n.model

\* The stage on a job's row bounds what its run has done, however the run
\* ended: stored chunks are never owned by a job that says it had not reached
\* persist, nothing succeeds short of index, and a task that is writing to the
\* graph has said so.
StageBoundsEffects ==
  \A j \in Job :
    /\ (\E d \in Document : chunkJob[d] = j) =>
         StageOrder[job[j].stage] >= StageOrder["persist"]
    /\ job[j].status = "succeeded" => job[j].stage = "index"
    /\ task[j] \in {"node", "stale", "upsert"} /\ Exists(j) => job[j].stage = "index"

\* request_processing on losing its claim: "Either way the document is being
\* processed".  A job handed to a second caller has a task that is running, or
\* a request that is about to submit it.
JoinedJobIsRunning ==
  [][\A r \in Request :
       request[r].pc = "active" /\ request'[r].pc = "joined" =>
         LET j == request'[r].job IN
         \/ task[j] \in TaskRunning
         \/ \E q \in Request : request[q].pc = "submit" /\ request[q].job = j]_vars

\* _fail: "the document says whether it is usable".  When nothing runs over a
\* document any more and its last job succeeded, the document says ready.
SucceededMeansUsable ==
  \A d \in Document : \A j \in LatestJobs(d) :
    /\ job[j].status = "succeeded"
    /\ \A k \in JobsOf(d) : task[k] \notin TaskRunning
    => status[d] = "ready"

-----------------------------------------------------------------------------
(* What job rows and document rows promise *)

Lifecycle == INSTANCE JobLifecycle
               WITH state <- [j \in Job |-> job[j].status],
                    of    <- [j \in Job |-> job[j].document]

\* Every step of the pipeline is a step of the job lifecycle or leaves it alone:
\* one active job per document, outcomes for ever, rows gone all together.
ImplementsLifecycle == Lifecycle!Spec

\* The status of the active job of each document.
ActiveRun == [d \in Document |->
  IF ActiveJobs(d) = {} THEN "none"
  ELSE IF \E j \in ActiveJobs(d) : job[j].status = "running"
       THEN "running" ELSE "queued"]

Documents == INSTANCE DocumentLifecycle WITH run <- ActiveRun

\* Every step of the pipeline, failures and restarts included, is a step of the
\* document lifecycle: no run that lost its document, its job or its process
\* writes a status that those who poll the list would not expect.
ImplementsDocuments == Documents!Spec

=============================================================================
