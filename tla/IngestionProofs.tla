--------------------------- MODULE IngestionProofs ---------------------------
(***************************************************************************)
(* Theorems about Ingestion, for every set of documents, jobs, requests,   *)
(* uploads and deletes, every choice of failing calls and every number of  *)
(* restarts: the types, that runs do not overlap, that nothing is          *)
(* orphaned, what a document that says ready has in the graph, what the    *)
(* stage of a job bounds, when a later job hides an active one and in what *)
(* order attempts are numbered.  The last part is about Lifespan: a stop   *)
(* loses no job that it has not given up, as long as the calls of a run    *)
(* outside its try block do not fail of themselves.                        *)
(***************************************************************************)
EXTENDS Lifespan, DocumentStoreProofs, FiniteSetTheorems, TLAPS

-----------------------------------------------------------------------------
(* Types.  TypeOK alone is not inductive: a call writes to the document it *)
(* carries, so it must carry one by the time it does.                      *)

\* Whatever is past its first step knows its document, and its job.
RequestsBound ==
  \A r \in Request :
    /\ request[r].pc \in RequestInFlight => request[r].document \in Document
    /\ request[r].pc = "submit" =>
         request[r].job \in Job /\ job[request[r].job].status # "unused"

JobsBound ==
  \A j \in Job :
    /\ job[j].status # "unused" => job[j].document \in Document
    /\ task[j] \in TaskRunning => job[j].status # "unused"

\* The rows Postgres holds or has held are finitely many, which makes the
\* attempt counter a number.
UsedJobs == {j \in Job : job[j].status # "unused"}

TypeInv ==
  /\ TypeOK
  /\ StoreCallsBound
  /\ RequestsBound
  /\ JobsBound
  /\ IsFiniteSet(UsedJobs)

\* The rest of TypeInv, which the actions of the store leave to the cascade.
Claims == [created : Nat, attempt : Nat]
Requests == [pc : RequestPc, document : Document \cup {NoDocument}, job : Job \cup {NoJob},
             claim : Claims]
Jobs == [status : JobStatus, document : Document \cup {NoDocument}, stage : Stage,
         attempt : Nat, created : Nat, inserted : Nat]
IndexEntry == [chunk : Chunk, model : 1..MaxBoot]

PipelineTypes ==
  /\ job \in [Job -> Jobs]
  /\ chunks \in [Document -> SUBSET Chunk]
  /\ chunkJob \in [Document -> Job \cup {NoJob}]
  /\ nodes \subseteq Document
  /\ indexed \in [Document -> SUBSET IndexEntry]
  /\ task \in [Job -> TaskPc]
  /\ request \in [Request -> Requests]

LEMMA TypeInvParts ==
  /\ TypeInv <=> /\ StoreInv /\ PipelineTypes
                 /\ RequestsBound /\ JobsBound /\ IsFiniteSet(UsedJobs)
  /\ TypeInv' <=> /\ StoreInv' /\ PipelineTypes'
                  /\ RequestsBound' /\ JobsBound' /\ IsFiniteSet(UsedJobs)'
BY DEF TypeInv, TypeOK, StoreInv, PipelineTypes, Requests, Claims, Jobs, IndexEntry

LEMMA AttemptIsNat ==
  ASSUME IsFiniteSet(UsedJobs), NEW d
  PROVE  NextAttempt(d) \in Nat
<1>1. JobsOf(d) \subseteq UsedJobs
  BY DEF JobsOf, Exists, UsedJobs, ActiveStatus, TerminalStatus
<1>2. Cardinality(JobsOf(d)) \in Nat
  BY <1>1, FS_Subset, FS_CardinalityType
<1>3. QED
  BY <1>2 DEF NextAttempt

LEMMA InsertsIsNat ==
  ASSUME IsFiniteSet(UsedJobs)
  PROVE  Inserts = Cardinality(UsedJobs) /\ Inserts \in Nat
BY FS_CardinalityType DEF Inserts, UsedJobs

LEMMA RequestFields ==
  ASSUME NEW r \in Request, NEW p \in RequestPc, request \in [Request -> Requests]
  PROVE  /\ request' = [request EXCEPT ![r].pc = p] => request' \in [Request -> Requests]
         /\ \A d \in Document :
              request' = [request EXCEPT ![r].pc = p, ![r].document = d]
                => request' \in [Request -> Requests]
         /\ \A j \in Job :
              request' = [request EXCEPT ![r].pc = p, ![r].job = j]
                => request' \in [Request -> Requests]
         /\ \A c \in Claims :
              request' = [request EXCEPT ![r].pc = p, ![r].claim = c]
                => request' \in [Request -> Requests]
         /\ \A j \in Job, c \in Claims :
              request' = [request EXCEPT ![r] = [@ EXCEPT !.pc = p, !.job = j, !.claim = c]]
                => request' \in [Request -> Requests]
<1>1. request' = [request EXCEPT ![r].pc = p] => request' \in [Request -> Requests]
  BY DEF Requests
<1>2. ASSUME NEW d \in Document, request' = [request EXCEPT ![r].pc = p, ![r].document = d]
      PROVE  request' \in [Request -> Requests]
  BY <1>2 DEF Requests
<1>3. ASSUME NEW j \in Job, request' = [request EXCEPT ![r].pc = p, ![r].job = j]
      PROVE  request' \in [Request -> Requests]
  BY <1>3 DEF Requests
<1>4. ASSUME NEW c \in Claims, request' = [request EXCEPT ![r].pc = p, ![r].claim = c]
      PROVE  request' \in [Request -> Requests]
  BY <1>4 DEF Requests
<1>5. ASSUME NEW j \in Job, NEW c \in Claims,
             request' = [request EXCEPT ![r] = [@ EXCEPT !.pc = p, !.job = j, !.claim = c]]
      PROVE  request' \in [Request -> Requests]
  <2>1. [request[r] EXCEPT !.pc = p, !.job = j, !.claim = c] \in Requests
    BY DEF Requests
  <2>2. QED
    BY <1>5, <2>1
<1>6. QED
  BY <1>1, <1>2, <1>3, <1>4, <1>5

\* A request that only moves on, from a step at which it knew its document.
LEMMA RequestMoves ==
  ASSUME TypeInv, NEW r \in Request, NEW p \in RequestPc \ {"submit"},
         request[r].pc \in RequestInFlight,
         \/ request' = [request EXCEPT ![r].pc = p]
         \/ \E j \in Job : request' = [request EXCEPT ![r].pc = p, ![r].job = j]
         \/ \E c \in Claims : request' = [request EXCEPT ![r].pc = p, ![r].claim = c],
         UNCHANGED <<storeVars, job, tableVars, graphVars>>,
         task' = task
  PROVE  TypeInv'
<1>. USE DEF tableVars, graphVars
<1>1. StoreInv /\ PipelineTypes /\ RequestsBound /\ JobsBound /\ IsFiniteSet(UsedJobs)
  BY TypeInvParts
<1>2. request' \in [Request -> Requests]
  BY <1>1, RequestFields DEF PipelineTypes
<1>3. /\ request'[r].pc = p
      /\ request'[r].document = request[r].document
      /\ \A q \in Request \ {r} : request'[q] = request[q]
  BY <1>1 DEF PipelineTypes, Requests
<1>4. StoreInv'
  BY <1>1, StoreInvUnchanged
<1>5. PipelineTypes'
  BY <1>1, <1>2 DEF PipelineTypes
<1>6. RequestsBound'
  BY <1>1, <1>3 DEF RequestsBound
<1>7. JobsBound' /\ IsFiniteSet(UsedJobs)'
  BY <1>1 DEF JobsBound, UsedJobs
<1>8. QED
  BY <1>4, <1>5, <1>6, <1>7, TypeInvParts

LEMMA RequestProcessingTypes ==
  ASSUME TypeInv, NEW r \in Request, NEW d \in Document, RequestProcessing(r, d)
  PROVE  TypeInv'
<1>. USE DEF tableVars, graphVars, RequestProcessing
<1>1. StoreInv /\ PipelineTypes /\ RequestsBound /\ JobsBound /\ IsFiniteSet(UsedJobs)
  BY TypeInvParts
<1>2. PICK p \in {"error", "claim", "not_found"} :
        request' = [request EXCEPT ![r].pc = p, ![r].document = d]
  OBVIOUS
<1>3. request' \in [Request -> Requests]
  <2>1. p \in RequestPc
    BY DEF RequestPc
  <2>2. QED
    BY <1>1, <1>2, <2>1, RequestFields DEF PipelineTypes
<1>4. /\ request'[r].pc = p
      /\ request'[r].document = d
      /\ \A q \in Request \ {r} : request'[q] = request[q]
  BY <1>1, <1>2 DEF PipelineTypes, Requests
<1>5. StoreInv'
  BY <1>1, StoreInvUnchanged
<1>6. PipelineTypes'
  BY <1>1, <1>3 DEF PipelineTypes
<1>7. RequestsBound'
  BY <1>1, <1>4 DEF RequestsBound
<1>8. JobsBound' /\ IsFiniteSet(UsedJobs)'
  BY <1>1 DEF JobsBound, UsedJobs
<1>9. QED
  BY <1>5, <1>6, <1>7, <1>8, TypeInvParts

LEMMA BeginClaimTypes ==
  ASSUME TypeInv, NEW r \in Request, BeginClaim(r)
  PROVE  TypeInv'
<1>. DEFINE c == [created |-> Inserts, attempt |-> NextAttempt(request[r].document)]
<1>1. PipelineTypes /\ IsFiniteSet(UsedJobs)
  BY TypeInvParts
<1>2. c \in Claims
  BY <1>1, InsertsIsNat, AttemptIsNat DEF Claims
<1>3. request[r].pc \in RequestInFlight
  BY DEF BeginClaim, RequestInFlight
<1>4. PICK p \in {"insert", "reinsert"} :
        request' = [request EXCEPT ![r].pc = p, ![r].claim = c]
  BY <1>1 DEF BeginClaim, PipelineTypes, Requests
<1>5. p \in RequestPc \ {"submit"}
  BY DEF RequestPc
<1>6. QED
  BY <1>2, <1>3, <1>4, <1>5, RequestMoves DEF BeginClaim

\* The row that a claim inserts.
LEMMA ClaimedTypes ==
  ASSUME TypeInv, NEW r \in Request, request[r].document \in Document,
         NEW j \in Job, job[j].status = "unused",
         job' = [job EXCEPT ![j] = QueuedJob(r)]
  PROVE  /\ job' \in [Job -> Jobs]
         /\ job'[j] = QueuedJob(r)
         /\ job'[j].status = "queued" /\ job'[j].document = request[r].document
         /\ \A k \in Job \ {j} : job'[k] = job[k]
         /\ UsedJobs' = UsedJobs \cup {j} /\ j \notin UsedJobs
         /\ IsFiniteSet(UsedJobs)'
<1>1. PipelineTypes /\ IsFiniteSet(UsedJobs)
  BY TypeInvParts
<1>2. QueuedJob(r) \in Jobs
  <2>1. request[r].claim \in Claims
    BY <1>1 DEF PipelineTypes, Requests
  <2>2. "queued" \in JobStatus /\ "upload" \in Stage
    BY DEF JobStatus, ActiveStatus, Stage
  <2>3. QED
    BY <1>1, <2>1, <2>2, InsertsIsNat DEF QueuedJob, Jobs, Claims
<1>3. /\ job' \in [Job -> Jobs]
      /\ job'[j] = QueuedJob(r)
      /\ \A k \in Job \ {j} : job'[k] = job[k]
  BY <1>1, <1>2 DEF PipelineTypes
<1>4. job'[j].status = "queued" /\ job'[j].document = request[r].document
  BY <1>3 DEF QueuedJob
<1>5. UsedJobs' = UsedJobs \cup {j} /\ j \notin UsedJobs
  BY <1>3, <1>4 DEF UsedJobs
<1>6. IsFiniteSet(UsedJobs)'
  BY <1>1, <1>5, FS_AddElement
<1>7. QED
  BY <1>3, <1>4, <1>5, <1>6

\* A claim inserts nothing, or one row.
LEMMA ClaimInserts ==
  ASSUME NEW r \in Request, Claim(r)
  PROVE  \/ job' = job
         \/ /\ Recorded(request[r].document) /\ ActiveJobs(request[r].document) = {}
            /\ \E j \in Job : /\ job[j].status = "unused"
                              /\ job' = [job EXCEPT ![j] = QueuedJob(r)]
BY DEF Claim, Fresh

LEMMA ClaimAnswers ==
  ASSUME NEW r \in Request, Claim(r), request \in [Request -> Requests]
  PROVE  /\ request'[r].pc \in {"error", "active", "latest", "submit"}
         /\ request'[r].document = request[r].document
         /\ \A q \in Request \ {r} : request'[q] = request[q]
<1>1. \/ \E p \in {"error", "active", "latest"} :
           request' = [request EXCEPT ![r].pc = p, ![r].claim = NoClaim]
      \/ \E j \in Job : request' = [request EXCEPT ![r] =
           [@ EXCEPT !.pc = "submit", !.job = j, !.claim = NoClaim]]
  BY DEF Claim
<1>2. CASE \E p \in {"error", "active", "latest"} :
             request' = [request EXCEPT ![r].pc = p, ![r].claim = NoClaim]
  BY <1>2 DEF Requests
<1>3. ASSUME NEW j \in Job, request' = [request EXCEPT ![r] =
               [@ EXCEPT !.pc = "submit", !.job = j, !.claim = NoClaim]]
      PROVE  /\ request'[r].pc = "submit"
             /\ request'[r].document = request[r].document
             /\ \A q \in Request \ {r} : request'[q] = request[q]
  <2>1. request[r] \in Requests
    OBVIOUS
  <2>2. request'[r] = [request[r] EXCEPT !.pc = "submit", !.job = j, !.claim = NoClaim]
    BY <1>3
  <2>3. QED
    BY <1>3, <2>1, <2>2 DEF Requests
<1>4. QED
  BY <1>1, <1>2, <1>3

LEMMA ClaimedRow ==
  ASSUME NEW r \in Request, Claim(r), job \in [Job -> Jobs],
         NEW k \in Job, job'[k] # job[k]
  PROVE  job[k].status = "unused" /\ job'[k] = QueuedJob(r) /\ job'[k].status = "queued"
<1>1. PICK j \in Job : /\ job[j].status = "unused"
                       /\ job' = [job EXCEPT ![j] = QueuedJob(r)]
  BY ClaimInserts
<1>2. k = j /\ job'[k] = QueuedJob(r)
  BY <1>1
<1>3. QED
  BY <1>1, <1>2 DEF QueuedJob

LEMMA ClaimTypes ==
  ASSUME TypeInv, NEW r \in Request, Claim(r)
  PROVE  TypeInv'
<1>. DEFINE d == request[r].document
<1>. USE DEF tableVars, graphVars
<1>1. StoreInv /\ PipelineTypes /\ RequestsBound /\ JobsBound /\ IsFiniteSet(UsedJobs)
  BY TypeInvParts
<1>2. request[r].pc \in RequestInFlight /\ d \in Document
  BY <1>1 DEF Claim, RequestsBound, RequestInFlight
<1>3. NoClaim \in Claims
  BY DEF NoClaim, Claims
<1>4. CASE job' = job
  <2>1. PICK p \in {"error", "active", "latest"} :
          request' = [request EXCEPT ![r].pc = p, ![r].claim = NoClaim]
    <3>1. ASSUME NEW j \in Job, job[j].status = "unused",
                 job' = [job EXCEPT ![j] = QueuedJob(r)]
          PROVE  FALSE
      BY <1>4, <3>1, ClaimedTypes, <1>2
    <3>2. QED
      BY <3>1 DEF Claim, Fresh
  <2>2. p \in RequestPc \ {"submit"}
    BY DEF RequestPc
  <2>3. QED
    BY <1>2, <1>3, <1>4, <2>1, <2>2, RequestMoves DEF Claim
<1>5. ASSUME NEW j \in Job, job[j].status = "unused",
             job' = [job EXCEPT ![j] = QueuedJob(r)],
             \/ request' = [request EXCEPT ![r] =
                  [@ EXCEPT !.pc = "submit", !.job = j, !.claim = NoClaim]]
             \/ request' = [request EXCEPT ![r].pc = "error", ![r].claim = NoClaim]
      PROVE  TypeInv'
  <2>1. /\ job' \in [Job -> Jobs]
        /\ job'[j].status = "queued" /\ job'[j].document = d
        /\ \A k \in Job \ {j} : job'[k] = job[k]
        /\ IsFiniteSet(UsedJobs)'
    BY <1>2, <1>5, ClaimedTypes
  <2>2. request' \in [Request -> Requests]
    <3>1. "submit" \in RequestPc /\ "error" \in RequestPc
      BY DEF RequestPc
    <3>2. QED
      BY <1>1, <1>3, <1>5, <3>1, RequestFields DEF PipelineTypes
  <2>3. /\ request'[r].pc = "submit" => request'[r].job = j
        /\ request'[r].document = d
        /\ \A q \in Request \ {r} : request'[q] = request[q]
    BY <1>1, <1>5 DEF PipelineTypes, Requests
  <2>4. StoreInv'
    BY <1>1, StoreInvUnchanged DEF Claim
  <2>5. PipelineTypes'
    BY <1>1, <2>1, <2>2 DEF PipelineTypes, Claim
  <2>6. RequestsBound'
    BY <1>1, <1>2, <2>1, <2>3 DEF RequestsBound
  <2>7. JobsBound'
    BY <1>1, <1>2, <2>1 DEF JobsBound, Claim
  <2>8. QED
    BY <2>1, <2>4, <2>5, <2>6, <2>7, TypeInvParts
<1>6. QED
  BY <1>4, <1>5 DEF Claim, Fresh

LEMMA RequestTypes ==
  ASSUME TypeInv, NEW r \in Request, RequestStep(r)
  PROVE  TypeInv'
<1>1. ASSUME NEW d \in Document, RequestProcessing(r, d) PROVE TypeInv'
  BY <1>1, RequestProcessingTypes
<1>2. CASE BeginClaim(r) \/ Claim(r)
  BY <1>2, BeginClaimTypes, ClaimTypes
<1>3. CASE JoinActive(r)
  <2>1. request[r].pc \in RequestInFlight
    BY <1>3 DEF JoinActive, RequestInFlight
  <2>2. /\ "error" \in RequestPc \ {"submit"} /\ "joined" \in RequestPc \ {"submit"}
        /\ "reclaim" \in RequestPc \ {"submit"}
    BY DEF RequestPc
  <2>3. \/ \E p \in {"error", "reclaim"} : request' = [request EXCEPT ![r].pc = p]
        \/ \E j \in Job : request' = [request EXCEPT ![r].pc = "joined", ![r].job = j]
    BY <1>3 DEF JoinActive, ActiveJobs, JobsOf
  <2>4. QED
    BY <1>3, <2>1, <2>2, <2>3, RequestMoves DEF JoinActive
<1>4. CASE JoinLatest(r)
  <2>1. request[r].pc \in RequestInFlight
    BY <1>4 DEF JoinLatest, RequestInFlight
  <2>2. /\ "error" \in RequestPc \ {"submit"} /\ "joined" \in RequestPc \ {"submit"}
        /\ "not_found" \in RequestPc \ {"submit"}
    BY DEF RequestPc
  <2>3. \/ \E p \in {"error", "not_found"} : request' = [request EXCEPT ![r].pc = p]
        \/ \E j \in Job : request' = [request EXCEPT ![r].pc = "joined", ![r].job = j]
    BY <1>4 DEF JoinLatest, LatestJobs, JobsOf
  <2>4. QED
    BY <1>4, <2>1, <2>2, <2>3, RequestMoves DEF JoinLatest
<1>5. CASE Submit(r)
  <2>. USE DEF tableVars, graphVars
  <2>1. StoreInv /\ PipelineTypes /\ RequestsBound /\ JobsBound /\ IsFiniteSet(UsedJobs)
    BY TypeInvParts
  <2>2. request' \in [Request -> Requests]
    BY <1>5, <2>1, RequestFields DEF Submit, PipelineTypes, RequestPc
  <2>3. /\ request'[r].pc = "started"
        /\ \A q \in Request \ {r} : request'[q] = request[q]
    BY <1>5, <2>1 DEF Submit, PipelineTypes, Requests
  <2>4. StoreInv'
    BY <1>5, <2>1, StoreInvUnchanged DEF Submit
  <2>5. task' \in [Job -> TaskPc]
    BY <1>5, <2>1 DEF Submit, PipelineTypes, TaskPc, TaskRunning
  <2>6. PipelineTypes'
    BY <1>5, <2>1, <2>2, <2>5 DEF PipelineTypes, Submit
  <2>7. RequestsBound'
    BY <1>5, <2>1, <2>3 DEF RequestsBound, Submit, RequestInFlight
  <2>8. JobsBound'
    BY <1>5, <2>1 DEF JobsBound, RequestsBound, Submit, PipelineTypes
  <2>9. IsFiniteSet(UsedJobs)'
    BY <1>5, <2>1 DEF UsedJobs, Submit
  <2>10. QED
    BY <2>4, <2>6, <2>7, <2>8, <2>9, TypeInvParts
<1>6. QED
  BY <1>1, <1>2, <1>3, <1>4, <1>5 DEF RequestStep

\* What every other step does to jobs, tasks and requests: it creates none.
LEMMA NothingNew ==
  ASSUME TypeInv, StoreInv', PipelineTypes',
         \A k \in Job : /\ job'[k].document = job[k].document
                        /\ job'[k].status = "unused" <=> job[k].status = "unused"
                        /\ task'[k] \in TaskRunning => task[k] \in TaskRunning,
         \A r \in Request : request'[r].pc \in RequestInFlight => request'[r] = request[r]
  PROVE  TypeInv'
<1>1. RequestsBound /\ JobsBound /\ IsFiniteSet(UsedJobs)
  BY TypeInvParts
<1>2. RequestsBound'
  BY <1>1 DEF RequestsBound, RequestInFlight
<1>3. JobsBound'
  BY <1>1 DEF JobsBound
<1>4. UsedJobs' = UsedJobs
  BY DEF UsedJobs
<1>5. QED
  BY <1>1, <1>2, <1>3, <1>4, TypeInvParts

LEMMA FinishedTypes ==
  ASSUME NEW j \in Job, NEW outcome \in TerminalStatus, job \in [Job -> Jobs],
         job' = Finished(j, outcome) \/ job' = job
  PROVE  /\ job' \in [Job -> Jobs]
         /\ \A k \in Job : /\ job'[k].document = job[k].document
                           /\ job'[k].status = "unused" <=> job[k].status = "unused"
<1>1. outcome \in JobStatus /\ outcome # "unused"
  BY DEF JobStatus, TerminalStatus
<1>2. CASE job' = [job EXCEPT ![j].status = outcome] /\ job[j].status \in ActiveStatus
  BY <1>1, <1>2 DEF Jobs, ActiveStatus
<1>3. QED
  BY <1>2 DEF Finished, Active

LEMMA AdvancedTypes ==
  ASSUME NEW j \in Job, NEW stage \in Stage, job \in [Job -> Jobs],
         job' = Advanced(j, stage) \/ job' = job
  PROVE  /\ job' \in [Job -> Jobs]
         /\ \A k \in Job : /\ job'[k].document = job[k].document
                           /\ job'[k].status = job[k].status
BY DEF Advanced, Jobs

LEMMA StartedTypes ==
  ASSUME NEW j \in Job, job \in [Job -> Jobs], job[j].status # "unused",
         job' = [job EXCEPT ![j].status = "running", ![j].stage = "upload"]
  PROVE  /\ job' \in [Job -> Jobs]
         /\ \A k \in Job : /\ job'[k].document = job[k].document
                           /\ job'[k].status = "unused" <=> job[k].status = "unused"
<1>1. "running" \in JobStatus /\ "upload" \in Stage
  BY DEF JobStatus, ActiveStatus, Stage
<1>2. job' = [job EXCEPT ![j] = [job[j] EXCEPT !.status = "running", !.stage = "upload"]]
  BY DEF Jobs
<1>3. [job[j] EXCEPT !.status = "running", !.stage = "upload"] \in Jobs
  BY <1>1 DEF Jobs
<1>4. /\ [job[j] EXCEPT !.status = "running", !.stage = "upload"].status = "running"
      /\ [job[j] EXCEPT !.status = "running", !.stage = "upload"].document = job[j].document
  BY DEF Jobs
<1>5. job' \in [Job -> Jobs]
  BY <1>2, <1>3
<1>6. QED
  BY <1>2, <1>4, <1>5

\* A task that stands at a step of its run and moves to another.
LEMMA TaskMoves ==
  ASSUME TypeInv, NEW j \in Job, task[j] \in TaskRunning,
         NEW answer, NEW next \in TaskPc, Proceed(j, answer, next)
  PROVE  /\ task' \in [Job -> TaskPc]
         /\ \A k \in Job : task'[k] \in TaskRunning => task[k] \in TaskRunning
<1>1. task \in [Job -> TaskPc]
  BY TypeInvParts DEF PipelineTypes
<1>2. PICK p \in TaskPc : task' = [task EXCEPT ![j] = p]
  BY DEF Proceed, Raised, TaskPc, TaskRunning, Pipeline
<1>3. QED
  BY <1>1, <1>2

LEMMA TaskTypes ==
  ASSUME TypeInv, NEW j \in Job, TaskStep(j)
  PROVE  TypeInv'
<1>. DEFINE d == job[j].document
<1>. USE DEF tableVars, graphVars
<1>1. StoreInv /\ PipelineTypes /\ JobsBound
  BY TypeInvParts
<1>2. task[j] \in TaskRunning
  BY DEF TaskStep, StartJob, LookUp, Cancel, MarkProcessing, MarkReady, MarkFailed,
         SetDocument, Download, Extract, Clean, Split, Persist, Embed, Index, Advance,
         ReplaceChunks, EmbedTexts, GraphNode, GraphStale, GraphUpsert,
         Succeed, Fail, Finish, TaskRunning, Pipeline, InsideTry
<1>3. d \in Document
  BY <1>1, <1>2 DEF JobsBound
<1>4. /\ {"lookup", "mark", "cancel", "done", "download", "extract", "clean", "chunk",
          "persist", "replace", "embed", "embedding", "index", "node", "stale", "upsert",
          "finish", "fail", "ready", "failed"} \subseteq TaskPc
      /\ {"extract", "clean", "chunk", "persist", "embed", "index"} \subseteq Stage
      /\ {"succeeded", "failed", "cancelled"} \subseteq TerminalStatus
  BY DEF TaskPc, TaskRunning, Pipeline, InsideTry, Stage, TerminalStatus
<1>5. ASSUME NEW answer, NEW next \in TaskPc, Proceed(j, answer, next),
             StoreInv', PipelineTypes', request' = request,
             \A k \in Job : /\ job'[k].document = job[k].document
                            /\ job'[k].status = "unused" <=> job[k].status = "unused"
      PROVE  TypeInv'
  BY <1>2, <1>5, TaskMoves, NothingNew
<1>6. CASE StartJob(j)
  <2>. DEFINE next == IF job[j].status = "queued" THEN "lookup" ELSE "done"
  <2>0. next \in TaskPc
    BY <1>4
  <2>1. PICK answer : Proceed(j, answer, next)
    BY <1>6 DEF StartJob
  <2>. HIDE DEF next
  <2>2. \/ job' = job
        \/ job[j].status = "queued" /\
           job' = [job EXCEPT ![j].status = "running", ![j].stage = "upload"]
    BY <1>6 DEF StartJob
  <2>3. job' \in [Job -> Jobs] /\
        \A k \in Job : /\ job'[k].document = job[k].document
                       /\ job'[k].status = "unused" <=> job[k].status = "unused"
    <3>1. CASE job' = job
      BY <1>1, <3>1 DEF PipelineTypes
    <3>2. QED
      BY <1>1, <2>2, <3>1, StartedTypes DEF PipelineTypes
  <2>4. StoreInv'
    BY <1>1, <1>6, StoreInvUnchanged DEF StartJob
  <2>5. PipelineTypes'
    BY <1>1, <1>2, <1>6, <2>0, <2>1, <2>3, TaskMoves DEF PipelineTypes, StartJob
  <2>6. QED
    BY <1>5, <1>6, <2>0, <2>1, <2>3, <2>4, <2>5 DEF StartJob
<1>7. ASSUME NEW at, NEW s \in DocumentStatus, NEW next \in TaskPc,
             SetDocument(j, at, s, next)
      PROVE  TypeInv'
  <2>1. PICK answer : Proceed(j, answer, next)
    BY <1>7 DEF SetDocument
  <2>2. status' \in [Document -> DocumentStatus \cup {"absent"}]
    BY <1>1, <1>7 DEF SetDocument, StatusSet, StoreInv, StoreTypeOK
  <2>3. StoreInv'
    BY <1>1, <1>7, <2>2 DEF SetDocument, StoreInv, StoreTypeOK, StoreCallsBound
  <2>4. PipelineTypes'
    BY <1>1, <1>2, <1>7, <2>1, TaskMoves DEF PipelineTypes, SetDocument
  <2>5. QED
    BY <1>5, <1>7, <2>1, <2>3, <2>4 DEF SetDocument
<1>8. ASSUME NEW at, NEW stage \in Stage, NEW next \in TaskPc, stage = at,
             Advance(j, at, next)
      PROVE  TypeInv'
  <2>1. PICK answer : /\ job' = Advanced(j, stage) \/ job' = job
                      /\ Proceed(j, answer, next)
    BY <1>8 DEF Advance
  <2>2. job' \in [Job -> Jobs] /\
        \A k \in Job : job'[k].document = job[k].document /\ job'[k].status = job[k].status
    BY <1>1, <2>1, AdvancedTypes DEF PipelineTypes
  <2>3. StoreInv'
    BY <1>1, <1>8, StoreInvUnchanged DEF Advance
  <2>4. PipelineTypes'
    BY <1>1, <1>2, <1>8, <2>1, <2>2, TaskMoves DEF PipelineTypes, Advance
  <2>5. QED
    BY <1>5, <1>8, <2>1, <2>2, <2>3, <2>4 DEF Advance
<1>9. ASSUME NEW outcome \in TerminalStatus, NEW next \in TaskPc, NEW answer,
             job' = Finished(j, outcome) \/ job' = job,
             Proceed(j, answer, next),
             UNCHANGED <<storeVars, tableVars, graphVars, request>>
      PROVE  TypeInv'
  <2>1. job' \in [Job -> Jobs] /\
        \A k \in Job : /\ job'[k].document = job[k].document
                       /\ job'[k].status = "unused" <=> job[k].status = "unused"
    BY <1>1, <1>9, FinishedTypes DEF PipelineTypes
  <2>2. StoreInv'
    BY <1>1, <1>9, StoreInvUnchanged
  <2>3. PipelineTypes'
    BY <1>1, <1>2, <1>9, <2>1, TaskMoves DEF PipelineTypes
  <2>4. QED
    BY <1>5, <1>9, <2>1, <2>2, <2>3
<1>10. ASSUME NEW answer, NEW next \in TaskPc, Proceed(j, answer, next),
              UNCHANGED <<storeVars, job, tableVars, request>>,
              nodes' \subseteq Document,
              indexed' \in [Document -> SUBSET IndexEntry]
       PROVE  TypeInv'
  <2>1. StoreInv'
    BY <1>1, <1>10, StoreInvUnchanged
  <2>2. PipelineTypes'
    BY <1>1, <1>2, <1>10, TaskMoves DEF PipelineTypes
  <2>3. QED
    BY <1>5, <1>10, <2>1, <2>2
<1>11. nodes \subseteq Document /\ indexed \in [Document -> SUBSET IndexEntry]
  BY <1>1 DEF PipelineTypes
<1>12. CASE LookUp(j)
  BY <1>4, <1>10, <1>11, <1>12 DEF LookUp
<1>13. CASE Cancel(j)
  BY <1>4, <1>9, <1>13 DEF Cancel
<1>14. CASE MarkProcessing(j) \/ MarkReady(j) \/ MarkFailed(j)
  BY <1>4, <1>7, <1>14 DEF MarkProcessing, MarkReady, MarkFailed, DocumentStatus
<1>15. CASE Download(j)
  BY <1>4, <1>10, <1>11, <1>15 DEF Download
<1>16. CASE Extract(j) \/ Clean(j) \/ Split(j) \/ Persist(j) \/ Embed(j) \/ Index(j)
  BY <1>4, <1>8, <1>16 DEF Extract, Clean, Split, Persist, Embed, Index
<1>17. CASE ReplaceChunks(j)
  <2>1. PICK answer : Proceed(j, answer, "embed")
    BY <1>17 DEF ReplaceChunks
  <2>2. ChunksOf[boot] \subseteq Chunk
    BY <1>1, IngestionAssumption DEF IngestionAssumption, StoreInv, StoreTypeOK
  <2>3. chunks' \in [Document -> SUBSET Chunk] /\ chunkJob' \in [Document -> Job \cup {NoJob}]
    BY <1>1, <1>3, <1>17, <2>2 DEF ReplaceChunks, PipelineTypes
  <2>4. StoreInv'
    BY <1>1, <1>17, StoreInvUnchanged DEF ReplaceChunks
  <2>5. PipelineTypes'
    BY <1>1, <1>2, <1>4, <1>17, <2>1, <2>3, TaskMoves DEF PipelineTypes, ReplaceChunks
  <2>6. QED
    BY <1>4, <1>5, <1>17, <2>1, <2>4, <2>5 DEF ReplaceChunks
<1>18. CASE EmbedTexts(j)
  BY <1>4, <1>10, <1>11, <1>18 DEF EmbedTexts
<1>19. CASE GraphNode(j)
  BY <1>3, <1>4, <1>10, <1>11, <1>19 DEF GraphNode
<1>20. CASE GraphStale(j)
  <2>. DEFINE next == IF ChunksOf[boot] = {} THEN "finish" ELSE "upsert"
  <2>0. next \in TaskPc
    BY <1>4
  <2>1. PICK answer : Proceed(j, answer, next)
    BY <1>20 DEF GraphStale
  <2>. HIDE DEF next
  <2>2. Kept(d, ChunksOf[boot]) \subseteq IndexEntry
    BY <1>3, <1>11 DEF Kept
  <2>3. indexed' \in [Document -> SUBSET IndexEntry]
    BY <1>11, <1>20, <2>2 DEF GraphStale
  <2>4. QED
    BY <1>10, <1>11, <1>20, <2>0, <2>1, <2>3 DEF GraphStale
<1>21. CASE GraphUpsert(j)
  <2>1. PICK answer : Proceed(j, answer, "finish")
    BY <1>21 DEF GraphUpsert
  <2>2. {[chunk |-> c, model |-> boot] : c \in ChunksOf[boot]} \subseteq IndexEntry
    BY <1>1, IngestionAssumption DEF IngestionAssumption, StoreInv, StoreTypeOK, IndexEntry
  <2>3. {n \in indexed[d] : n.chunk \notin ChunksOf[boot]} \subseteq IndexEntry
    BY <1>3, <1>11
  <2>4. indexed' \in [Document -> SUBSET IndexEntry]
    BY <1>11, <1>21, <2>2, <2>3 DEF GraphUpsert
  <2>5. QED
    BY <1>4, <1>10, <1>11, <1>21, <2>1, <2>4 DEF GraphUpsert
<1>22. CASE Succeed(j) \/ Fail(j)
  BY <1>4, <1>9, <1>22 DEF Succeed, Fail, Finish
<1>23. QED
  BY <1>6, <1>12, <1>13, <1>14, <1>15, <1>16, <1>17, <1>18, <1>19, <1>20, <1>21, <1>22
     DEF TaskStep

LEMMA UploadKeepsTypes ==
  ASSUME TypeInv, NEW u \in Uploader, Upload(u)
  PROVE  TypeInv'
<1>. USE DEF tableVars, graphVars
<1>1. StoreInv /\ PipelineTypes
  BY TypeInvParts
<1>2. StoreInv'
  BY <1>1, UploadTypes DEF Upload
<1>3. PipelineTypes'
  BY <1>1 DEF PipelineTypes, Upload
<1>4. QED
  BY <1>2, <1>3, NothingNew DEF Upload

\* A row that goes with its document keeps all but its status.
LEMMA CascadeTypes ==
  ASSUME PipelineTypes, Cascade
  PROVE  /\ job' \in [Job -> Jobs]
         /\ \A k \in Job : /\ job'[k].document = job[k].document
                           /\ job'[k].status = "unused" <=> job[k].status = "unused"
         /\ chunks' \in [Document -> SUBSET Chunk]
         /\ chunkJob' \in [Document -> Job \cup {NoJob}]
<1>1. "gone" \in JobStatus
  BY DEF JobStatus
<1>2. ASSUME NEW k \in Job
      PROVE  /\ job'[k] \in Jobs
             /\ job'[k].document = job[k].document
             /\ job'[k].status = "unused" <=> job[k].status = "unused"
  <2>1. job[k] \in Jobs
    BY DEF PipelineTypes
  <2>2. \/ job'[k] = job[k]
        \/ job'[k] = [job[k] EXCEPT !.status = "gone"] /\ Exists(k)
    BY DEF Cascade
  <2>3. CASE job'[k] = job[k]
    BY <2>1, <2>3
  <2>4. CASE job'[k] = [job[k] EXCEPT !.status = "gone"] /\ Exists(k)
    BY <1>1, <2>1, <2>4 DEF Jobs, Exists, ActiveStatus, TerminalStatus
  <2>5. QED
    BY <2>2, <2>3, <2>4
<1>3. job' = [k \in Job |-> job'[k]]
  BY DEF Cascade
<1>4. job' \in [Job -> Jobs]
  BY <1>2, <1>3
<1>5. chunks' \in [Document -> SUBSET Chunk] /\ chunkJob' \in [Document -> Job \cup {NoJob}]
  BY DEF Cascade, PipelineTypes
<1>6. QED
  BY <1>2, <1>4, <1>5

LEMMA DeleteKeepsTypes ==
  ASSUME TypeInv, NEW x \in Deleter, Delete(x)
  PROVE  TypeInv'
<1>. USE DEF graphVars
<1>1. StoreInv /\ PipelineTypes
  BY TypeInvParts
<1>2. StoreInv'
  BY <1>1, DeleteTypes DEF Delete
<1>3. PipelineTypes'
  BY <1>1, CascadeTypes DEF PipelineTypes, Delete
<1>4. QED
  BY <1>1, <1>2, <1>3, CascadeTypes, NothingNew DEF Delete

LEMMA CrashKeepsTypes ==
  ASSUME TypeInv, Crash
  PROVE  TypeInv'
<1>. USE DEF tableVars, graphVars
<1>1. StoreInv /\ PipelineTypes
  BY TypeInvParts
<1>2. StoreInv'
  BY <1>1, CrashTypes DEF Crash
<1>3. task' \in [Job -> TaskPc]
      /\ \A k \in Job : task'[k] \in TaskRunning => task[k] \in TaskRunning
  BY <1>1 DEF Crash, PipelineTypes, TaskPc, TaskRunning, Pipeline, InsideTry
<1>4. request' \in [Request -> Requests]
  <2>1. "lost" \in RequestPc /\ NoClaim \in Claims
    BY DEF RequestPc, Claims, NoClaim
  <2>2. \A q \in Requests : [q EXCEPT !.pc = "lost", !.claim = NoClaim] \in Requests
    BY <2>1 DEF Requests
  <2>3. \A r \in Request : request[r] \in Requests
    BY <1>1 DEF PipelineTypes
  <2>4. QED
    BY <2>2, <2>3 DEF Crash
<1>5. \A r \in Request : request'[r].pc \in RequestInFlight => request'[r] = request[r]
  BY <1>1 DEF Crash, PipelineTypes, Requests, RequestInFlight
<1>6. PipelineTypes'
  BY <1>1, <1>3, <1>4 DEF PipelineTypes, Crash
<1>7. QED
  BY <1>2, <1>3, <1>5, <1>6, NothingNew DEF Crash

LEMMA InitTypes == Init => TypeInv
<1>1. SUFFICES ASSUME Init PROVE TypeInv
  OBVIOUS
<1>2. StoreInv
  BY <1>1, StoreAssumption
  DEF Init, StoreInit, StoreAssumption, StoreInv, StoreTypeOK, StoreCallsBound, DocumentStatus,
      UploadPc, DeletePc, NewUpload, NewDelete, DeleteInFlight
<1>3. PipelineTypes
  BY <1>1
  DEF Init, PipelineTypes, Requests, Claims, NoClaim, Jobs, IndexEntry, NewJob, NewRequest, JobStatus, Stage,
      RequestPc, TaskPc
<1>4. RequestsBound
  BY <1>1 DEF Init, RequestsBound, NewRequest, RequestInFlight
<1>5. JobsBound
  BY <1>1 DEF Init, JobsBound, NewJob, TaskRunning, Pipeline, InsideTry
<1>6. UsedJobs = {}
  BY <1>1 DEF Init, UsedJobs, NewJob
<1>7. QED
  BY <1>2, <1>3, <1>4, <1>5, <1>6, FS_EmptySet, TypeInvParts

LEMMA TypeInvInductive == TypeInv /\ [Next]_vars => TypeInv'
<1>1. SUFFICES ASSUME TypeInv, [Next]_vars PROVE TypeInv'
  OBVIOUS
<1>2. ASSUME NEW r \in Request, RequestStep(r) PROVE TypeInv'
  BY <1>1, <1>2, RequestTypes
<1>3. ASSUME NEW j \in Job, TaskStep(j) PROVE TypeInv'
  BY <1>1, <1>3, TaskTypes
<1>4. ASSUME NEW u \in Uploader, Upload(u) PROVE TypeInv'
  BY <1>1, <1>4, UploadKeepsTypes
<1>5. ASSUME NEW x \in Deleter, Delete(x) PROVE TypeInv'
  BY <1>1, <1>5, DeleteKeepsTypes
<1>6. CASE Crash
  BY <1>1, <1>6, CrashKeepsTypes
<1>7. CASE UNCHANGED vars
  <2>1. StoreInv /\ PipelineTypes
    BY <1>1, TypeInvParts
  <2>2. StoreInv'
    BY <1>7, <2>1, StoreInvUnchanged DEF vars
  <2>3. PipelineTypes'
    BY <1>7, <2>1 DEF PipelineTypes, vars
  <2>4. QED
    BY <1>1, <1>7, <2>2, <2>3, NothingNew DEF vars
<1>8. QED
  BY <1>1, <1>2, <1>3, <1>4, <1>5, <1>6, <1>7 DEF Next

\* The tables, the graph, the tasks and the requests keep their types, whatever
\* calls fail and however often the process restarts.
THEOREM TypeCorrect == Spec => []TypeOK
<1>1. TypeInv => TypeOK
  BY DEF TypeInv
<1>2. QED
  BY <1>1, InitTypes, TypeInvInductive, PTL DEF Spec

-----------------------------------------------------------------------------
(* One run at a time.  What makes it true is spread over both modules: ids   *)
(* are never reused, a row goes with its document and never comes back, the  *)
(* index allows one active job, and only a running job has a run.            *)

\* An upload that has its id and has not tried to record it yet.
Unrecorded(u) == uploads[u].pc \in {"write", "insert"}

\* The id of an upload is its own, and no row has it before the insert.
UploadsFresh ==
  /\ \A u \in Uploader : Unrecorded(u) =>
       uploads[u].document \in minted /\ ~Recorded(uploads[u].document)
  /\ \A u, v \in Uploader : u # v /\ Unrecorded(u) /\ Unrecorded(v) =>
       uploads[u].document # uploads[v].document
  /\ \A d \in Document : Recorded(d) => d \in minted

\* A job refers to a row that is there, until it goes with it for good.
JobsPlaced ==
  \A j \in Job :
    /\ job[j].status # "unused" =>
         /\ job[j].document \in minted
         /\ \A u \in Uploader : Unrecorded(u) => uploads[u].document # job[j].document
    /\ Exists(j) => Recorded(job[j].document)
    /\ job[j].status = "gone" => ~Recorded(job[j].document)

\* The partial unique index.
OneActive ==
  \A j, k \in Job : j # k /\ Active(j) /\ Active(k) => job[j].document # job[k].document

RunsStarted ==
  \A j \in Job : task[j] \in Pipeline => job[j].status \in {"running", "gone"}

RunInv ==
  /\ UploadsFresh
  /\ JobsPlaced
  /\ OneActive
  /\ RunsStarted
  /\ RunsNeverOverlap

\* All steps but three: no id is minted or recorded, no job becomes active.
LEMMA RunFrame ==
  ASSUME RunInv, TypeInv, TypeInv',
         minted' = minted,
         \A u \in Uploader : Unrecorded(u)' =>
           Unrecorded(u) /\ uploads'[u].document = uploads[u].document,
         \A d \in Document : status'[d] # "absent" => status[d] # "absent",
         \A k \in Job :
           /\ job'[k].document = job[k].document
           /\ Active(k)' => Active(k)
           /\ job'[k].status = "unused" <=> job[k].status = "unused"
           /\ Exists(k)' => Recorded(job[k].document)'
           /\ job'[k].status = "gone" =>
                job[k].status = "gone" \/ ~Recorded(job[k].document)'
           /\ task'[k] \in Pipeline =>
                /\ job'[k].status \in {"running", "gone"}
                /\ task[k] \in Pipeline \/ Active(k)
  PROVE  RunInv'
<1>. USE DEF RunInv
<1>0. /\ \A u \in Uploader : Unrecorded(u) => uploads[u].document \in Document
      /\ \A k \in Job : job[k].status # "unused" => job[k].document \in Document
  BY TypeInvParts DEF StoreInv, StoreCallsBound, JobsBound, Unrecorded
<1>1. UploadsFresh'
  BY <1>0 DEF UploadsFresh, Recorded
<1>2. JobsPlaced'
  <2>1. SUFFICES ASSUME NEW k \in Job
                 PROVE  /\ job'[k].status # "unused" =>
                             /\ job'[k].document \in minted'
                             /\ \A u \in Uploader : Unrecorded(u)' =>
                                  uploads'[u].document # job'[k].document
                        /\ Exists(k)' => Recorded(job[k].document)'
                        /\ job'[k].status = "gone" => ~Recorded(job[k].document)'
    BY DEF JobsPlaced
  <2>2. /\ job'[k].document = job[k].document
        /\ job[k].status = "gone" => ~Recorded(job[k].document)
    BY DEF JobsPlaced
  <2>3. job'[k].status = "gone" => ~Recorded(job[k].document)'
    BY <1>0, <2>2 DEF Recorded
  <2>4. job'[k].status # "unused" =>
          /\ job'[k].document \in minted'
          /\ \A u \in Uploader : Unrecorded(u)' =>
               uploads'[u].document # job'[k].document
    BY <2>2 DEF JobsPlaced
  <2>5. QED
    BY <2>3, <2>4
<1>3. OneActive'
  BY DEF OneActive
<1>4. RunsStarted'
  BY DEF RunsStarted
<1>5. RunsNeverOverlap'
  <2>1. SUFFICES ASSUME NEW j \in Job, NEW k \in Job, j # k,
                        task'[j] \in Pipeline, task'[k] \in Pipeline
                 PROVE  job[j].document # job[k].document
    BY DEF RunsNeverOverlap
  <2>2. /\ task[j] \in Pipeline \/ Active(j)
        /\ task[k] \in Pipeline \/ Active(k)
    BY <2>1
  <2>3. \A i \in Job : task[i] \in Pipeline => Active(i) \/ job[i].status = "gone"
    BY DEF RunsStarted, Active, ActiveStatus
  <2>4. \A i \in Job : Active(i) => Recorded(job[i].document)
    BY DEF JobsPlaced, Active, Exists
  <2>5. \A i \in Job : job[i].status = "gone" => ~Recorded(job[i].document)
    BY DEF JobsPlaced
  <2>6. CASE task[j] \in Pipeline /\ task[k] \in Pipeline
    BY <2>1, <2>6 DEF RunsNeverOverlap
  <2>7. CASE Active(j) /\ Active(k)
    BY <2>1, <2>7 DEF OneActive
  <2>8. QED
    BY <2>2, <2>3, <2>4, <2>5, <2>6, <2>7
<1>6. QED
  BY <1>1, <1>2, <1>3, <1>4, <1>5

\* Steps that leave the rows of documents and the uploads alone.
LEMMA RunSteps ==
  ASSUME RunInv, TypeInv, TypeInv',
         UNCHANGED <<minted, uploads>>,
         \A d \in Document : status'[d] # "absent" <=> status[d] # "absent",
         \A k \in Job :
           /\ job'[k].document = job[k].document
           /\ \/ job'[k].status = job[k].status
              \/ Active(k) /\ job'[k].status \in TerminalStatus
              \/ Active(k) /\ job'[k].status = "running"
           /\ task'[k] \in Pipeline =>
                /\ job'[k].status \in {"running", "gone"}
                /\ task[k] \in Pipeline \/ Active(k)
  PROVE  RunInv'
<1>1. \A k \in Job :
        /\ Active(k)' => Active(k)
        /\ job'[k].status = "unused" <=> job[k].status = "unused"
        /\ Exists(k)' => Exists(k)
        /\ job'[k].status = "gone" => job[k].status = "gone"
  BY DEF Active, ActiveStatus, TerminalStatus, Exists
<1>2. ASSUME NEW k \in Job, Exists(k)' PROVE Recorded(job[k].document)'
  <2>1. Exists(k) /\ job'[k].document = job[k].document
    BY <1>1, <1>2
  <2>2. Recorded(job[k].document) /\ job[k].document \in Document
    BY <2>1, TypeInvParts
    DEF RunInv, JobsPlaced, JobsBound, Exists, ActiveStatus, TerminalStatus
  <2>3. QED
    BY <2>1, <2>2 DEF Recorded
<1>3. \A u \in Uploader : Unrecorded(u)' =>
        Unrecorded(u) /\ uploads'[u].document = uploads[u].document
  BY DEF Unrecorded
<1>4. QED
  BY <1>1, <1>2, <1>3, RunFrame

LEMMA ClaimRuns ==
  ASSUME RunInv, TypeInv, TypeInv', NEW r \in Request, Claim(r)
  PROVE  RunInv'
<1>. DEFINE d == request[r].document
<1>1. PipelineTypes /\ RequestsBound /\ JobsBound
  BY TypeInvParts
<1>2. d \in Document
  BY <1>1 DEF Claim, RequestsBound, RequestInFlight
<1>3. UNCHANGED <<status, minted, uploads, task>>
  BY DEF Claim, storeVars
<1>4. CASE job' = job
  BY <1>3, <1>4, RunSteps DEF RunInv, RunsStarted
<1>5. ASSUME NEW j \in Job, job[j].status = "unused", Recorded(d), ActiveJobs(d) = {},
             job' = [job EXCEPT ![j] = QueuedJob(r)]
      PROVE  RunInv'
  <2>. USE DEF RunInv
  <2>1. /\ job'[j].status = "queued" /\ job'[j].document = d
        /\ \A k \in Job \ {j} : job'[k] = job[k]
    BY <1>2, <1>5, ClaimedTypes
  <2>2. UploadsFresh'
    BY <1>3 DEF UploadsFresh, Unrecorded, Recorded
  <2>3. JobsPlaced'
    BY <1>2, <1>3, <1>5, <2>1
    DEF JobsPlaced, UploadsFresh, Unrecorded, Recorded, Exists, ActiveStatus
  <2>4. OneActive'
    <3>1. \A k \in Job : Active(k) => job[k].document # d
      BY <1>5 DEF ActiveJobs, JobsOf, Active, Exists
    <3>2. QED
      BY <2>1, <3>1 DEF OneActive, Active
  <2>5. task[j] \notin Pipeline
    BY <1>1, <1>5 DEF JobsBound, TaskRunning
  <2>6. RunsStarted' /\ RunsNeverOverlap'
    BY <1>3, <2>1, <2>5 DEF RunsStarted, RunsNeverOverlap
  <2>7. QED
    BY <2>2, <2>3, <2>4, <2>6
<1>6. QED
  BY <1>4, <1>5 DEF Claim, Fresh

LEMMA RequestRuns ==
  ASSUME RunInv, TypeInv, TypeInv', NEW r \in Request, RequestStep(r)
  PROVE  RunInv'
<1>1. CASE Claim(r)
  BY <1>1, ClaimRuns
<1>2. CASE Submit(r)
  <2>1. \A k \in Job : task'[k] \in Pipeline => task[k] \in Pipeline
    BY <1>2, TypeInvParts DEF Submit, PipelineTypes, Pipeline, InsideTry
  <2>2. QED
    BY <1>2, <2>1, RunSteps DEF Submit, storeVars, RunInv, RunsStarted
<1>3. CASE UNCHANGED <<status, minted, uploads, job, task>>
  BY <1>3, RunSteps DEF RunInv, RunsStarted
<1>4. QED
  BY <1>1, <1>2, <1>3
  DEF RequestStep, RequestProcessing, BeginClaim, JoinActive, JoinLatest, storeVars

\* A run stays in its pipeline, or leaves it, whatever its call answers.
LEMMA ProceedInPipeline ==
  ASSUME NEW j \in Job, NEW answer, NEW next, task \in [Job -> TaskPc],
         Proceed(j, answer, next)
  PROVE  /\ \A k \in Job \ {j} : task'[k] = task[k]
         /\ task'[j] \in Pipeline => next \in Pipeline \/ task[j] \in InsideTry
<1>1. task'[j] = IF answer = "ok" THEN next ELSE Raised(j)
  BY DEF Proceed
<1>2. task[j] \notin InsideTry => Raised(j) \notin Pipeline
  BY DEF Raised, Pipeline, InsideTry
<1>3. QED
  BY <1>1, <1>2 DEF Proceed

\* The steps of a run that leave its job running.
LEMMA PipelineSteps ==
  ASSUME RunInv, TypeInv, TypeInv', NEW j \in Job, NEW answer, NEW next,
         Proceed(j, answer, next),
         task[j] \in Pipeline \/ (task[j] \notin InsideTry /\ next \notin Pipeline),
         UNCHANGED <<minted, uploads>>,
         \A d \in Document : status'[d] # "absent" <=> status[d] # "absent",
         \A k \in Job : /\ job'[k].document = job[k].document
                        /\ job'[k].status = job[k].status
  PROVE  RunInv'
<1>1. \A k \in Job : task'[k] \in Pipeline => task[k] \in Pipeline
  <2>1. task \in [Job -> TaskPc]
    BY TypeInvParts DEF PipelineTypes
  <2>2. QED
    BY <2>1, ProceedInPipeline
<1>2. QED
  BY <1>1, RunSteps DEF RunInv, RunsStarted

LEMMA TaskRuns ==
  ASSUME RunInv, TypeInv, TypeInv', NEW j \in Job, TaskStep(j)
  PROVE  RunInv'
<1>1. /\ task \in [Job -> TaskPc] /\ job \in [Job -> Jobs]
      /\ status \in [Document -> DocumentStatus \cup {"absent"}]
  BY TypeInvParts DEF PipelineTypes, StoreInv, StoreTypeOK
<1>2. CASE StartJob(j)
  <2>. DEFINE next == IF job[j].status = "queued" THEN "lookup" ELSE "done"
  <2>1. PICK answer : Proceed(j, answer, next)
    BY <1>2 DEF StartJob
  <2>2. task[j] \notin InsideTry
    BY <1>2 DEF StartJob, InsideTry
  <2>3. CASE job[j].status = "queued"
    <3>1. job' = job \/ job' = [job EXCEPT ![j].status = "running", ![j].stage = "upload"]
      BY <1>2, <2>3 DEF StartJob
    <3>2. /\ job'[j].document = job[j].document
          /\ job'[j].status = job[j].status \/ job'[j].status = "running"
          /\ \A k \in Job \ {j} : job'[k] = job[k]
      BY <1>1, <3>1 DEF Jobs
    <3>3. Active(j)
      BY <2>3 DEF Active, ActiveStatus
    <3>4. task'[j] \in Pipeline => job'[j].status = "running"
      BY <1>1, <1>2, <2>2, <2>3 DEF StartJob, Proceed, Raised, TookEffect, Pipeline, InsideTry, Jobs
    <3>5. \A k \in Job \ {j} : task'[k] = task[k]
      BY <1>1, <2>1, ProceedInPipeline
    <3>6. QED
      BY <1>2, <3>2, <3>3, <3>4, <3>5, RunSteps DEF StartJob, storeVars, RunInv, RunsStarted
  <2>4. CASE job[j].status # "queued"
    <3>1. job' = job
      BY <1>2, <2>4 DEF StartJob
    <3>2. next \notin Pipeline
      BY <2>4 DEF Pipeline, InsideTry
    <3>3. QED
      BY <1>2, <2>1, <2>2, <3>1, <3>2, PipelineSteps DEF StartJob, storeVars
  <2>5. QED
    BY <2>3, <2>4
<1>3. ASSUME NEW outcome \in TerminalStatus, NEW next, NEW answer, next \notin Pipeline,
             job' = Finished(j, outcome) \/ job' = job,
             task[j] \notin InsideTry,
             Proceed(j, answer, next), UNCHANGED storeVars
      PROVE  RunInv'
  <2>1. /\ \A k \in Job : job'[k].document = job[k].document
        /\ job'[j].status = job[j].status \/ (Active(j) /\ job'[j].status \in TerminalStatus)
        /\ \A k \in Job \ {j} : job'[k] = job[k]
    BY <1>1, <1>3 DEF Finished, Jobs
  <2>2. \A k \in Job \ {j} : task'[k] = task[k]
    BY <1>1, <1>3, ProceedInPipeline
  <2>3. task'[j] \notin Pipeline
    BY <1>1, <1>3, ProceedInPipeline
  <2>4. QED
    BY <1>3, <2>1, <2>2, <2>3, RunSteps DEF storeVars, RunInv, RunsStarted
<1>4. ASSUME NEW at, NEW s \in DocumentStatus, NEW next, SetDocument(j, at, s, next),
             at \in Pipeline \/ next \notin Pipeline, at \notin InsideTry
      PROVE  RunInv'
  <2>1. PICK answer : Proceed(j, answer, next)
    BY <1>4 DEF SetDocument
  <2>2. \A d \in Document : status'[d] # "absent" <=> status[d] # "absent"
    BY <1>1, <1>4 DEF SetDocument, StatusSet, Recorded, DocumentStatus
  <2>3. QED
    BY <1>4, <2>1, <2>2, PipelineSteps DEF SetDocument
<1>5. ASSUME NEW at \in Pipeline, NEW next, Advance(j, at, next) PROVE RunInv'
  <2>1. \A k \in Job : job'[k].document = job[k].document /\ job'[k].status = job[k].status
    BY <1>1, <1>5 DEF Advance, Advanced, Jobs
  <2>2. QED
    BY <1>5, <2>1, PipelineSteps DEF Advance, storeVars
<1>6. ASSUME NEW answer, NEW next, Proceed(j, answer, next), UNCHANGED <<storeVars, job>>,
             task[j] \in Pipeline
      PROVE  RunInv'
  BY <1>6, PipelineSteps DEF storeVars
<1>7. CASE Cancel(j)
  BY <1>3, <1>7 DEF Cancel, Pipeline, InsideTry, TerminalStatus
<1>8. CASE Succeed(j) \/ Fail(j)
  BY <1>3, <1>8 DEF Succeed, Fail, Finish, Pipeline, InsideTry, TerminalStatus
<1>9. CASE MarkProcessing(j) \/ MarkReady(j) \/ MarkFailed(j)
  BY <1>4, <1>9
  DEF MarkProcessing, MarkReady, MarkFailed, Pipeline, InsideTry, DocumentStatus
<1>10. CASE Extract(j) \/ Clean(j) \/ Split(j) \/ Persist(j) \/ Embed(j) \/ Index(j)
  BY <1>5, <1>10 DEF Extract, Clean, Split, Persist, Embed, Index, Pipeline, InsideTry
<1>11. CASE LookUp(j) \/ Download(j) \/ ReplaceChunks(j) \/ EmbedTexts(j)
  BY <1>6, <1>11 DEF LookUp, Download, ReplaceChunks, EmbedTexts, Pipeline, InsideTry
<1>12. CASE GraphNode(j) \/ GraphStale(j) \/ GraphUpsert(j)
  BY <1>6, <1>12 DEF GraphNode, GraphStale, GraphUpsert, Pipeline, InsideTry
<1>13. QED
  BY <1>2, <1>7, <1>8, <1>9, <1>10, <1>11, <1>12 DEF TaskStep

LEMMA UploadRuns ==
  ASSUME RunInv, TypeInv, TypeInv', NEW u \in Uploader, Upload(u)
  PROVE  RunInv'
<1>. USE DEF Upload, Unrecorded
<1>1. /\ uploads \in [Uploader -> [pc : UploadPc, content : Content \cup {NoContent},
                                  document : Document \cup {NoDocument}]]
      /\ status \in [Document -> DocumentStatus \cup {"absent"}]
      /\ Unrecorded(u) => uploads[u].document \in Document
      /\ \A k \in Job : job[k].status # "unused" => job[k].document \in Document
  BY TypeInvParts DEF StoreInv, StoreTypeOK, StoreCallsBound, JobsBound
<1>2. UNCHANGED <<job, task>>
  OBVIOUS
<1>3. CASE /\ UNCHANGED <<status, minted>>
           /\ \A v \in Uploader : Unrecorded(v)' =>
                Unrecorded(v) /\ uploads'[v].document = uploads[v].document
  <2>1. \A k \in Job :
          /\ Active(k)' = Active(k) /\ Exists(k)' = Exists(k)
          /\ Recorded(job[k].document)' = Recorded(job[k].document)
    BY <1>2, <1>3 DEF Active, Exists, Recorded
  <2>2. QED
    BY <1>2, <1>3, <2>1, RunFrame DEF RunInv, RunsStarted, JobsPlaced
<1>4. ASSUME NEW c \in Content, BeginUpload(u, c) PROVE RunInv'
  BY <1>1, <1>3, <1>4 DEF BeginUpload
<1>5. CASE WriteObject(u) \/ Compensate(u)
  BY <1>1, <1>3, <1>5 DEF WriteObject, Compensate
<1>6. CASE FindByChecksum(u)
  <2>1. CASE minted' = minted /\ \E p \in {"error", "duplicate"} :
               uploads' = [uploads EXCEPT ![u].pc = p]
    BY <1>1, <1>3, <1>6, <2>1 DEF FindByChecksum
  <2>2. ASSUME NEW d \in Document \ minted, minted' = minted \cup {d},
               uploads' = [uploads EXCEPT ![u].pc = "write", ![u].document = d]
        PROVE  RunInv'
    <3>. USE DEF RunInv
    <3>1. /\ uploads'[u].document = d
          /\ \A v \in Uploader \ {u} : uploads'[v] = uploads[v]
      BY <1>1, <2>2
    <3>2. status' = status
      BY <1>6 DEF FindByChecksum
    <3>3. ~Recorded(d)
      BY <2>2 DEF UploadsFresh
    <3>4. UploadsFresh'
      <4>1. ASSUME NEW v \in Uploader, Unrecorded(v)'
            PROVE  /\ uploads'[v].document \in minted'
                   /\ ~Recorded(uploads[v].document)'
                   /\ v # u => /\ uploads'[v].document = uploads[v].document
                               /\ uploads'[v].document # d
        <5>1. CASE v = u
          BY <2>2, <3>1, <3>2, <3>3, <5>1 DEF Recorded
        <5>2. CASE v # u
          <6>1. uploads'[v] = uploads[v] /\ Unrecorded(v)
            BY <3>1, <4>1, <5>2
          <6>2. uploads[v].document \in minted /\ ~Recorded(uploads[v].document)
            BY <6>1 DEF UploadsFresh
          <6>3. QED
            BY <2>2, <3>2, <5>2, <6>1, <6>2 DEF Recorded
        <5>3. QED
          BY <5>1, <5>2
      <4>2. ASSUME NEW v \in Uploader, NEW w \in Uploader, v # w,
                   Unrecorded(v)', Unrecorded(w)'
            PROVE  uploads'[v].document # uploads'[w].document
        <5>1. CASE v = u \/ w = u
          BY <3>1, <4>1, <4>2, <5>1
        <5>2. CASE v # u /\ w # u
          BY <3>1, <4>2, <5>2 DEF UploadsFresh
        <5>3. QED
          BY <5>1, <5>2
      <4>3. QED
        BY <2>2, <3>2, <4>1, <4>2 DEF UploadsFresh, Recorded
    <3>5. JobsPlaced'
      <4>1. ASSUME NEW k \in Job, job[k].status # "unused"
            PROVE  /\ job[k].document \in minted'
                   /\ \A v \in Uploader : Unrecorded(v)' =>
                        uploads'[v].document # job[k].document
        BY <2>2, <3>1, <4>1 DEF JobsPlaced
      <4>2. QED
        BY <1>2, <3>2, <4>1 DEF JobsPlaced, Recorded, Exists
    <3>6. OneActive' /\ RunsStarted' /\ RunsNeverOverlap'
      BY <1>2 DEF OneActive, RunsStarted, RunsNeverOverlap, Active
    <3>7. QED
      BY <3>4, <3>5, <3>6
  <2>3. QED
    BY <1>6, <2>1, <2>2 DEF FindByChecksum
<1>7. CASE CreateRow(u)
  <2>. DEFINE d == uploads[u].document
  <2>. USE DEF RunInv
  <2>1. minted' = minted /\ (status' = status \/ status' = [status EXCEPT ![d] = "uploaded"])
    BY <1>7 DEF CreateRow
  <2>2. /\ Unrecorded(u) /\ d \in minted /\ d \in Document
        /\ \A v \in Uploader \ {u} : Unrecorded(v) => uploads[v].document # d
        /\ \A k \in Job : job[k].status # "unused" => job[k].document # d
    BY <1>1, <1>7 DEF CreateRow, UploadsFresh, JobsPlaced
  <2>3. /\ ~Unrecorded(u)'
        /\ \A v \in Uploader \ {u} : uploads'[v] = uploads[v]
    BY <1>1, <1>7 DEF CreateRow
  <2>4. \A e \in Document \ {d} : status'[e] = status[e]
    BY <1>1, <2>1
  <2>5. UploadsFresh'
    <3>1. ASSUME NEW v \in Uploader, Unrecorded(v)'
          PROVE  v # u /\ Unrecorded(v) /\ uploads'[v] = uploads[v]
      BY <2>3, <3>1
    <3>2. \A v \in Uploader : Unrecorded(v) => uploads[v].document \in Document
      BY TypeInvParts DEF StoreInv, StoreCallsBound
    <3>3. ASSUME NEW v \in Uploader, Unrecorded(v)'
          PROVE  uploads'[v].document \in minted /\ ~Recorded(uploads[v].document)'
      BY <2>2, <2>4, <3>1, <3>2, <3>3 DEF UploadsFresh, Recorded
    <3>4. ASSUME NEW e \in Document, Recorded(e)' PROVE e \in minted
      BY <2>2, <2>4, <3>4 DEF UploadsFresh, Recorded
    <3>5. ASSUME NEW v \in Uploader, NEW w \in Uploader, v # w,
                 Unrecorded(v)', Unrecorded(w)'
          PROVE  uploads'[v].document # uploads'[w].document
      BY <3>1, <3>5 DEF UploadsFresh
    <3>6. QED
      BY <2>1, <3>3, <3>4, <3>5 DEF UploadsFresh
  <2>6. JobsPlaced'
    <3>1. ASSUME NEW k \in Job, job[k].status # "unused"
          PROVE  /\ status'[job[k].document] = status[job[k].document]
                 /\ \A v \in Uploader : Unrecorded(v)' =>
                      uploads'[v].document # job[k].document
      BY <1>1, <2>2, <2>3, <2>4, <3>1 DEF JobsPlaced
    <3>2. \A k \in Job : Exists(k) => job[k].status # "unused"
      BY DEF Exists, ActiveStatus, TerminalStatus
    <3>3. QED
      BY <1>2, <2>1, <3>1, <3>2 DEF JobsPlaced, Recorded, Exists
  <2>7. OneActive' /\ RunsStarted' /\ RunsNeverOverlap'
    BY <1>2 DEF OneActive, RunsStarted, RunsNeverOverlap, Active
  <2>8. QED
    BY <2>5, <2>6, <2>7
<1>8. QED
  BY <1>4, <1>5, <1>6, <1>7 DEF UploadStep

LEMMA DeleteRuns ==
  ASSUME RunInv, TypeInv, TypeInv', NEW x \in Deleter, Delete(x)
  PROVE  RunInv'
<1>1. /\ PipelineTypes
      /\ status \in [Document -> DocumentStatus \cup {"absent"}]
      /\ \A k \in Job : job[k].status # "unused" => job[k].document \in Document
  BY TypeInvParts DEF StoreInv, StoreTypeOK, JobsBound
<1>2. UNCHANGED <<minted, uploads, task>>
  BY DEF Delete, DeleteStep, BeginDelete, RemoveObject, RemoveRow
<1>3. status' = status \/ \E d : status' = [status EXCEPT ![d] = "absent"]
  BY DEF Delete, DeleteStep, BeginDelete, RemoveObject, RemoveRow, RowRemoved
<1>4. \A d \in Document : status'[d] # "absent" => status[d] # "absent"
  BY <1>1, <1>3
<1>5. ASSUME NEW k \in Job
      PROVE  /\ job'[k].document = job[k].document
             /\ job'[k].status = "unused" <=> job[k].status = "unused"
             /\ \/ /\ job'[k] = job[k]
                   /\ Exists(k) => status'[job[k].document] # "absent"
                \/ /\ Exists(k)
                   /\ status'[job[k].document] = "absent"
                   /\ job'[k].status = "gone"
  <2>1. job[k] \in Jobs
    BY <1>1 DEF PipelineTypes
  <2>2. CASE Exists(k) /\ status'[job[k].document] = "absent"
    <3>1. job'[k] = [job[k] EXCEPT !.status = "gone"]
      BY <2>2 DEF Delete, Cascade
    <3>2. QED
      BY <1>1, <2>1, <2>2, <3>1, CascadeTypes DEF Delete, Jobs
  <2>3. CASE ~(Exists(k) /\ status'[job[k].document] = "absent")
    BY <2>3 DEF Delete, Cascade
  <2>4. QED
    BY <2>2, <2>3
<1>6. ASSUME NEW k \in Job
      PROVE  /\ Active(k)' => Active(k)
             /\ Exists(k)' => Recorded(job[k].document)'
             /\ job'[k].status = "gone" =>
                  job[k].status = "gone" \/ ~Recorded(job[k].document)'
             /\ task'[k] \in Pipeline =>
                  /\ job'[k].status \in {"running", "gone"}
                  /\ task[k] \in Pipeline \/ Active(k)
  BY <1>2, <1>5 DEF Active, Exists, ActiveStatus, TerminalStatus, Recorded, RunInv, RunsStarted
<1>7. \A u \in Uploader : Unrecorded(u)' =>
        Unrecorded(u) /\ uploads'[u].document = uploads[u].document
  BY <1>2 DEF Unrecorded
<1>8. QED
  BY <1>2, <1>4, <1>5, <1>6, <1>7, RunFrame

LEMMA CrashRuns ==
  ASSUME RunInv, TypeInv, TypeInv', Crash
  PROVE  RunInv'
<1>1. UNCHANGED <<status, minted, job>>
  BY DEF Crash, CrashStore
<1>2. \A u \in Uploader : Unrecorded(u)' =>
        Unrecorded(u) /\ uploads'[u].document = uploads[u].document
  <2>1. CrashStore
    BY DEF Crash
  <2>2. QED
    BY <2>1 DEF CrashStore, Unrecorded, UploadInFlight
<1>3. \A k \in Job : task'[k] \notin Pipeline
  BY DEF Crash, TaskRunning, Pipeline, InsideTry
<1>4. \A k \in Job :
        /\ Active(k)' = Active(k) /\ Exists(k)' = Exists(k)
        /\ Recorded(job[k].document)' = Recorded(job[k].document)
  BY <1>1 DEF Active, Exists, Recorded
<1>5. QED
  BY <1>1, <1>2, <1>3, <1>4, RunFrame DEF RunInv, JobsPlaced

LEMMA InitRuns == Init => RunInv
BY DEF Init, StoreInit, RunInv, UploadsFresh, JobsPlaced, OneActive, RunsStarted,
       RunsNeverOverlap, NewJob, NewUpload, Unrecorded, Recorded, Exists, Active,
       ActiveStatus, TerminalStatus, Pipeline, InsideTry

LEMMA RunInvInductive == TypeInv /\ TypeInv' /\ RunInv /\ [Next]_vars => RunInv'
<1>1. SUFFICES ASSUME TypeInv, TypeInv', RunInv, [Next]_vars PROVE RunInv'
  OBVIOUS
<1>2. ASSUME NEW r \in Request, RequestStep(r) PROVE RunInv'
  BY <1>1, <1>2, RequestRuns
<1>3. ASSUME NEW j \in Job, TaskStep(j) PROVE RunInv'
  BY <1>1, <1>3, TaskRuns
<1>4. ASSUME NEW u \in Uploader, Upload(u) PROVE RunInv'
  BY <1>1, <1>4, UploadRuns
<1>5. ASSUME NEW x \in Deleter, Delete(x) PROVE RunInv'
  BY <1>1, <1>5, DeleteRuns
<1>6. CASE Crash
  BY <1>1, <1>6, CrashRuns
<1>7. CASE UNCHANGED vars
  BY <1>1, <1>7, RunSteps DEF vars, storeVars, RunInv, RunsStarted
<1>8. QED
  BY <1>1, <1>2, <1>3, <1>4, <1>5, <1>6, <1>7 DEF Next

\* No two runs over one document are ever between start and end of their jobs,
\* for any number of requests, jobs, failures, restarts, uploads and deletes:
\* the index that allows one active job per document is enough, although a
\* deleted row frees the index while its run is still going.
THEOREM OneRunAtATime == Spec => []RunsNeverOverlap
<1>1. TypeInv /\ RunInv /\ [Next]_vars => (TypeInv /\ RunInv)'
  BY TypeInvInductive, RunInvInductive
<1>2. RunInv => RunsNeverOverlap
  BY DEF RunInv
<1>3. QED
  BY <1>1, <1>2, InitTypes, InitRuns, PTL DEF Spec

-----------------------------------------------------------------------------
(* The store under the pipeline.  A run writes the status of a document and *)
(* nothing else of the store, and never whether there is a row; all other   *)
(* steps are steps of the store or leave it alone.                          *)

StatusMoves ==
  /\ UNCHANGED <<checksum, objects, minted, uploads, deletes, boot>>
  /\ \A d \in Document : Recorded(d)' <=> Recorded(d)

LEMMA StoreUnderPipeline ==
  ASSUME TypeInv, [Next]_vars
  PROVE  [StoreNext]_storeVars \/ StatusMoves
<1>1. ASSUME NEW r \in Request, RequestStep(r) PROVE UNCHANGED storeVars
  BY <1>1 DEF RequestStep, RequestProcessing, BeginClaim, Claim, JoinActive, JoinLatest, Submit
<1>2. ASSUME NEW j \in Job, NEW at, NEW s \in DocumentStatus, NEW next, SetDocument(j, at, s, next)
      PROVE  StatusMoves
  <2>1. status' = StatusSet(job[j].document, s) \/ status' = status
    BY <1>2 DEF SetDocument
  <2>2. \A d \in Document : Recorded(d)' <=> Recorded(d)
    BY <2>1 DEF StatusSet, Recorded, TypeInv, TypeOK, StoreTypeOK, DocumentStatus
  <2>3. QED
    BY <1>2, <2>2 DEF SetDocument, StatusMoves
<1>3. ASSUME NEW j \in Job, TaskStep(j) PROVE UNCHANGED storeVars \/ StatusMoves
  <2>1. CASE MarkProcessing(j) \/ MarkReady(j) \/ MarkFailed(j)
    BY <1>2, <2>1 DEF MarkProcessing, MarkReady, MarkFailed, DocumentStatus
  <2>2. CASE UNCHANGED storeVars
    BY <2>2
  <2>3. QED
    BY <1>3, <2>1, <2>2 DEF TaskStep, StartJob, LookUp, Cancel, Download, Extract, Clean, Split,
       Persist, Embed, Index, Advance, ReplaceChunks, EmbedTexts, GraphNode, GraphStale,
       GraphUpsert, Succeed, Fail, Finish
<1>4. CASE UNCHANGED vars
  BY <1>4 DEF vars, storeVars
<1>5. QED
  BY <1>1, <1>3, <1>4 DEF Next, Upload, Delete, Crash, StoreNext

LEMMA StoreInvUnderPipeline ==
  ASSUME TypeInv, TypeInv', [Next]_vars, OwnInv,
         UniqueContent, Accounted(NotCompleted)
  PROVE  OwnInv' /\ UniqueContent' /\ Accounted(NotCompleted)'
<1>1. CASE [StoreNext]_storeVars
  <2>1. Leaves(NotCompleted) /\ StoreInv
    BY DEF Leaves, OwnInv
  <2>2. QED
    BY <1>1, <2>1, OwnStep, UniqueStep, AccountedStep
<1>2. CASE StatusMoves
  <2>0. StoreInv' /\ objects \subseteq Document
    BY TypeInvParts DEF TypeInv, TypeOK, StoreTypeOK
  <2>1. CallsCarry' /\ IdsAreMinted' /\ IdsAreOwned'
    BY <1>2 DEF StatusMoves, OwnInv, CallsCarry, IdsAreMinted, IdsAreOwned
  <2>2. WritingIsNew'
    <3>1. \A u \in Uploader : uploads[u].pc \in {"write", "insert"} =>
            uploads[u].document \in Document
      BY DEF OwnInv, StoreInv, StoreCallsBound
    <3>2. QED
      BY <1>2, <3>1 DEF StatusMoves, OwnInv, WritingIsNew
  <2>3. UniqueContent'
    BY <1>2 DEF StatusMoves, UniqueContent
  <2>4. Accounted(NotCompleted)'
    BY <1>2, <2>0 DEF StatusMoves, Accounted, LeftBehind
  <2>5. QED
    BY <2>0, <2>1, <2>2, <2>3, <2>4 DEF OwnInv
<1>3. QED
  BY <1>1, <1>2, StoreUnderPipeline

LEMMA StoreOfSpec == Spec => [](TypeInv /\ OwnInv /\ UniqueContent /\ Accounted(NotCompleted))
<1>1. Init => TypeInv /\ OwnInv /\ UniqueContent /\ Accounted(NotCompleted)
  BY InitTypes, OwnInit, AccountedInit DEF Init, StoreInit, UniqueContent, Recorded
<1>2. TypeInv /\ OwnInv /\ UniqueContent /\ Accounted(NotCompleted) /\ [Next]_vars
        => (TypeInv /\ OwnInv /\ UniqueContent /\ Accounted(NotCompleted))'
  BY TypeInvInductive, StoreInvUnderPipeline
<1>3. QED
  BY <1>1, <1>2, PTL DEF Spec

\* The pipeline included: runs that write statuses, rows that go while they run
\* and whatever fails, a delete never leaves bytes that nothing accounts for.
THEOREM PipelineNeverOrphans == Spec => []RemovalNeverOrphans
<1>1. Accounted(NotCompleted) => RemovalNeverOrphans
  BY DEF Accounted, LeftBehind, RemovalNeverOrphans, NotCompleted, Unfinished
<1>2. QED
  BY <1>1, StoreOfSpec, PTL

-----------------------------------------------------------------------------
(* Ready documents.  That runs do not overlap is not what makes it true,    *)
(* since "ready" is written after the job has ended: it is that all runs of *)
(* one process write the same, that each first takes "ready" away, and that *)
(* a restart leaves no run behind.                                          *)

\* Both stores hold what this process makes of the document.
Full(d) ==
  /\ d \in nodes
  /\ chunks[d] = ChunksOf[boot]
  /\ indexed[d] = {[chunk |-> c, model |-> boot] : c \in ChunksOf[boot]}

Good(d) ==
  /\ d \in nodes
  /\ {n.chunk : n \in indexed[d]} = chunks[d]
  /\ \A m, n \in indexed[d] : m.model = n.model

Safe(d) == status[d] # "ready" \/ Full(d)
ChunksStored(d) == chunks[d] = ChunksOf[boot]
Within(d) == \A n \in indexed[d] : n.chunk \in ChunksOf[boot]

\* Where a run has stored its chunks.
HasStored == {"embed", "embedding", "index", "node", "stale", "upsert"}

\* What a run knows of its document at each place, while there is a row.
Progress(j) ==
  Recorded(job[j].document) =>
    /\ task[j] \in InsideTry => Safe(job[j].document)
    /\ task[j] \in HasStored => ChunksStored(job[j].document)
    /\ task[j] \in {"stale", "upsert"} => job[j].document \in nodes
    /\ task[j] = "upsert" => Within(job[j].document)
    /\ task[j] \in {"finish", "ready"} => Full(job[j].document)

ReadyInv == ReadyIsRetrievable /\ \A j \in Job : Progress(j)

\* A step over a document that takes nothing of this away from other runs.
Keeps(d) ==
  /\ Safe(d) => Safe(d)'
  /\ ChunksStored(d) => ChunksStored(d)'
  /\ d \in nodes => d \in nodes'
  /\ Within(d) => Within(d)'
  /\ Full(d) => Full(d)'

LEMMA ReadyMeansGood == ReadyIsRetrievable <=> \A d \in Document : status[d] = "ready" => Good(d)
BY DEF ReadyIsRetrievable, Good

LEMMA FullIsGood ==
  ASSUME NEW d
  PROVE  (Full(d) => Good(d)) /\ (Full(d)' => Good(d)')
<1>1. ASSUME Full(d) PROVE Good(d)
  <2>1. \A n \in indexed[d] : n.model = boot /\ n.chunk \in ChunksOf[boot]
    BY <1>1 DEF Full
  <2>2. ASSUME NEW c \in ChunksOf[boot] PROVE \E n \in indexed[d] : n.chunk = c
    <3>1. [chunk |-> c, model |-> boot] \in indexed[d]
      BY <1>1 DEF Full
    <3>2. [chunk |-> c, model |-> boot].chunk = c
      OBVIOUS
    <3>3. QED
      BY <3>1, <3>2
  <2>3. {n.chunk : n \in indexed[d]} = ChunksOf[boot]
    BY <2>1, <2>2
  <2>4. QED
    BY <1>1, <2>1, <2>3 DEF Full, Good
<1>2. ASSUME Full(d)' PROVE Good(d)'
  <2>1. \A n \in indexed'[d] : n.model = boot' /\ n.chunk \in ChunksOf[boot']
    BY <1>2 DEF Full
  <2>2. ASSUME NEW c \in ChunksOf[boot'] PROVE \E n \in indexed'[d] : n.chunk = c
    <3>1. [chunk |-> c, model |-> boot'] \in indexed'[d]
      BY <1>2 DEF Full
    <3>2. [chunk |-> c, model |-> boot'].chunk = c
      OBVIOUS
    <3>3. QED
      BY <3>1, <3>2
  <2>3. {n.chunk : n \in indexed'[d]} = ChunksOf[boot']
    BY <2>1, <2>2
  <2>4. QED
    BY <1>2, <2>1, <2>3 DEF Full, Good
<1>3. QED
  BY <1>1, <1>2

LEMMA ProgressKept ==
  ASSUME NEW j \in Job, Progress(j),
         task'[j] = task[j] \/ task'[j] \notin TaskRunning,
         job'[j].document = job[j].document,
         Recorded(job[j].document)' => Recorded(job[j].document) /\ Keeps(job[j].document)
  PROVE  Progress(j)'
<1>1. CASE task'[j] \notin TaskRunning
  BY <1>1 DEF Progress, TaskRunning, Pipeline, InsideTry, HasStored
<1>2. CASE task'[j] = task[j]
  BY <1>2 DEF Progress, Keeps, Safe, ChunksStored, Within, Full, Recorded
<1>3. QED
  BY <1>1, <1>2

LEMMA KeepsUnchanged ==
  ASSUME NEW d, status'[d] = status[d], UNCHANGED <<chunks, nodes, indexed, boot>>
  PROVE  Keeps(d)
BY DEF Keeps, Safe, ChunksStored, Within, Full

\* A run moves on, leaving the documents and the graph as they are.
LEMMA ReadyMoves ==
  ASSUME ReadyInv, NEW j \in Job, NEW answer, NEW next,
         task \in [Job -> TaskPc], Proceed(j, answer, next),
         \A k \in Job : job'[k].document = job[k].document,
         UNCHANGED <<status, chunks, nodes, indexed, boot>>,
         \A S \in {InsideTry, HasStored, {"stale", "upsert"}, {"upsert"}, {"finish", "ready"}} :
           task'[j] \in S => task[j] \in S
  PROVE  ReadyInv'
<1>1. \A d \in Document : Keeps(d)
  BY KeepsUnchanged
<1>2. \A k \in Job \ {j} : task'[k] = task[k]
  BY DEF Proceed
<1>3. \A k \in Job \ {j} : Progress(k)'
  BY <1>2 DEF ReadyInv, Progress, Recorded, Safe, ChunksStored, Within, Full
<1>4. Progress(j)'
  BY DEF ReadyInv, Progress, Recorded, Safe, ChunksStored, Within, Full
<1>5. ReadyIsRetrievable'
  BY DEF ReadyInv, ReadyIsRetrievable
<1>6. QED
  BY <1>3, <1>4, <1>5 DEF ReadyInv

\* A run writes to its document.
LEMMA ReadyWrites ==
  ASSUME ReadyInv, TypeInv, NEW j \in Job, task[j] \in TaskRunning,
         \A k \in Job \ {j} : task'[k] = task[k],
         UNCHANGED <<job, boot>>,
         \A e \in Document : Recorded(e)' => Recorded(e),
         \A e \in Document \ {job[j].document} :
           /\ status'[e] = status[e] /\ chunks'[e] = chunks[e] /\ indexed'[e] = indexed[e]
           /\ e \in nodes' <=> e \in nodes,
         Recorded(job[j].document) =>
           /\ Keeps(job[j].document)
           /\ Progress(j)'
           /\ status'[job[j].document] = "ready" => Good(job[j].document)'
  PROVE  ReadyInv'
<1>. DEFINE d == job[j].document
<1>1. \A e \in Document \ {d} : Keeps(e) /\ (Good(e) => Good(e)')
  BY DEF Keeps, Safe, ChunksStored, Within, Full, Good
<1>2. ASSUME NEW k \in Job, k # j PROVE Progress(k)'
  <2>1. CASE task[k] \notin TaskRunning
    BY <1>2, <2>1 DEF Progress, TaskRunning, Pipeline, InsideTry, HasStored
  <2>2. CASE task[k] \in TaskRunning
    <3>1. job[k].document \in Document
      BY <2>2 DEF TypeInv, JobsBound
    <3>2. Recorded(job[k].document)' => Recorded(job[k].document) /\ Keeps(job[k].document)
      BY <1>1, <3>1
    <3>3. Progress(k) /\ task'[k] = task[k] /\ job'[k].document = job[k].document
      BY <1>2 DEF ReadyInv
    <3>4. QED
      BY <3>2, <3>3, ProgressKept
  <2>3. QED
    BY <2>1, <2>2
<1>3. d \in Document
  BY DEF TypeInv, JobsBound
<1>4. Progress(j)'
  BY <1>3 DEF Progress
<1>5. ASSUME NEW e \in Document, status'[e] = "ready" PROVE Good(e)'
  <2>1. CASE e = d
    <3>1. Recorded(d)
      BY <1>5, <2>1 DEF Recorded
    <3>2. QED
      BY <1>5, <2>1, <3>1
  <2>2. CASE e # d
    <3>1. status[e] = "ready"
      BY <1>5, <2>2
    <3>2. Good(e)
      BY <3>1, ReadyMeansGood DEF ReadyInv
    <3>3. QED
      BY <1>1, <2>2, <3>2
  <2>3. QED
    BY <2>1, <2>2
<1>6. ReadyIsRetrievable'
  BY <1>5 DEF ReadyIsRetrievable, Good
<1>7. QED
  BY <1>2, <1>4, <1>6 DEF ReadyInv

\* Steps of a run that only move it on, or write to its job.
LEMMA ReadyOther ==
  ASSUME ReadyInv, TypeInv, NEW j \in Job,
         \/ StartJob(j) \/ LookUp(j) \/ Cancel(j) \/ Download(j) \/ Extract(j) \/ Clean(j)
         \/ Split(j) \/ Persist(j) \/ Embed(j) \/ EmbedTexts(j) \/ Index(j)
         \/ Succeed(j) \/ Fail(j)
  PROVE  ReadyInv'
<1>1. task \in [Job -> TaskPc] /\ job \in [Job -> Jobs]
  BY TypeInvParts DEF PipelineTypes
<1>2. UNCHANGED <<status, chunks, nodes, indexed, boot>>
  BY DEF StartJob, LookUp, Cancel, Download, Extract, Clean, Split, Persist, Embed, EmbedTexts,
     Index, Succeed, Fail, Advance, Finish, storeVars, tableVars, graphVars
<1>3. \A k \in Job : job'[k].document = job[k].document
  BY <1>1 DEF StartJob, LookUp, Cancel, Download, Extract, Clean, Split, Persist, Embed,
     EmbedTexts, Index, Succeed, Fail, Advance, Finish, Finished, Advanced, Jobs
<1>4. \E answer, next :
        /\ Proceed(j, answer, next)
        /\ \/ task[j] = "download" /\ next = "extract"
           \/ task[j] = "extract" /\ next = "clean"
           \/ task[j] = "clean" /\ next = "chunk"
           \/ task[j] = "chunk" /\ next = "persist"
           \/ task[j] = "persist" /\ next = "replace"
           \/ task[j] = "embed" /\ next = "embedding"
           \/ task[j] = "embedding" /\ next = "index"
           \/ task[j] = "index" /\ next = "node"
           \/ task[j] = "finish" /\ next = "ready"
           \/ task[j] \in {"start", "lookup", "cancel", "fail"}
              /\ next \in {"lookup", "done", "mark", "cancel", "failed"}
  BY DEF StartJob, LookUp, Cancel, Download, Extract, Clean, Split, Persist, Embed, EmbedTexts,
     Index, Succeed, Fail, Advance, Finish
<1>5. PICK answer, next :
        /\ Proceed(j, answer, next)
        /\ \/ task[j] = "download" /\ next = "extract"
           \/ task[j] = "extract" /\ next = "clean"
           \/ task[j] = "clean" /\ next = "chunk"
           \/ task[j] = "chunk" /\ next = "persist"
           \/ task[j] = "persist" /\ next = "replace"
           \/ task[j] = "embed" /\ next = "embedding"
           \/ task[j] = "embedding" /\ next = "index"
           \/ task[j] = "index" /\ next = "node"
           \/ task[j] = "finish" /\ next = "ready"
           \/ task[j] \in {"start", "lookup", "cancel", "fail"}
              /\ next \in {"lookup", "done", "mark", "cancel", "failed"}
  BY <1>4
<1>6. task'[j] = next \/ task'[j] \in {"fail", "dead"}
  BY <1>1, <1>5 DEF Proceed, Raised
<1>7. \A S \in {InsideTry, HasStored, {"stale", "upsert"}, {"upsert"}, {"finish", "ready"}} :
        task'[j] \in S => task[j] \in S
  BY <1>5, <1>6 DEF InsideTry, HasStored
<1>8. QED
  BY <1>1, <1>2, <1>3, <1>5, <1>7, ReadyMoves

LEMMA ReadyStatus ==
  ASSUME ReadyInv, TypeInv, NEW j \in Job, MarkProcessing(j) \/ MarkReady(j) \/ MarkFailed(j)
  PROVE  ReadyInv'
<1>. DEFINE d == job[j].document
<1>1. /\ task \in [Job -> TaskPc]
      /\ status \in [Document -> DocumentStatus \cup {"absent"}]
      /\ Progress(j)
  BY TypeInvParts DEF PipelineTypes, StoreInv, StoreTypeOK, ReadyInv
<1>2. PICK at, s, next :
        /\ SetDocument(j, at, s, next)
        /\ \/ at = "mark" /\ s = "processing" /\ next = "download"
           \/ at = "ready" /\ s = "ready" /\ next = "done"
           \/ at = "failed" /\ s = "failed" /\ next = "done"
  BY DEF MarkProcessing, MarkReady, MarkFailed
<1>3. /\ task[j] = at
      /\ UNCHANGED <<job, boot, chunks, nodes, indexed>>
      /\ \A k \in Job \ {j} : task'[k] = task[k]
  BY <1>2 DEF SetDocument, Proceed, tableVars, graphVars
<1>4. at \notin InsideTry /\ task[j] \in TaskRunning
  BY <1>2, <1>3 DEF InsideTry, TaskRunning, Pipeline
<1>5. PICK answer : /\ status' = IF TookEffect(answer) THEN StatusSet(d, s) ELSE status
                    /\ Proceed(j, answer, next)
  BY <1>2 DEF SetDocument
<1>6. task'[j] = "dead" \/ (task'[j] = next /\ TookEffect(answer))
  BY <1>1, <1>3, <1>4, <1>5 DEF Proceed, Raised, TookEffect
<1>7. /\ \A e \in Document : Recorded(e)' => Recorded(e)
      /\ \A e \in Document \ {d} : status'[e] = status[e]
  BY <1>1, <1>5 DEF StatusSet, Recorded
<1>8. ASSUME Recorded(d)
      PROVE  /\ Keeps(d)
             /\ Progress(j)'
             /\ status'[d] = "ready" => Good(d)'
  <2>0. d \in Document
    BY <1>4 DEF TypeInv, JobsBound
  <2>1. status'[d] = s \/ (status'[d] = status[d] /\ ~TookEffect(answer))
    BY <1>1, <1>5, <1>8, <2>0 DEF StatusSet
  <2>2. at = "ready" => Full(d)
    BY <1>3, <1>8 DEF Progress, ReadyInv
  <2>3. Full(d)' <=> Full(d)
    BY <1>3 DEF Full
  <2>4. Safe(d) => Safe(d)'
    BY <1>2, <1>3, <2>1, <2>2, <2>3 DEF Safe
  <2>5. Keeps(d)
    BY <1>3, <2>3, <2>4 DEF Keeps, ChunksStored, Within
  <2>6. Progress(j)'
    <3>1. CASE task'[j] = "dead" \/ task'[j] = "done"
      BY <3>1 DEF Progress, InsideTry, HasStored
    <3>2. CASE task'[j] = "download" /\ status'[d] = "processing"
      BY <1>3, <3>2 DEF Progress, Safe, HasStored
    <3>3. QED
      BY <1>2, <1>6, <2>1, <3>1, <3>2
  <2>7. ASSUME status'[d] = "ready" PROVE Good(d)'
    <3>1. CASE status[d] = "ready"
      BY <1>3, <2>0, <3>1, ReadyMeansGood DEF ReadyInv, Good
    <3>2. CASE at = "ready"
      <4>1. Good(d)
        BY <2>2, <3>2, FullIsGood
      <4>2. QED
        BY <1>3, <4>1 DEF Good
    <3>3. QED
      BY <1>2, <2>1, <2>7, <3>1, <3>2
  <2>8. QED
    BY <2>5, <2>6, <2>7
<1>9. QED
  BY <1>3, <1>4, <1>7, <1>8, ReadyWrites

LEMMA ReadyReplace ==
  ASSUME ReadyInv, TypeInv, NEW j \in Job, ReplaceChunks(j)
  PROVE  ReadyInv'
<1>. DEFINE d == job[j].document
<1>1. /\ task \in [Job -> TaskPc]
      /\ chunks \in [Document -> SUBSET Chunk]
      /\ Progress(j)
  BY TypeInvParts DEF PipelineTypes, ReadyInv
<1>2. /\ task[j] = "replace"
      /\ UNCHANGED <<job, boot, status, nodes, indexed>>
      /\ \A k \in Job \ {j} : task'[k] = task[k]
  BY DEF ReplaceChunks, Proceed, storeVars, graphVars
<1>3. task[j] \in TaskRunning /\ task[j] \in InsideTry
  BY <1>2 DEF InsideTry, TaskRunning, Pipeline
<1>4. d \in Document
  BY <1>3 DEF TypeInv, JobsBound
<1>5. \A e \in Document \ {d} : chunks'[e] = chunks[e]
  BY <1>1 DEF ReplaceChunks, tableVars
<1>6. ASSUME Recorded(d)
      PROVE  /\ chunks'[d] = chunks[d] \/ chunks'[d] = ChunksOf[boot]
             /\ task'[j] = "fail" \/ (task'[j] = "embed" /\ chunks'[d] = ChunksOf[boot])
  BY <1>1, <1>3, <1>4, <1>6 DEF ReplaceChunks, tableVars, Proceed, Raised, TookEffect
<1>7. ASSUME Recorded(d)
      PROVE  /\ Keeps(d)
             /\ Progress(j)'
             /\ status'[d] = "ready" => Good(d)'
  <2>1. Full(d) => Full(d)'
    BY <1>2, <1>6, <1>7 DEF Full
  <2>2. Keeps(d)
    BY <1>2, <1>6, <1>7, <2>1 DEF Keeps, Safe, ChunksStored, Within
  <2>3. Safe(d)
    BY <1>3, <1>7 DEF Progress, ReadyInv
  <2>4. Safe(d)'
    BY <2>2, <2>3 DEF Keeps
  <2>5. Progress(j)'
    BY <1>2, <1>6, <1>7, <2>4 DEF Progress, ChunksStored, InsideTry, HasStored
  <2>6. ASSUME status'[d] = "ready" PROVE Good(d)'
    <3>1. Full(d)
      BY <1>2, <2>3, <2>6 DEF Safe
    <3>2. Good(d)
      BY <3>1, FullIsGood
    <3>3. QED
      BY <1>2, <1>6, <1>7, <3>1, <3>2 DEF Good, Full
  <2>7. QED
    BY <2>2, <2>5, <2>6
<1>8. QED
  BY <1>2, <1>3, <1>5, <1>7, ReadyWrites DEF Recorded

LEMMA ReadyGraph ==
  ASSUME ReadyInv, TypeInv, NEW j \in Job, GraphNode(j) \/ GraphStale(j) \/ GraphUpsert(j)
  PROVE  ReadyInv'
<1>. DEFINE d == job[j].document
<1>. DEFINE entries == {[chunk |-> c, model |-> boot] : c \in ChunksOf[boot]}
<1>1. /\ task \in [Job -> TaskPc]
      /\ indexed \in [Document -> SUBSET IndexEntry]
      /\ Progress(j)
  BY TypeInvParts DEF PipelineTypes, ReadyInv
<1>2. /\ task[j] \in {"node", "stale", "upsert"}
      /\ UNCHANGED <<job, boot, status, chunks>>
      /\ \A k \in Job \ {j} : task'[k] = task[k]
  <2>1. CASE GraphNode(j)
    BY <2>1 DEF GraphNode, Proceed, storeVars, tableVars
  <2>2. CASE GraphStale(j)
    BY <2>2 DEF GraphStale, Proceed, storeVars, tableVars
  <2>3. CASE GraphUpsert(j)
    BY <2>3 DEF GraphUpsert, Proceed, storeVars, tableVars
  <2>4. QED
    BY <2>1, <2>2, <2>3
<1>3. task[j] \in TaskRunning /\ task[j] \in InsideTry /\ task[j] \in HasStored
  BY <1>2 DEF InsideTry, TaskRunning, Pipeline, HasStored
<1>4. d \in Document
  BY <1>3 DEF TypeInv, JobsBound
<1>5. /\ \A e \in Document \ {d} : indexed'[e] = indexed[e] /\ (e \in nodes' <=> e \in nodes)
      /\ nodes \subseteq nodes'
  BY <1>1 DEF GraphNode, GraphStale, GraphUpsert
<1>6. ASSUME Recorded(d)
      PROVE  \/ task'[j] = "fail"
             \/ task'[j] = "stale" /\ d \in nodes'
             \/ task'[j] = "upsert" /\ d \in nodes' /\ Within(d)'
             \/ task'[j] = "finish" /\ d \in nodes' /\ indexed'[d] = entries
  <2>1. CASE GraphNode(j)
    BY <1>1, <1>3, <2>1 DEF GraphNode, Proceed, Raised, TookEffect
  <2>2. CASE GraphStale(j)
    <3>1. d \in nodes /\ nodes' = nodes /\ boot' = boot
      BY <1>1, <1>2, <1>6, <2>2 DEF GraphStale, Progress
    <3>2. PICK answer :
            /\ indexed' = IF TookEffect(answer)
                          THEN [indexed EXCEPT ![d] = Kept(d, ChunksOf[boot])] ELSE indexed
            /\ Proceed(j, answer, IF ChunksOf[boot] = {} THEN "finish" ELSE "upsert")
      BY <2>2 DEF GraphStale
    <3>3. CASE answer # "ok"
      BY <1>1, <1>3, <3>2, <3>3 DEF Proceed, Raised
    <3>4. CASE answer = "ok"
      <4>1. indexed'[d] = {n \in indexed[d] : n.chunk \in ChunksOf[boot]}
        BY <1>1, <1>4, <3>2, <3>4 DEF TookEffect, Kept
      <4>2. Within(d)'
        BY <1>2, <4>1 DEF Within
      <4>3. ChunksOf[boot] = {} => indexed'[d] = entries
        BY <4>1
      <4>4. task'[j] = IF ChunksOf[boot] = {} THEN "finish" ELSE "upsert"
        BY <1>1, <3>2, <3>4 DEF Proceed
      <4>5. QED
        BY <3>1, <4>2, <4>3, <4>4
    <3>5. QED
      BY <3>3, <3>4
  <2>3. CASE GraphUpsert(j)
    <3>1. d \in nodes /\ nodes' = nodes /\ Within(d)
      BY <1>6, <2>3, <1>1 DEF GraphUpsert, Progress
    <3>2. {n \in indexed[d] : n.chunk \notin ChunksOf[boot]} = {}
      BY <3>1 DEF Within
    <3>3. PICK answer :
            /\ indexed' = IF TookEffect(answer) /\ d \in nodes
                          THEN [indexed EXCEPT ![d] =
                                 {n \in indexed[d] : n.chunk \notin ChunksOf[boot]} \cup entries]
                          ELSE indexed
            /\ Proceed(j, answer, "finish")
      BY <2>3 DEF GraphUpsert
    <3>4. CASE answer # "ok"
      BY <1>1, <1>3, <3>3, <3>4 DEF Proceed, Raised
    <3>5. CASE answer = "ok"
      BY <1>1, <1>4, <3>1, <3>2, <3>3, <3>5 DEF Proceed, TookEffect
    <3>6. QED
      BY <3>4, <3>5
  <2>4. QED
    BY <2>1, <2>2, <2>3
<1>7. ASSUME Recorded(d)
      PROVE  /\ Within(d) => Within(d)'
             /\ indexed[d] = entries => indexed'[d] = entries
  <2>1. \/ indexed' = indexed
        \/ indexed' = [indexed EXCEPT ![d] = {n \in indexed[d] : n.chunk \in ChunksOf[boot]}]
        \/ indexed' = [indexed EXCEPT ![d] =
                        {n \in indexed[d] : n.chunk \notin ChunksOf[boot]} \cup entries]
    BY DEF GraphNode, GraphStale, GraphUpsert, Kept
  <2>2. \/ indexed'[d] = indexed[d]
        \/ indexed'[d] = {n \in indexed[d] : n.chunk \in ChunksOf[boot]}
        \/ indexed'[d] = {n \in indexed[d] : n.chunk \notin ChunksOf[boot]} \cup entries
    BY <1>1, <1>4, <2>1
  <2>3. \A n \in entries : n.chunk \in ChunksOf[boot]
    OBVIOUS
  <2>4. Within(d) => Within(d)'
    BY <1>2, <2>2, <2>3 DEF Within
  <2>5. ASSUME indexed[d] = entries PROVE indexed'[d] = entries
    <3>1. {n \in indexed[d] : n.chunk \in ChunksOf[boot]} = entries
      BY <2>3, <2>5
    <3>2. {n \in indexed[d] : n.chunk \notin ChunksOf[boot]} = {}
      BY <2>3, <2>5
    <3>3. QED
      BY <2>2, <2>5, <3>1, <3>2
  <2>6. QED
    BY <2>4, <2>5
<1>8. ASSUME Recorded(d)
      PROVE  /\ Keeps(d)
             /\ Progress(j)'
             /\ status'[d] = "ready" => Good(d)'
  <2>1. Full(d) => Full(d)'
    BY <1>2, <1>5, <1>7, <1>8 DEF Full
  <2>2. Keeps(d)
    BY <1>2, <1>5, <1>7, <1>8, <2>1 DEF Keeps, Safe, ChunksStored
  <2>3. Safe(d) /\ ChunksStored(d)
    BY <1>1, <1>3, <1>8 DEF Progress
  <2>4. Safe(d)' /\ ChunksStored(d)'
    BY <2>2, <2>3 DEF Keeps
  <2>5. d \in nodes' /\ indexed'[d] = entries => Full(d)'
    BY <1>2, <2>4 DEF Full, ChunksStored
  <2>6. Progress(j)'
    BY <1>2, <1>6, <1>8, <2>4, <2>5 DEF Progress, InsideTry, HasStored
  <2>7. ASSUME status'[d] = "ready" PROVE Good(d)'
    <3>1. Full(d)'
      BY <1>2, <2>4, <2>7 DEF Safe
    <3>2. QED
      BY <3>1, FullIsGood
  <2>8. QED
    BY <2>2, <2>6, <2>7
<1>9. QED
  BY <1>2, <1>3, <1>5, <1>8, ReadyWrites DEF Recorded

LEMMA ReadyTask ==
  ASSUME ReadyInv, TypeInv, NEW j \in Job, TaskStep(j)
  PROVE  ReadyInv'
BY ReadyOther, ReadyStatus, ReadyReplace, ReadyGraph DEF TaskStep

\* Steps that leave rows, chunks and graph alone, and start no run half way.
LEMMA ReadyElsewhere ==
  ASSUME ReadyInv, TypeInv,
         UNCHANGED <<chunks, nodes, indexed>>,
         \A d \in Document : status'[d] = status[d] \/ status'[d] # "ready",
         \A k \in Job :
           \/ task'[k] \notin TaskRunning
           \/ task'[k] = "start"
           \/ /\ task'[k] = task[k] /\ boot' = boot
              /\ job'[k].document = job[k].document
              /\ status'[job[k].document] = status[job[k].document]
  PROVE  ReadyInv'
<1>1. ASSUME NEW k \in Job PROVE Progress(k)'
  <2>1. CASE task'[k] \notin TaskRunning \/ task'[k] = "start"
    BY <2>1 DEF Progress, TaskRunning, Pipeline, InsideTry, HasStored
  <2>2. CASE /\ task'[k] = task[k] /\ boot' = boot
             /\ job'[k].document = job[k].document
             /\ status'[job[k].document] = status[job[k].document]
    BY <2>2, ProgressKept, KeepsUnchanged DEF ReadyInv, Recorded
  <2>3. QED
    BY <2>1, <2>2
<1>2. ReadyIsRetrievable'
  BY DEF ReadyInv, ReadyIsRetrievable
<1>3. QED
  BY <1>1, <1>2 DEF ReadyInv

LEMMA ReadyRequest ==
  ASSUME ReadyInv, TypeInv, NEW r \in Request, RequestStep(r)
  PROVE  ReadyInv'
<1>1. UNCHANGED <<status, boot, chunks, nodes, indexed>>
  BY DEF RequestStep, RequestProcessing, BeginClaim, Claim, JoinActive, JoinLatest, Submit, storeVars,
     tableVars, graphVars
<1>2. task \in [Job -> TaskPc] /\ job \in [Job -> Jobs]
  BY TypeInvParts DEF PipelineTypes
<1>3. CASE Claim(r)
  <2>1. task' = task
    BY <1>3 DEF Claim
  <2>2. ASSUME NEW k \in Job, job'[k].document # job[k].document PROVE task[k] \notin TaskRunning
    <3>1. job[k].status = "unused"
      BY <1>2, <1>3, <2>2 DEF Claim, Fresh
    <3>2. QED
      BY <3>1 DEF TypeInv, JobsBound
  <2>3. QED
    BY <1>1, <2>1, <2>2, ReadyElsewhere
<1>4. CASE Submit(r)
  <2>1. /\ job' = job
        /\ \A k \in Job : task'[k] = task[k] \/ task'[k] = "start"
    BY <1>2, <1>4 DEF Submit
  <2>2. QED
    BY <1>1, <2>1, ReadyElsewhere
<1>5. CASE UNCHANGED <<job, task>>
  BY <1>1, <1>5, ReadyElsewhere
<1>6. QED
  BY <1>3, <1>4, <1>5 DEF RequestStep, RequestProcessing, BeginClaim, JoinActive, JoinLatest

LEMMA ReadyUpload ==
  ASSUME ReadyInv, RunInv, TypeInv, NEW u \in Uploader, Upload(u)
  PROVE  ReadyInv'
<1>1. UNCHANGED <<boot, job, task, chunks, nodes, indexed>>
  BY DEF Upload, UploadStep, BeginUpload, FindByChecksum, WriteObject, CreateRow, Compensate,
     tableVars, graphVars
<1>2. CASE status' = status
  BY <1>1, <1>2, ReadyElsewhere
<1>3. CASE CreateRow(u)
  <2>1. /\ uploads[u].pc = "insert"
        /\ \A d \in Document \ {uploads[u].document} : status'[d] = status[d]
        /\ \A d \in Document : status'[d] = status[d] \/ status'[d] = "uploaded"
    BY <1>3 DEF CreateRow, TypeInv, TypeOK, StoreTypeOK
  <2>2. ASSUME NEW k \in Job, task[k] \in TaskRunning
        PROVE  status'[job[k].document] = status[job[k].document]
    <3>1. job[k].status # "unused" /\ job[k].document \in Document
      BY <2>2 DEF TypeInv, JobsBound
    <3>2. job[k].document # uploads[u].document
      BY <2>1, <3>1 DEF RunInv, JobsPlaced, Unrecorded
    <3>3. QED
      BY <2>1, <3>1, <3>2
  <2>3. QED
    BY <1>1, <2>1, <2>2, ReadyElsewhere
<1>4. QED
  BY <1>2, <1>3 DEF Upload, UploadStep, BeginUpload, FindByChecksum, WriteObject, Compensate

LEMMA ReadyDelete ==
  ASSUME ReadyInv, TypeInv, NEW x \in Deleter, Delete(x)
  PROVE  ReadyInv'
<1>1. /\ UNCHANGED <<boot, task, nodes, indexed>>
      /\ \A d \in Document : status'[d] # "absent" => status'[d] = status[d]
      /\ \A d \in Document : status'[d] # "absent" => chunks'[d] = chunks[d]
  BY DEF Delete, DeleteStep, BeginDelete, RemoveObject, RemoveRow, RowRemoved, Cascade,
     graphVars, TypeInv, TypeOK, StoreTypeOK
<1>2. \A k \in Job : job'[k].document = job[k].document
  BY DEF Delete, Cascade, TypeInv, TypeOK
<1>3. ASSUME NEW d \in Document, Recorded(d)' PROVE Recorded(d) /\ Keeps(d)
  BY <1>1, <1>3 DEF Recorded, Keeps, Safe, ChunksStored, Within, Full
<1>4. ASSUME NEW k \in Job PROVE Progress(k)'
  <2>1. CASE task[k] \in TaskRunning
    <3>1. job[k].document \in Document
      BY <2>1 DEF TypeInv, JobsBound
    <3>2. Recorded(job[k].document)' => Recorded(job[k].document) /\ Keeps(job[k].document)
      <4>1. Recorded(job[k].document)' <=> status'[job[k].document] # "absent"
        BY <1>2 DEF Recorded
      <4>2. ASSUME NEW d, d = job[k].document
            PROVE  Keeps(job[k].document) <=> Keeps(d)
        BY <1>2, <4>2 DEF Keeps, Safe, ChunksStored, Within, Full
      <4>3. QED
        BY <1>3, <3>1, <4>1, <4>2 DEF Recorded
    <3>3. QED
      BY <1>1, <1>2, <3>2, ProgressKept DEF ReadyInv
  <2>2. CASE task[k] \notin TaskRunning
    BY <1>1, <2>2 DEF Progress, TaskRunning, Pipeline, InsideTry, HasStored
  <2>3. QED
    BY <2>1, <2>2
<1>5. ReadyIsRetrievable'
  BY <1>1 DEF ReadyInv, ReadyIsRetrievable
<1>6. QED
  BY <1>4, <1>5 DEF ReadyInv

LEMMA ReadyInductive ==
  TypeInv /\ RunInv /\ ReadyInv /\ [Next]_vars => ReadyInv'
<1>1. SUFFICES ASSUME TypeInv, RunInv, ReadyInv, [Next]_vars PROVE ReadyInv'
  OBVIOUS
<1>2. ASSUME NEW r \in Request, RequestStep(r) PROVE ReadyInv'
  BY <1>1, <1>2, ReadyRequest
<1>3. ASSUME NEW j \in Job, TaskStep(j) PROVE ReadyInv'
  BY <1>1, <1>3, ReadyTask
<1>4. ASSUME NEW u \in Uploader, Upload(u) PROVE ReadyInv'
  BY <1>1, <1>4, ReadyUpload
<1>5. ASSUME NEW x \in Deleter, Delete(x) PROVE ReadyInv'
  BY <1>1, <1>5, ReadyDelete
<1>6. CASE Crash
  <2>1. /\ UNCHANGED <<status, chunks, nodes, indexed>>
        /\ \A k \in Job : task'[k] \notin TaskRunning
    BY <1>6 DEF Crash, CrashStore, tableVars, graphVars, TaskRunning, Pipeline, InsideTry
  <2>2. QED
    BY <1>1, <2>1, ReadyElsewhere
<1>7. CASE UNCHANGED vars
  BY <1>1, <1>7, ReadyElsewhere DEF vars, storeVars
<1>8. QED
  BY <1>1, <1>2, <1>3, <1>4, <1>5, <1>6, <1>7 DEF Next

LEMMA InitReady == Init => ReadyInv
BY DEF Init, StoreInit, ReadyInv, ReadyIsRetrievable, Progress, InsideTry, HasStored

\* "ready means a document is retrievable", for every number of runs, requests,
\* deletes and restarts, whatever code and model each incarnation of the
\* process has, and whichever calls fail before or after taking effect.
THEOREM ReadyDocumentsAreRetrievable == Spec => []ReadyIsRetrievable
<1>1. TypeInv /\ RunInv /\ ReadyInv /\ [Next]_vars => (TypeInv /\ RunInv /\ ReadyInv)'
  BY TypeInvInductive, RunInvInductive, ReadyInductive
<1>2. ReadyInv => ReadyIsRetrievable
  BY DEF ReadyInv
<1>3. QED
  BY <1>1, <1>2, InitTypes, InitRuns, InitReady, PTL DEF Spec

-----------------------------------------------------------------------------
(* Stages.  A run records the stage before it attempts it, and only while   *)
(* its job is running; when the row has gone the effects have gone with it. *)

\* Where a run has not reached the table yet.
Early == {"lookup", "mark", "download", "extract", "clean", "chunk", "persist"}

\* What holds of a job that owns stored chunks.
Written(j) ==
  /\ job[j].status \notin {"unused", "queued"}
  /\ StageOrder[job[j].stage] >= StageOrder["persist"]
  /\ task[j] \notin Early

StageProgress(j) ==
  /\ task[j] \in {"replace", "embed", "embedding", "index"} /\ Exists(j) =>
       StageOrder[job[j].stage] >= StageOrder["persist"]
  /\ task[j] \in {"node", "stale", "upsert", "finish"} /\ Exists(j) => job[j].stage = "index"
  /\ job[j].status = "succeeded" => job[j].stage = "index"
  /\ (\E d \in Document : chunkJob[d] = j) => Written(j)

StageInv == \A j \in Job : StageProgress(j)

LEMMA StageSuffices == StageInv => StageBoundsEffects
BY DEF StageInv, StageProgress, StageBoundsEffects, Written

\* A job whose row, task and chunks a step leaves alone.
LEMMA StageKept ==
  ASSUME NEW k \in Job, StageProgress(k),
         job'[k] = job[k],
         task'[k] = task[k] \/ task'[k] \notin Pipeline,
         \A d \in Document : chunkJob'[d] = k => chunkJob[d] = k
  PROVE  StageProgress(k)'
<1>1. Exists(k)' <=> Exists(k)
  BY DEF Exists
<1>2. CASE task'[k] \notin Pipeline
  <2>1. task'[k] \notin Early \cup {"replace", "embed", "embedding", "index", "node", "stale",
                                    "upsert", "finish"}
    BY <1>2 DEF Pipeline, InsideTry, Early
  <2>2. QED
    BY <1>1, <2>1 DEF StageProgress, Written
<1>3. CASE task'[k] = task[k]
  BY <1>1, <1>3 DEF StageProgress, Written
<1>4. QED
  BY <1>2, <1>3

\* A run writes its own row only, and owns no chunks but those it has just
\* stored.
LEMMA StageRun ==
  ASSUME StageInv, TypeInv, RunInv, NEW j \in Job, TaskStep(j)
  PROVE  StageProgress(j)'
<1>. DEFINE LastFour == {"node", "stale", "upsert", "finish"}
<1>1. /\ task \in [Job -> TaskPc] /\ job \in [Job -> Jobs]
      /\ StageProgress(j)
      /\ task[j] \in Pipeline => job[j].status \in {"running", "gone"}
      /\ job[j].status = "gone" => ~Recorded(job[j].document)
  BY TypeInvParts DEF PipelineTypes, StageInv, RunInv, RunsStarted, JobsPlaced
<1>2. Exists(j) <=> job[j].status \in {"queued", "running", "succeeded", "failed", "cancelled"}
  BY DEF Exists, ActiveStatus, TerminalStatus
<1>2a. Exists(j)' <=> job'[j].status \in {"queued", "running", "succeeded", "failed", "cancelled"}
  BY DEF Exists, ActiveStatus, TerminalStatus
<1>. USE <1>1
<1>3. CASE StartJob(j)
  <2>1. chunkJob' = chunkJob
    BY <1>3 DEF StartJob, tableVars
  <2>2. CASE job[j].status = "queued"
    <3>1. \A d \in Document : chunkJob'[d] # j
      BY <2>1, <2>2 DEF StageProgress, Written
    <3>2. task'[j] \in {"lookup", "dead"}
      BY <1>3, <2>2 DEF StartJob, Proceed, Raised, InsideTry
    <3>3. job'[j].status \in {"queued", "running"}
      BY <1>3, <2>2 DEF StartJob, Jobs
    <3>4. QED
      BY <3>1, <3>2, <3>3 DEF StageProgress
  <2>3. CASE job[j].status # "queued"
    <3>1. job' = job /\ task'[j] \in {"done", "dead"}
      BY <1>3, <2>3 DEF StartJob, Proceed, Raised, InsideTry
    <3>2. QED
      BY <2>1, <3>1, StageKept DEF Pipeline, InsideTry
  <2>4. QED
    BY <2>2, <2>3
<1>4. CASE LookUp(j) \/ MarkProcessing(j) \/ Download(j) \/ MarkReady(j) \/ MarkFailed(j)
  <2>1. UNCHANGED <<job, chunkJob>>
    BY <1>4 DEF LookUp, MarkProcessing, Download, MarkReady, MarkFailed, SetDocument, tableVars
  <2>2. \/ task[j] \in Early /\ task'[j] \in {"mark", "cancel", "download", "extract", "fail", "dead"}
        \/ task'[j] \in {"done", "dead"}
    <3>1. CASE LookUp(j)
      BY <3>1 DEF LookUp, Proceed, Raised, InsideTry, Early
    <3>2. CASE MarkProcessing(j)
      BY <3>2 DEF MarkProcessing, SetDocument, Proceed, Raised, InsideTry, Early
    <3>3. CASE Download(j)
      BY <3>3 DEF Download, Proceed, Raised, InsideTry, Early
    <3>4. CASE MarkReady(j) \/ MarkFailed(j)
      BY <3>4 DEF MarkReady, MarkFailed, SetDocument, Proceed, Raised, InsideTry
    <3>5. QED
      BY <1>4, <3>1, <3>2, <3>3, <3>4
  <2>3. CASE task[j] \in Early /\ task'[j] \in {"mark", "cancel", "download", "extract", "fail", "dead"}
    <3>1. \A d \in Document : chunkJob'[d] # j
      BY <2>1, <2>3 DEF StageProgress, Written
    <3>2. QED
      BY <2>1, <2>3, <3>1 DEF StageProgress
  <2>4. CASE task'[j] \in {"done", "dead"}
    BY <2>1, <2>4, StageKept DEF Pipeline, InsideTry
  <2>5. QED
    BY <2>2, <2>3, <2>4
<1>5. CASE Extract(j) \/ Clean(j) \/ Split(j) \/ Persist(j)
  <2>1. PICK at, next, answer :
          /\ task[j] = at /\ Proceed(j, answer, next)
          /\ job' = IF TookEffect(answer) THEN Advanced(j, at) ELSE job
          /\ \/ at \in {"extract", "clean", "chunk"} /\ next \in {"clean", "chunk", "persist"}
             \/ at = "persist" /\ next = "replace"
    BY <1>5 DEF Extract, Clean, Split, Persist, Advance
  <2>2. chunkJob' = chunkJob /\ task[j] \in Early /\ task[j] \in InsideTry /\ task[j] \in Pipeline
    BY <1>5, <2>1 DEF Extract, Clean, Split, Persist, Advance, tableVars, Early, InsideTry, Pipeline
  <2>3. \A d \in Document : chunkJob'[d] # j
    BY <2>2 DEF StageProgress, Written
  <2>4. task'[j] = "fail" \/ (task'[j] = next /\ answer = "ok")
    BY <2>1, <2>2 DEF Proceed, Raised
  <2>5. /\ job'[j].status = job[j].status
        /\ answer = "ok" /\ job[j].status = "running" => job'[j].stage = at
    BY <2>1, <2>2 DEF Advanced, TookEffect, Jobs, Stage, InsideTry
  <2>6. job'[j].status # "succeeded"
    BY <2>2, <2>5
  <2>7. task'[j] = "replace" /\ Exists(j)' => job'[j].stage = "persist"
    BY <1>2a, <2>1, <2>2, <2>4, <2>5
  <2>8. task'[j] \in {"fail", "clean", "chunk", "persist", "replace"}
    BY <2>1, <2>4
  <2>9. StageOrder["persist"] >= StageOrder["persist"]
    BY DEF StageOrder
  <2>10. QED
    BY <2>3, <2>6, <2>7, <2>8, <2>9 DEF StageProgress
<1>6. CASE ReplaceChunks(j)
  <2>1. /\ task[j] = "replace" /\ job' = job
        /\ task'[j] \in {"embed", "fail"}
    BY <1>6 DEF ReplaceChunks, Proceed, Raised, InsideTry
  <2>2. \/ chunkJob' = chunkJob
        \/ Recorded(job[j].document)
    BY <1>6 DEF ReplaceChunks, tableVars
  <2>3. task[j] \in Pipeline
    BY <2>1 DEF Pipeline, InsideTry
  <2>4. Recorded(job[j].document) => StageOrder[job[j].stage] >= StageOrder["persist"]
    BY <1>2, <2>1, <2>3 DEF StageProgress
  <2>5. Recorded(job[j].document) => Written(j)'
    BY <2>1, <2>3, <2>4 DEF Written, Early
  <2>6. chunkJob' = chunkJob => ((\E d \in Document : chunkJob'[d] = j) => Written(j)')
    BY <2>1 DEF StageProgress, Written, Early
  <2>7. QED
    BY <1>2, <1>2a, <2>1, <2>2, <2>5, <2>6 DEF StageProgress
<1>7. CASE Embed(j) \/ Index(j)
  <2>1. PICK at, next, answer :
          /\ task[j] = at /\ Proceed(j, answer, next)
          /\ job' = IF TookEffect(answer) THEN Advanced(j, at) ELSE job
          /\ \/ at = "embed" /\ next = "embedding"
             \/ at = "index" /\ next = "node"
    <3>1. CASE Embed(j)
      BY <3>1 DEF Embed, Advance
    <3>2. CASE Index(j)
      BY <3>2 DEF Index, Advance
    <3>3. QED
      BY <1>7, <3>1, <3>2
  <2>2. chunkJob' = chunkJob /\ task[j] \in InsideTry /\ task[j] \in Pipeline
    BY <1>7, <2>1 DEF Embed, Index, Advance, tableVars, InsideTry, Pipeline
  <2>3. task'[j] = "fail" \/ (task'[j] = next /\ answer = "ok")
    BY <2>1, <2>2 DEF Proceed, Raised
  <2>4. /\ job'[j].status = job[j].status
        /\ job'[j].stage = job[j].stage \/ job'[j].stage = at
        /\ answer = "ok" /\ job[j].status = "running" => job'[j].stage = at
    BY <2>1, <2>2 DEF Advanced, TookEffect, Jobs
  <2>5. job'[j].status # "succeeded"
    BY <2>2, <2>4
  <2>6. StageOrder[at] >= StageOrder["persist"]
    BY <2>1 DEF StageOrder
  <2>7. (\E d \in Document : chunkJob'[d] = j) => Written(j)'
    BY <2>1, <2>2, <2>3, <2>4, <2>6 DEF StageProgress, Written, Early
  <2>8. CASE task'[j] = "fail"
    BY <2>5, <2>7, <2>8 DEF StageProgress
  <2>9. CASE task'[j] = next /\ answer = "ok"
    <3>1. Exists(j)' => job'[j].stage = at
      BY <1>2a, <2>2, <2>4, <2>9
    <3>2. QED
      BY <2>1, <2>5, <2>6, <2>7, <2>9, <3>1 DEF StageProgress
  <2>10. QED
    BY <2>3, <2>8, <2>9
<1>8. CASE EmbedTexts(j) \/ GraphNode(j) \/ GraphStale(j) \/ GraphUpsert(j)
  <2>1. UNCHANGED <<job, chunkJob>>
    BY <1>8 DEF EmbedTexts, GraphNode, GraphStale, GraphUpsert, tableVars
  <2>2. \/ task[j] = "embedding" /\ task'[j] = "index"
        \/ task[j] \in LastFour /\ task'[j] \in LastFour
        \/ task'[j] = "fail"
    <3>1. CASE EmbedTexts(j)
      BY <3>1 DEF EmbedTexts, Proceed, Raised, InsideTry
    <3>2. CASE GraphNode(j)
      BY <3>2 DEF GraphNode, Proceed, Raised, InsideTry
    <3>3. CASE GraphStale(j)
      BY <3>3 DEF GraphStale, Proceed, Raised, InsideTry
    <3>4. CASE GraphUpsert(j)
      BY <3>4 DEF GraphUpsert, Proceed, Raised, InsideTry
    <3>5. QED
      BY <1>8, <3>1, <3>2, <3>3, <3>4
  <2>3. QED
    BY <1>2, <1>2a, <2>1, <2>2 DEF StageProgress, Written, Early
<1>9. CASE Cancel(j) \/ Succeed(j) \/ Fail(j)
  <2>1. PICK outcome : /\ job' = Finished(j, outcome) \/ job' = job
                       /\ \/ task[j] = "finish" /\ outcome = "succeeded"
                          \/ outcome \in {"failed", "cancelled"}
    BY <1>9 DEF Cancel, Succeed, Fail, Finish
  <2>2. chunkJob' = chunkJob /\ task'[j] \in {"done", "ready", "failed", "dead"}
    BY <1>9 DEF Cancel, Succeed, Fail, Finish, tableVars, Proceed, Raised, InsideTry
  <2>3. /\ job'[j].stage = job[j].stage
        /\ job'[j].status = job[j].status \/ (Active(j) /\ job'[j].status = outcome)
    BY <2>1 DEF Finished, Jobs
  <2>4. job'[j].status = "succeeded" => job'[j].stage = "index"
    BY <1>2, <2>1, <2>3 DEF StageProgress, Active, ActiveStatus
  <2>5. (\E d \in Document : chunkJob'[d] = j) => Written(j)'
    BY <2>1, <2>2, <2>3 DEF StageProgress, Written, Early
  <2>6. QED
    BY <2>2, <2>4, <2>5 DEF StageProgress
<1>10. QED
  BY <1>3, <1>4, <1>5, <1>6, <1>7, <1>8, <1>9 DEF TaskStep

LEMMA StageTask ==
  ASSUME StageInv, TypeInv, RunInv, NEW j \in Job, TaskStep(j)
  PROVE  StageInv'
<1>1. /\ task \in [Job -> TaskPc] /\ job \in [Job -> Jobs]
      /\ chunkJob \in [Document -> Job \cup {NoJob}]
  BY TypeInvParts DEF PipelineTypes
<1>2. ASSUME NEW k \in Job, k # j PROVE StageProgress(k)'
  <2>1. job'[k] = job[k] /\ task'[k] = task[k]
    BY <1>1, <1>2 DEF TaskStep, StartJob, LookUp, Cancel, MarkProcessing, MarkReady, MarkFailed,
       SetDocument, Download, Extract, Clean, Split, Persist, Embed, Index, Advance, Advanced,
       ReplaceChunks, EmbedTexts, GraphNode, GraphStale, GraphUpsert, Succeed, Fail, Finish,
       Finished, Proceed
  <2>2. CASE ReplaceChunks(j)
    <3>1. \A d \in Document : chunkJob'[d] = k => chunkJob[d] = k
      BY <1>1, <1>2, <2>2, IngestionAssumption
      DEF ReplaceChunks, tableVars, IngestionAssumption
    <3>2. QED
      BY <2>1, <3>1, StageKept DEF StageInv
  <2>3. CASE chunkJob' = chunkJob
    BY <2>1, <2>3, StageKept DEF StageInv
  <2>4. QED
    BY <2>2, <2>3 DEF TaskStep, StartJob, LookUp, Cancel, MarkProcessing, MarkReady, MarkFailed,
       SetDocument, Download, Extract, Clean, Split, Persist, Embed, Index, Advance,
       EmbedTexts, GraphNode, GraphStale, GraphUpsert, Succeed, Fail, Finish, tableVars
<1>3. QED
  BY <1>2, StageRun DEF StageInv

LEMMA StageRequest ==
  ASSUME StageInv, TypeInv, NEW r \in Request, RequestStep(r)
  PROVE  StageInv'
<1>1. chunkJob' = chunkJob
  BY DEF RequestStep, RequestProcessing, BeginClaim, Claim, JoinActive, JoinLatest, Submit, tableVars
<1>2. task \in [Job -> TaskPc] /\ job \in [Job -> Jobs]
  BY TypeInvParts DEF PipelineTypes
<1>3. SUFFICES ASSUME NEW k \in Job PROVE StageProgress(k)'
  BY DEF StageInv
<1>4. CASE Claim(r)
  <2>1. task' = task
    BY <1>4 DEF Claim
  <2>2. CASE job'[k] = job[k]
    BY <1>1, <2>1, <2>2, StageKept DEF StageInv
  <2>3. CASE job'[k] # job[k]
    <3>1. job[k].status = "unused" /\ job'[k].status = "queued"
      BY <1>2, <1>4, <2>3, ClaimedRow
    <3>2. task[k] \notin TaskRunning
      BY <3>1 DEF TypeInv, JobsBound
    <3>3. \A d \in Document : chunkJob'[d] # k
      BY <1>1, <3>1 DEF StageInv, StageProgress, Written
    <3>4. task'[k] \notin {"replace", "embed", "embedding", "index", "node", "stale", "upsert", "finish"}
      BY <2>1, <3>2 DEF TaskRunning, Pipeline, InsideTry
    <3>5. QED
      BY <3>1, <3>3, <3>4 DEF StageProgress
  <2>4. QED
    BY <2>2, <2>3
<1>5. CASE Submit(r)
  <2>1. job' = job /\ (task'[k] = task[k] \/ task'[k] = "start")
    BY <1>2, <1>5 DEF Submit
  <2>2. "start" \notin Pipeline
    BY DEF Pipeline, InsideTry
  <2>3. QED
    BY <1>1, <2>1, <2>2, StageKept DEF StageInv
<1>6. CASE UNCHANGED <<job, task>>
  BY <1>1, <1>6, StageKept DEF StageInv
<1>7. QED
  BY <1>4, <1>5, <1>6 DEF RequestStep, RequestProcessing, BeginClaim, JoinActive, JoinLatest

LEMMA StageDelete ==
  ASSUME StageInv, TypeInv, NEW x \in Deleter, Delete(x)
  PROVE  StageInv'
<1>1. SUFFICES ASSUME NEW k \in Job PROVE StageProgress(k)'
  BY DEF StageInv
<1>2. task' = task
  BY DEF Delete
<1>3. \A d \in Document : chunkJob'[d] = k => chunkJob[d] = k
  BY IngestionAssumption DEF Delete, Cascade, IngestionAssumption
<1>4. CASE job'[k] = job[k]
  BY <1>2, <1>3, <1>4, StageKept DEF StageInv
<1>5. CASE job'[k] # job[k]
  <2>1. job[k] \in Jobs
    BY TypeInvParts DEF PipelineTypes
  <2>2. job'[k].status = "gone" /\ job'[k].stage = job[k].stage
    BY <1>5, <2>1 DEF Delete, Cascade, Jobs
  <2>3. ~Exists(k)'
    BY <2>2 DEF Exists, ActiveStatus, TerminalStatus
  <2>4. (\E d \in Document : chunkJob'[d] = k) => Written(k)'
    BY <1>2, <1>3, <2>2 DEF StageInv, StageProgress, Written
  <2>5. QED
    BY <2>2, <2>3, <2>4 DEF StageProgress
<1>6. QED
  BY <1>4, <1>5

LEMMA StageInductive == TypeInv /\ RunInv /\ StageInv /\ [Next]_vars => StageInv'
<1>1. SUFFICES ASSUME TypeInv, RunInv, StageInv, [Next]_vars PROVE StageInv'
  OBVIOUS
<1>2. ASSUME NEW r \in Request, RequestStep(r) PROVE StageInv'
  BY <1>1, <1>2, StageRequest
<1>3. ASSUME NEW j \in Job, TaskStep(j) PROVE StageInv'
  BY <1>1, <1>3, StageTask
<1>4. ASSUME NEW x \in Deleter, Delete(x) PROVE StageInv'
  BY <1>1, <1>4, StageDelete
<1>5. CASE /\ UNCHANGED <<job, chunkJob>>
           /\ \A k \in Job : task'[k] = task[k] \/ task'[k] \notin Pipeline
  BY <1>1, <1>5, StageKept DEF StageInv
<1>6. ASSUME NEW u \in Uploader, Upload(u) PROVE StageInv'
  BY <1>5, <1>6 DEF Upload, tableVars
<1>7. CASE Crash
  <2>1. \A k \in Job : task'[k] \notin Pipeline
    BY <1>7 DEF Crash, TaskRunning, Pipeline, InsideTry
  <2>2. QED
    BY <1>5, <1>7, <2>1 DEF Crash, tableVars
<1>8. CASE UNCHANGED vars
  BY <1>5, <1>8 DEF vars
<1>9. QED
  BY <1>1, <1>2, <1>3, <1>4, <1>6, <1>7, <1>8 DEF Next

LEMMA InitStage == Init => StageInv
BY IngestionAssumption DEF IngestionAssumption, Init, StageInv, StageProgress, NewJob

\* The stage on a job's row bounds what its run has done to the chunk table and
\* to the graph, however the run ended and whatever was deleted meanwhile.
THEOREM StagesBoundEffects == Spec => []StageBoundsEffects
<1>1. TypeInv /\ RunInv /\ StageInv /\ [Next]_vars => (TypeInv /\ RunInv /\ StageInv)'
  BY TypeInvInductive, RunInvInductive, StageInductive
<1>2. QED
  BY <1>1, StageSuffices, InitTypes, InitRuns, InitStage, PTL DEF Spec

-----------------------------------------------------------------------------
(* The order of claims.  A claim takes its stamp and its number before it    *)
(* inserts.  Rows of one document go all at once and never come back, so the *)
(* count a number is taken from never falls below a number in use, and the   *)
(* index lets an insert in only after every other row of the document.       *)

Inserting(r) == request[r].pc \in {"insert", "reinsert"}

\* A request is about a document that had its row when it came: no upload is
\* still about to insert that row.
RequestsPlaced ==
  \A r \in Request : request[r].pc \in RequestInFlight =>
    /\ request[r].document \in minted
    /\ \A u \in Uploader : Unrecorded(u) => uploads[u].document # request[r].document

RowsInOrder ==
  \A j \in Job : Exists(j) =>
    /\ job[j].attempt <= Cardinality(JobsOf(job[j].document))
    /\ job[j].created < job[j].inserted
    /\ job[j].inserted <= Inserts

\* What the index does for an active job: it was inserted after all others.
ActiveIsLast ==
  \A j, k \in Job :
    Active(j) /\ Exists(k) /\ job[k].document = job[j].document /\ k # j =>
      job[k].inserted < job[j].inserted

\* What a claim under way has taken still fits when it inserts, if it may.
ClaimsInOrder ==
  \A r \in Request : Inserting(r) =>
    /\ request[r].claim.created <= Inserts
    /\ Recorded(request[r].document) =>
         request[r].claim.attempt <= Cardinality(JobsOf(request[r].document)) + 1
    /\ \A j \in JobsOf(request[r].document) :
         job[j].inserted <= request[r].claim.created =>
           job[j].attempt < request[r].claim.attempt

OrderInv ==
  RequestsPlaced /\ RowsInOrder /\ ActiveIsLast /\ AttemptsInOrder /\ ClaimsInOrder

LEMMA FiniteJobsOf ==
  ASSUME IsFiniteSet(UsedJobs), NEW d
  PROVE  IsFiniteSet(JobsOf(d)) /\ Cardinality(JobsOf(d)) \in Nat
<1>1. JobsOf(d) \subseteq UsedJobs
  BY DEF JobsOf, Exists, UsedJobs, ActiveStatus, TerminalStatus
<1>2. QED
  BY <1>1, FS_Subset, FS_CardinalityType

LEMMA RequestsPlacedKept ==
  ASSUME RequestsPlaced,
         minted \subseteq minted',
         \A r \in Request : request'[r].pc \in RequestInFlight =>
           /\ request[r].pc \in RequestInFlight
           /\ request'[r].document = request[r].document,
         \A u \in Uploader : Unrecorded(u)' =>
           \/ Unrecorded(u) /\ uploads'[u].document = uploads[u].document
           \/ uploads'[u].document \notin minted
  PROVE  RequestsPlaced'
BY DEF RequestsPlaced

LEMMA RequestsPlacedInductive ==
  ASSUME TypeInv, RunInv, RequestsPlaced, [Next]_vars
  PROVE  RequestsPlaced'
<1>1. StoreTypeOK /\ request \in [Request -> Requests]
  BY TypeInvParts DEF StoreInv, PipelineTypes
<1>2. ASSUME NEW r \in Request, NEW d \in Document, RequestProcessing(r, d)
      PROVE  RequestsPlaced'
  <2>1. UNCHANGED <<minted, uploads>>
    BY <1>2 DEF RequestProcessing, storeVars
  <2>2. /\ request'[r].document = d /\ d \in minted
        /\ request'[r].pc \in RequestInFlight => Recorded(d)
        /\ \A q \in Request \ {r} : request'[q] = request[q]
    BY <1>1, <1>2 DEF RequestProcessing, Requests, RequestInFlight
  <2>3. \A u \in Uploader : Unrecorded(u) => ~Recorded(uploads[u].document)
    BY DEF RunInv, UploadsFresh
  <2>4. ASSUME NEW q \in Request, request'[q].pc \in RequestInFlight
        PROVE  /\ request'[q].document \in minted
               /\ \A u \in Uploader : Unrecorded(u) => uploads[u].document # request'[q].document
    <3>1. CASE q = r
      BY <2>2, <2>3, <2>4, <3>1
    <3>2. CASE q # r
      BY <2>2, <2>4, <3>2 DEF RequestsPlaced
    <3>3. QED
      BY <3>1, <3>2
  <2>5. QED
    BY <2>1, <2>4 DEF RequestsPlaced, Unrecorded
<1>3. ASSUME NEW r \in Request,
             BeginClaim(r) \/ Claim(r) \/ JoinActive(r) \/ JoinLatest(r) \/ Submit(r)
      PROVE  RequestsPlaced'
  <2>1. UNCHANGED <<minted, uploads>> /\ request[r].pc \in RequestInFlight
    BY <1>3 DEF BeginClaim, Claim, JoinActive, JoinLatest, Submit, storeVars, RequestInFlight
  <2>2. CASE Claim(r)
    BY <1>1, <2>1, <2>2, ClaimAnswers, RequestsPlacedKept DEF Unrecorded
  <2>3. CASE BeginClaim(r) \/ JoinActive(r) \/ JoinLatest(r) \/ Submit(r)
    <3>1. \A q \in Request : /\ request'[q].document = request[q].document
                             /\ q # r => request'[q] = request[q]
      BY <1>1, <2>3 DEF BeginClaim, JoinActive, JoinLatest, Submit, Requests
    <3>2. QED
      BY <2>1, <3>1, RequestsPlacedKept DEF Unrecorded
  <2>4. QED
    BY <1>3, <2>2, <2>3
<1>4. ASSUME NEW u \in Uploader, Upload(u) PROVE RequestsPlaced'
  <2>1. request' = request
    BY <1>4 DEF Upload
  <2>2. /\ minted \subseteq minted'
        /\ \A v \in Uploader : Unrecorded(v)' =>
             \/ Unrecorded(v) /\ uploads'[v].document = uploads[v].document
             \/ uploads'[v].document \notin minted
    <3>1. ASSUME NEW c \in Content, BeginUpload(u, c)
          PROVE  /\ minted' = minted
                 /\ \A v \in Uploader : Unrecorded(v)' =>
                      Unrecorded(v) /\ uploads'[v].document = uploads[v].document
      BY <1>1, <3>1 DEF BeginUpload, Unrecorded, StoreTypeOK
    <3>2. CASE FindByChecksum(u)
      BY <1>1, <3>2 DEF FindByChecksum, Unrecorded, StoreTypeOK
    <3>3. CASE WriteObject(u) \/ CreateRow(u) \/ Compensate(u)
      BY <1>1, <3>3 DEF WriteObject, CreateRow, Compensate, Unrecorded, StoreTypeOK
    <3>4. QED
      BY <1>4, <3>1, <3>2, <3>3 DEF Upload, UploadStep
  <2>3. QED
    BY <2>1, <2>2, RequestsPlacedKept
<1>5. CASE UNCHANGED <<minted, uploads, request>>
  BY <1>5, RequestsPlacedKept DEF Unrecorded
<1>6. CASE Crash
  <2>1. /\ minted' = minted
        /\ \A v \in Uploader : Unrecorded(v)' =>
             Unrecorded(v) /\ uploads'[v].document = uploads[v].document
    <3>1. CrashStore
      BY <1>6 DEF Crash
    <3>2. QED
      BY <3>1 DEF CrashStore, Unrecorded, UploadInFlight
  <2>2. \A r \in Request : request'[r].pc \notin RequestInFlight
    BY <1>1, <1>6 DEF Crash, Requests, RequestInFlight
  <2>3. QED
    BY <2>1, <2>2 DEF RequestsPlaced
<1>7. ASSUME NEW j \in Job, TaskStep(j) PROVE UNCHANGED <<minted, uploads, request>>
  BY <1>7 DEF TaskStep, StartJob, LookUp, Cancel, MarkProcessing, MarkReady, MarkFailed,
     SetDocument, Download, Extract, Clean, Split, Persist, Embed, Index, Advance,
     ReplaceChunks, EmbedTexts, GraphNode, GraphStale, GraphUpsert, Succeed, Fail, Finish,
     storeVars
<1>8. ASSUME NEW x \in Deleter, Delete(x) PROVE UNCHANGED <<minted, uploads, request>>
  BY <1>8 DEF Delete, DeleteStep, BeginDelete, RemoveObject, RemoveRow
<1>9. ASSUME NEW r \in Request, RequestStep(r) PROVE RequestsPlaced'
  BY <1>2, <1>3, <1>9 DEF RequestStep
<1>10. CASE UNCHANGED vars
  BY <1>5, <1>10 DEF vars, storeVars
<1>11. QED
  BY <1>4, <1>5, <1>6, <1>7, <1>8, <1>9, <1>10 DEF Next

\* Rows end, or go with all rows of their document, and no claim begins.
LEMMA OrderKept ==
  ASSUME OrderInv, TypeInv, RequestsPlaced',
         \A k \in Job :
           /\ job'[k].document = job[k].document /\ job'[k].attempt = job[k].attempt
           /\ job'[k].created = job[k].created /\ job'[k].inserted = job[k].inserted
           /\ job'[k].status = "unused" <=> job[k].status = "unused"
           /\ Exists(k)' => Exists(k)
           /\ Active(k)' => Active(k),
         \A j, k \in Job : Exists(j)' /\ Exists(k) /\ job[j].document = job[k].document
                             => Exists(k)',
         \A r \in Request : Inserting(r)' =>
           /\ Inserting(r)
           /\ request'[r].document = request[r].document
           /\ request'[r].claim = request[r].claim
           /\ Recorded(request[r].document)' =>
                /\ Recorded(request[r].document)
                /\ \A k \in JobsOf(request[r].document) : Exists(k)'
  PROVE  OrderInv'
<1>1. UsedJobs' = UsedJobs /\ Inserts' = Inserts
  BY DEF UsedJobs, Inserts
<1>2. RowsInOrder'
  <2>1. SUFFICES ASSUME NEW j \in Job, Exists(j)'
                 PROVE  /\ job'[j].attempt <= Cardinality(JobsOf(job[j].document)')
                        /\ job'[j].created < job'[j].inserted
                        /\ job'[j].inserted <= Inserts
    BY <1>1 DEF RowsInOrder
  <2>2. JobsOf(job[j].document)' = JobsOf(job[j].document)
    BY <2>1 DEF JobsOf
  <2>3. QED
    BY <2>1, <2>2 DEF OrderInv, RowsInOrder
<1>3. ActiveIsLast'
  BY DEF OrderInv, ActiveIsLast
<1>4. AttemptsInOrder'
  BY DEF OrderInv, AttemptsInOrder
<1>5. ClaimsInOrder'
  <2>1. SUFFICES ASSUME NEW r \in Request, Inserting(r)'
                 PROVE  /\ request[r].claim.created <= Inserts
                        /\ Recorded(request[r].document)' =>
                             request[r].claim.attempt
                               <= Cardinality(JobsOf(request[r].document)') + 1
                        /\ \A j \in JobsOf(request[r].document)' :
                             job'[j].inserted <= request[r].claim.created =>
                               job'[j].attempt < request[r].claim.attempt
    BY <1>1 DEF ClaimsInOrder
  <2>2. JobsOf(request[r].document)' \subseteq JobsOf(request[r].document)
    BY <2>1 DEF JobsOf
  <2>3. Recorded(request[r].document)' =>
          JobsOf(request[r].document)' = JobsOf(request[r].document)
    BY <2>1, <2>2 DEF JobsOf
  <2>4. \A j \in JobsOf(request[r].document)' :
          job'[j].inserted = job[j].inserted /\ job'[j].attempt = job[j].attempt
    BY <2>2 DEF JobsOf
  <2>5. QED
    BY <2>1, <2>2, <2>3, <2>4 DEF OrderInv, ClaimsInOrder
<1>6. QED
  BY <1>2, <1>3, <1>4, <1>5 DEF OrderInv

\* The rows stay, and a request at most leaves its insert.
LEMMA OrderUnmoved ==
  ASSUME OrderInv, TypeInv, RequestsPlaced', job' = job, status' = status,
         \A r \in Request : Inserting(r)' => request'[r] = request[r]
  PROVE  OrderInv'
<1>1. \A k \in Job : (Exists(k)' <=> Exists(k)) /\ (Active(k)' <=> Active(k))
  BY DEF Exists, Active
<1>2. ASSUME NEW r \in Request, Inserting(r)'
      PROVE  /\ Inserting(r) /\ request'[r] = request[r]
             /\ Recorded(request[r].document)' => Recorded(request[r].document)
             /\ \A k \in JobsOf(request[r].document) : Exists(k)'
  BY <1>1, <1>2 DEF Inserting, Recorded, JobsOf
<1>3. QED
  BY <1>1, <1>2, OrderKept

LEMMA OrderBeginClaim ==
  ASSUME OrderInv, TypeInv, RequestsPlaced', NEW r \in Request, BeginClaim(r)
  PROVE  OrderInv'
<1>. DEFINE d == request[r].document
            n == Cardinality(JobsOf(d))
<1>1. job \in [Job -> Jobs] /\ request \in [Request -> Requests] /\ IsFiniteSet(UsedJobs)
  BY TypeInvParts DEF PipelineTypes
<1>2. /\ request'[r].document = d
      /\ request'[r].claim = [created |-> Inserts, attempt |-> n + 1]
      /\ \A q \in Request \ {r} : request'[q] = request[q]
  BY <1>1 DEF BeginClaim, Requests, NextAttempt
<1>3. job' = job /\ status' = status
  BY DEF BeginClaim, storeVars
<1>4. /\ \A k \in Job : (Exists(k)' <=> Exists(k)) /\ (Active(k)' <=> Active(k))
      /\ \A e : JobsOf(e)' = JobsOf(e)
      /\ \A e : Recorded(e)' <=> Recorded(e)
      /\ Inserts' = Inserts
  BY <1>3 DEF Exists, Active, JobsOf, Recorded, Inserts
<1>5. RowsInOrder' /\ ActiveIsLast' /\ AttemptsInOrder'
  BY <1>3, <1>4 DEF OrderInv, RowsInOrder, ActiveIsLast, AttemptsInOrder
<1>6. n \in Nat /\ Inserts \in Nat
  BY <1>1, FiniteJobsOf, InsertsIsNat
<1>7. \A j \in JobsOf(d) : job[j].attempt \in Nat /\ job[j].attempt <= n
  BY <1>1 DEF OrderInv, RowsInOrder, JobsOf, Jobs
<1>8. ASSUME NEW q \in Request, Inserting(q)'
      PROVE  /\ request'[q].claim.created <= Inserts
             /\ Recorded(request'[q].document) =>
                  request'[q].claim.attempt <= Cardinality(JobsOf(request'[q].document)) + 1
             /\ \A j \in JobsOf(request'[q].document) :
                  job[j].inserted <= request'[q].claim.created =>
                    job[j].attempt < request'[q].claim.attempt
  <2>1. CASE q = r
    BY <1>2, <1>6, <1>7, <2>1
  <2>2. CASE q # r
    BY <1>2, <1>8, <2>2 DEF OrderInv, ClaimsInOrder, Inserting
  <2>3. QED
    BY <2>1, <2>2
<1>9. ClaimsInOrder'
  BY <1>3, <1>4, <1>8 DEF ClaimsInOrder
<1>10. QED
  BY <1>5, <1>9 DEF OrderInv

LEMMA OrderClaim ==
  ASSUME OrderInv, TypeInv, RequestsPlaced', NEW r \in Request, Claim(r)
  PROVE  OrderInv'
<1>. DEFINE d == request[r].document
            c == request[r].claim
            n == Cardinality(JobsOf(d))
<1>1. /\ job \in [Job -> Jobs] /\ request \in [Request -> Requests] /\ IsFiniteSet(UsedJobs)
      /\ d \in Document /\ c \in Claims /\ Inserting(r)
  BY TypeInvParts DEF PipelineTypes, Requests, Claim, RequestsBound, RequestInFlight, Inserting
<1>2. /\ status' = status
      /\ \A q \in Request \ {r} : request'[q] = request[q]
      /\ ~Inserting(r)'
  <2>1. status' = status
    BY DEF Claim, storeVars
  <2>2. QED
    BY <1>1, <2>1, ClaimAnswers DEF Inserting
<1>3. CASE job' = job
  BY <1>2, <1>3, OrderUnmoved
<1>4. ASSUME NEW j \in Job, job[j].status = "unused", Recorded(d), ActiveJobs(d) = {},
             job' = [job EXCEPT ![j] = QueuedJob(r)]
      PROVE  OrderInv'
  <2>1. /\ job'[j] = QueuedJob(r)
        /\ \A k \in Job \ {j} : job'[k] = job[k]
        /\ UsedJobs' = UsedJobs \cup {j} /\ j \notin UsedJobs /\ IsFiniteSet(UsedJobs)'
    BY <1>1, <1>4, ClaimedTypes
  <2>2. /\ job'[j].status = "queued" /\ job'[j].document = d
        /\ job'[j].attempt = c.attempt /\ job'[j].created = c.created
        /\ job'[j].inserted = Inserts + 1
    BY <2>1 DEF QueuedJob
  <2>3. Inserts \in Nat /\ Inserts' = Inserts + 1
    BY <1>1, <2>1, InsertsIsNat, FS_AddElement DEF Inserts, UsedJobs
  <2>4. ~Exists(j) /\ Exists(j)' /\ ~Active(j)
    BY <1>4, <2>2 DEF Exists, Active, ActiveStatus, TerminalStatus
  <2>5. \A k \in Job \ {j} : (Exists(k)' <=> Exists(k)) /\ (Active(k)' <=> Active(k))
    BY <2>1 DEF Exists, Active
  <2>. DEFINE after(e) == {k \in Job : Exists(k)' /\ job'[k].document = e}
  <2>6. after(d) = JobsOf(d) \cup {j} /\ j \notin JobsOf(d)
    BY <2>1, <2>2, <2>4, <2>5 DEF JobsOf
  <2>7. \A e : e # d => after(e) = JobsOf(e)
    BY <2>1, <2>2, <2>4, <2>5 DEF JobsOf
  <2>. HIDE DEF after
  <2>8. n \in Nat /\ Cardinality(after(d)) = n + 1
    BY <1>1, <2>6, FiniteJobsOf, FS_AddElement
  <2>9. /\ c.created \in Nat /\ c.attempt \in Nat /\ c.created <= Inserts /\ c.attempt <= n + 1
        /\ \A k \in JobsOf(d) : job[k].inserted <= c.created => job[k].attempt < c.attempt
    BY <1>1, <1>4 DEF OrderInv, ClaimsInOrder, Claims
  <2>10. \A k \in Job : Exists(k) =>
           /\ job[k].attempt \in Nat /\ job[k].created \in Nat /\ job[k].inserted \in Nat
           /\ job[k].attempt <= Cardinality(JobsOf(job[k].document))
           /\ job[k].created < job[k].inserted /\ job[k].inserted <= Inserts
    BY <1>1 DEF OrderInv, RowsInOrder, Jobs
  <2>11. \A k \in JobsOf(d) : k \in Job /\ Exists(k) /\ ~Active(k) /\ k # j
    BY <1>4, <2>4 DEF JobsOf, ActiveJobs
  <2>12. ASSUME NEW k \in Job, Exists(k)'
         PROVE  /\ job'[k].attempt <= Cardinality(after(job'[k].document))
                /\ job'[k].created < job'[k].inserted /\ job'[k].inserted <= Inserts + 1
    <3>1. CASE k = j
      BY <2>2, <2>3, <2>8, <2>9, <3>1
    <3>2. CASE k # j
      <4>1. job'[k] = job[k] /\ Exists(k)
        BY <2>1, <2>5, <2>12, <3>2
      <4>2. /\ Cardinality(JobsOf(job[k].document)) \in Nat
            /\ Cardinality(JobsOf(job[k].document)) <= Cardinality(after(job[k].document))
        <5>1. CASE job[k].document = d
          BY <2>8, <5>1
        <5>2. CASE job[k].document # d
          <6>1. after(job[k].document) = JobsOf(job[k].document)
            BY <2>7, <5>2
          <6>2. Cardinality(JobsOf(job[k].document)) \in Nat
            BY <1>1, FiniteJobsOf
          <6>3. QED
            BY <6>1, <6>2
        <5>3. QED
          BY <5>1, <5>2
      <4>3. /\ job[k].attempt \in Nat /\ job[k].created \in Nat /\ job[k].inserted \in Nat
            /\ job[k].attempt <= Cardinality(JobsOf(job[k].document))
            /\ job[k].created < job[k].inserted /\ job[k].inserted <= Inserts
        BY <2>10, <4>1
      <4>4. /\ job'[k].document = job[k].document /\ job'[k].attempt = job[k].attempt
            /\ job'[k].created = job[k].created /\ job'[k].inserted = job[k].inserted
        BY <4>1
      <4>5. Cardinality(after(job[k].document)) \in Nat
        <5>1. CASE job[k].document = d
          BY <2>8, <5>1
        <5>2. CASE job[k].document # d
          BY <2>7, <4>2, <5>2
        <5>3. QED
          BY <5>1, <5>2
      <4>6. job[k].attempt <= Cardinality(after(job[k].document))
        BY <4>2, <4>3, <4>5
      <4>7. QED
        BY <2>3, <4>3, <4>4, <4>6
    <3>3. QED
      BY <3>1, <3>2
  <2>13. RowsInOrder'
    BY <2>3, <2>12 DEF RowsInOrder, JobsOf, after
  <2>14. ActiveIsLast'
    <3>1. SUFFICES ASSUME NEW i \in Job, NEW k \in Job, Active(i)', Exists(k)',
                          job'[k].document = job'[i].document, k # i
                   PROVE  job'[k].inserted < job'[i].inserted
      BY DEF ActiveIsLast
    <3>2. CASE i = j
      <4>1. job'[k] = job[k] /\ Exists(k)
        BY <2>1, <2>5, <3>1, <3>2
      <4>2. QED
        BY <2>2, <2>3, <2>10, <3>2, <4>1
    <3>3. CASE i # j
      <4>1. job'[i] = job[i] /\ Active(i) /\ Exists(i)
        BY <2>1, <2>5, <3>1, <3>3 DEF Active, Exists
      <4>2. job[i].document # d
        BY <2>11, <4>1 DEF JobsOf
      <4>3. k # j
        BY <2>2, <3>1, <4>1, <4>2
      <4>4. job'[k] = job[k] /\ Exists(k)
        BY <2>1, <2>5, <3>1, <4>3
      <4>5. QED
        BY <3>1, <4>1, <4>4 DEF OrderInv, ActiveIsLast
    <3>4. QED
      BY <3>2, <3>3
  <2>15. AttemptsInOrder'
    <3>1. SUFFICES ASSUME NEW i \in Job, NEW k \in Job, Exists(i)', Exists(k)',
                          job'[i].document = job'[k].document,
                          job'[i].inserted <= job'[k].created
                   PROVE  job'[i].attempt < job'[k].attempt
      BY DEF AttemptsInOrder
    <3>2. CASE i = j
      <4>1. job'[k].created <= Inserts /\ job'[k].created \in Nat
        <5>1. CASE k = j
          BY <2>2, <2>9, <5>1
        <5>2. CASE k # j
          <6>1. job'[k] = job[k] /\ Exists(k)
            BY <2>1, <2>5, <3>1, <5>2
          <6>2. QED
            BY <2>3, <2>10, <6>1
        <5>3. QED
          BY <5>1, <5>2
      <4>2. QED
        BY <2>2, <2>3, <3>1, <3>2, <4>1
    <3>3. CASE i # j
      <4>1. job'[i] = job[i] /\ Exists(i)
        BY <2>1, <2>5, <3>1, <3>3
      <4>2. CASE k = j
        <5>1. i \in JobsOf(d)
          BY <2>2, <3>1, <4>1, <4>2 DEF JobsOf
        <5>2. QED
          BY <2>2, <2>9, <3>1, <4>1, <4>2, <5>1
      <4>3. CASE k # j
        <5>1. job'[k] = job[k] /\ Exists(k)
          BY <2>1, <2>5, <3>1, <4>3
        <5>2. QED
          BY <3>1, <4>1, <5>1 DEF OrderInv, AttemptsInOrder
      <4>4. QED
        BY <4>2, <4>3
    <3>4. QED
      BY <3>2, <3>3
  <2>16. ASSUME NEW q \in Request, Inserting(q)'
         PROVE  /\ request'[q].claim.created <= Inserts + 1
                /\ Recorded(request'[q].document) =>
                     request'[q].claim.attempt <= Cardinality(after(request'[q].document)) + 1
                /\ \A k \in after(request'[q].document) :
                     job'[k].inserted <= request'[q].claim.created =>
                       job'[k].attempt < request'[q].claim.attempt
    <3>. DEFINE e == request[q].document
    <3>1. q # r /\ request'[q] = request[q] /\ Inserting(q)
      BY <1>2, <2>16 DEF Inserting
    <3>2. /\ request[q].claim.created \in Nat /\ request[q].claim.attempt \in Nat
          /\ request[q].claim.created <= Inserts
          /\ Recorded(e) => request[q].claim.attempt <= Cardinality(JobsOf(e)) + 1
          /\ \A k \in JobsOf(e) : job[k].inserted <= request[q].claim.created =>
                                    job[k].attempt < request[q].claim.attempt
      BY <1>1, <3>1 DEF OrderInv, ClaimsInOrder, Requests, Claims
    <3>3. Recorded(e) => request[q].claim.attempt <= Cardinality(after(e)) + 1
      <4>1. CASE e = d
        BY <2>8, <3>2, <4>1
      <4>2. CASE e # d
        BY <2>7, <3>2, <4>2
      <4>3. QED
        BY <4>1, <4>2
    <3>4. ASSUME NEW k \in after(e), job'[k].inserted <= request[q].claim.created
          PROVE  job'[k].attempt < request[q].claim.attempt
      <4>1. k # j /\ k \in Job
        BY <2>2, <2>3, <3>2, <3>4 DEF after
      <4>2. k \in JobsOf(e) /\ job'[k] = job[k]
        BY <2>1, <2>5, <3>4, <4>1 DEF JobsOf, after
      <4>3. QED
        BY <3>2, <3>4, <4>2
    <3>5. request[q].claim.created <= Inserts + 1
      BY <2>3, <3>2
    <3>6. QED
      BY <3>1, <3>3, <3>4, <3>5
  <2>17. ClaimsInOrder'
    BY <1>2, <2>3, <2>16 DEF ClaimsInOrder, JobsOf, Recorded, after
  <2>18. QED
    BY <2>13, <2>14, <2>15, <2>17 DEF OrderInv
<1>5. QED
  BY <1>3, <1>4, ClaimInserts

LEMMA OrderTask ==
  ASSUME OrderInv, TypeInv, RequestsPlaced', NEW j \in Job, TaskStep(j)
  PROVE  OrderInv'
<1>1. /\ job \in [Job -> Jobs]
      /\ status \in [Document -> DocumentStatus \cup {"absent"}]
      /\ \A r \in Request : Inserting(r) => request[r].document \in Document
  BY TypeInvParts DEF PipelineTypes, StoreInv, StoreTypeOK, RequestsBound, RequestInFlight,
     Inserting
<1>2. request' = request
  BY DEF TaskStep, StartJob, LookUp, Cancel, MarkProcessing, MarkReady, MarkFailed,
     SetDocument, Download, Extract, Clean, Split, Persist, Embed, Index, Advance,
     ReplaceChunks, EmbedTexts, GraphNode, GraphStale, GraphUpsert, Succeed, Fail, Finish
<1>3. \A d \in Document : Recorded(d)' => Recorded(d)
  BY <1>1 DEF TaskStep, StartJob, LookUp, Cancel, MarkProcessing, MarkReady, MarkFailed,
     SetDocument, Download, Extract, Clean, Split, Persist, Embed, Index, Advance,
     ReplaceChunks, EmbedTexts, GraphNode, GraphStale, GraphUpsert, Succeed, Fail, Finish,
     storeVars, Recorded, StatusSet
<1>4. ASSUME /\ \A k \in Job \ {j} : job'[k] = job[k]
             /\ job'[j].document = job[j].document /\ job'[j].attempt = job[j].attempt
             /\ job'[j].created = job[j].created /\ job'[j].inserted = job[j].inserted
             /\ \/ job'[j].status = job[j].status
                \/ Active(j) /\ job'[j].status \in TerminalStatus \cup {"running"}
      PROVE  OrderInv'
  <2>1. \A k \in Job :
          /\ job'[k].document = job[k].document /\ job'[k].attempt = job[k].attempt
          /\ job'[k].created = job[k].created /\ job'[k].inserted = job[k].inserted
          /\ job'[k].status = "unused" <=> job[k].status = "unused"
          /\ Exists(k)' <=> Exists(k)
          /\ Active(k)' => Active(k)
    BY <1>4 DEF Exists, Active, ActiveStatus, TerminalStatus
  <2>2. \A r \in Request : Inserting(r)' =>
          /\ Inserting(r) /\ request'[r] = request[r]
          /\ Recorded(request[r].document)' => Recorded(request[r].document)
          /\ \A k \in JobsOf(request[r].document) : Exists(k)'
    BY <1>1, <1>2, <1>3, <2>1 DEF Inserting, JobsOf
  <2>3. QED
    BY <2>1, <2>2, OrderKept
<1>5. CASE job' = job
  BY <1>4, <1>5
<1>6. CASE StartJob(j)
  BY <1>1, <1>4, <1>5, <1>6 DEF StartJob, Active, ActiveStatus, Jobs
<1>7. ASSUME NEW outcome \in TerminalStatus, job' = Finished(j, outcome) PROVE OrderInv'
  BY <1>1, <1>4, <1>5, <1>7 DEF Finished, Jobs
<1>8. ASSUME NEW stage, job' = Advanced(j, stage) PROVE OrderInv'
  BY <1>1, <1>4, <1>5, <1>8 DEF Advanced, Jobs
<1>9. CASE Cancel(j) \/ Succeed(j) \/ Fail(j)
  BY <1>5, <1>7, <1>9 DEF Cancel, Succeed, Fail, Finish, TerminalStatus
<1>10. CASE Extract(j) \/ Clean(j) \/ Split(j) \/ Persist(j) \/ Embed(j) \/ Index(j)
  BY <1>5, <1>8, <1>10 DEF Extract, Clean, Split, Persist, Embed, Index, Advance
<1>11. QED
  BY <1>5, <1>6, <1>9, <1>10 DEF TaskStep, LookUp, MarkProcessing, MarkReady, MarkFailed,
     SetDocument, Download, ReplaceChunks, EmbedTexts, GraphNode, GraphStale, GraphUpsert

LEMMA OrderDelete ==
  ASSUME OrderInv, TypeInv, RequestsPlaced', NEW x \in Deleter, Delete(x)
  PROVE  OrderInv'
<1>1. job \in [Job -> Jobs] /\ status \in [Document -> DocumentStatus \cup {"absent"}]
  BY TypeInvParts DEF PipelineTypes, StoreInv, StoreTypeOK
<1>2. ASSUME NEW k \in Job
      PROVE  /\ job'[k].document = job[k].document /\ job'[k].attempt = job[k].attempt
             /\ job'[k].created = job[k].created /\ job'[k].inserted = job[k].inserted
             /\ job'[k].status = "unused" <=> job[k].status = "unused"
             /\ Exists(k)' <=> Exists(k) /\ status'[job[k].document] # "absent"
             /\ Active(k)' => Active(k)
  <2>1. job[k] \in Jobs
    BY <1>1
  <2>2. CASE Exists(k) /\ status'[job[k].document] = "absent"
    <3>1. job'[k] = [job[k] EXCEPT !.status = "gone"]
      BY <2>2 DEF Delete, Cascade
    <3>2. /\ job'[k].status = "gone" /\ job'[k].document = job[k].document
          /\ job'[k].attempt = job[k].attempt
          /\ job'[k].created = job[k].created /\ job'[k].inserted = job[k].inserted
      BY <2>1, <3>1 DEF Jobs
    <3>3. QED
      BY <2>2, <3>2 DEF Exists, Active, ActiveStatus, TerminalStatus
  <2>3. CASE ~(Exists(k) /\ status'[job[k].document] = "absent")
    <3>1. job'[k] = job[k]
      BY <2>3 DEF Delete, Cascade
    <3>2. QED
      BY <2>3, <3>1 DEF Exists, Active
  <2>4. QED
    BY <2>2, <2>3
<1>3. request' = request /\ \A d \in Document : Recorded(d)' => Recorded(d)
  BY <1>1 DEF Delete, DeleteStep, BeginDelete, RemoveObject, RemoveRow, RowRemoved, Recorded
<1>4. \A r \in Request : Inserting(r) => request[r].document \in Document
  BY TypeInvParts DEF RequestsBound, RequestInFlight, Inserting
<1>5. ASSUME NEW r \in Request, Inserting(r)'
      PROVE  /\ Inserting(r) /\ request'[r] = request[r]
             /\ Recorded(request[r].document)' =>
                  /\ Recorded(request[r].document)
                  /\ \A k \in JobsOf(request[r].document) : Exists(k)'
  BY <1>2, <1>3, <1>4, <1>5 DEF Inserting, JobsOf, Recorded
<1>6. QED
  BY <1>2, <1>5, OrderKept

\* An upload writes a row of its own document, about which there is no request.
LEMMA OrderUpload ==
  ASSUME OrderInv, TypeInv, RequestsPlaced', NEW u \in Uploader, Upload(u)
  PROVE  OrderInv'
<1>1. /\ status \in [Document -> DocumentStatus \cup {"absent"}]
      /\ \A r \in Request : Inserting(r) =>
           /\ request[r].document \in Document
           /\ Unrecorded(u) => uploads[u].document # request[r].document
  BY TypeInvParts DEF StoreInv, StoreTypeOK, RequestsBound, RequestInFlight, Inserting,
     OrderInv, RequestsPlaced
<1>2. job' = job /\ request' = request
  BY DEF Upload
<1>3. \/ status' = status
      \/ /\ Unrecorded(u)
         /\ status' = [status EXCEPT ![uploads[u].document] = "uploaded"]
  BY DEF Upload, UploadStep, BeginUpload, FindByChecksum, WriteObject, CreateRow, Compensate,
     Unrecorded
<1>4. ASSUME NEW r \in Request, Inserting(r)'
      PROVE  /\ Inserting(r) /\ request'[r] = request[r]
             /\ Recorded(request[r].document)' => Recorded(request[r].document)
             /\ \A k \in JobsOf(request[r].document) : Exists(k)'
  BY <1>1, <1>2, <1>3, <1>4 DEF Inserting, JobsOf, Recorded, Exists
<1>5. \A k \in Job : (Exists(k)' <=> Exists(k)) /\ (Active(k)' <=> Active(k))
  BY <1>2 DEF Exists, Active
<1>6. QED
  BY <1>2, <1>4, <1>5, OrderKept

LEMMA OrderInductive == TypeInv /\ RunInv /\ OrderInv /\ [Next]_vars => OrderInv'
<1>1. SUFFICES ASSUME TypeInv, RunInv, OrderInv, [Next]_vars PROVE OrderInv'
  OBVIOUS
<1>2. RequestsPlaced'
  BY <1>1, RequestsPlacedInductive DEF OrderInv
<1>3. request \in [Request -> Requests]
  BY <1>1, TypeInvParts DEF PipelineTypes
<1>4. ASSUME NEW r \in Request, RequestStep(r) PROVE OrderInv'
  <2>1. CASE BeginClaim(r)
    BY <1>1, <1>2, <2>1, OrderBeginClaim
  <2>2. CASE Claim(r)
    BY <1>1, <1>2, <2>2, OrderClaim
  <2>3. ASSUME NEW d \in Document, RequestProcessing(r, d) PROVE OrderInv'
    <3>1. job' = job /\ status' = status
      BY <2>3 DEF RequestProcessing, storeVars
    <3>2. \A q \in Request : Inserting(q)' => request'[q] = request[q]
      BY <1>3, <2>3 DEF RequestProcessing, Inserting, Requests
    <3>3. QED
      BY <1>1, <1>2, <3>1, <3>2, OrderUnmoved
  <2>4. CASE JoinActive(r) \/ JoinLatest(r) \/ Submit(r)
    <3>1. job' = job /\ status' = status
      BY <2>4 DEF JoinActive, JoinLatest, Submit, storeVars
    <3>2. \A q \in Request : Inserting(q)' => request'[q] = request[q]
      BY <1>3, <2>4 DEF JoinActive, JoinLatest, Submit, Inserting, Requests
    <3>3. QED
      BY <1>1, <1>2, <3>1, <3>2, OrderUnmoved
  <2>5. QED
    BY <1>4, <2>1, <2>2, <2>3, <2>4 DEF RequestStep
<1>5. ASSUME NEW j \in Job, TaskStep(j) PROVE OrderInv'
  BY <1>1, <1>2, <1>5, OrderTask
<1>6. ASSUME NEW u \in Uploader, Upload(u) PROVE OrderInv'
  BY <1>1, <1>2, <1>6, OrderUpload
<1>7. ASSUME NEW x \in Deleter, Delete(x) PROVE OrderInv'
  BY <1>1, <1>2, <1>7, OrderDelete
<1>8. CASE Crash
  <2>1. job' = job /\ status' = status
    BY <1>8 DEF Crash, CrashStore
  <2>2. \A r \in Request : ~Inserting(r)'
    BY <1>3, <1>8 DEF Crash, Requests, RequestInFlight, Inserting
  <2>3. QED
    BY <1>1, <1>2, <2>1, <2>2, OrderUnmoved
<1>9. CASE UNCHANGED vars
  BY <1>1, <1>2, <1>9, OrderUnmoved DEF vars, storeVars
<1>10. QED
  BY <1>1, <1>4, <1>5, <1>6, <1>7, <1>8, <1>9 DEF Next

LEMMA InitOrder == Init => OrderInv
BY DEF Init, OrderInv, RequestsPlaced, RowsInOrder, ActiveIsLast, AttemptsInOrder, ClaimsInOrder,
   Inserting, RequestInFlight, Exists, Active, NewJob, NewRequest, ActiveStatus, TerminalStatus

\* For any number of claims, runs, deletes and restarts: the row a claim inserts
\* is the last of its document, so what hides it is an earlier row with a newer
\* stamp, whose claim ended only after this one had taken its own.
THEOREM JobsHiddenOnlyByOverlap == Spec => []HiddenOnlyByOverlap
<1>1. TypeInv /\ OrderInv => HiddenOnlyByOverlap
  <2>1. SUFFICES ASSUME TypeInv, OrderInv, NEW j \in Job, Active(j),
                        NEW k \in LatestJobs(job[j].document) \ {j}
                 PROVE  job[j].created < job[k].inserted /\ job[k].inserted < job[j].inserted
    BY DEF HiddenOnlyByOverlap
  <2>2. k \in Job /\ Exists(k) /\ job[k].document = job[j].document /\ Exists(j)
    BY <2>1 DEF LatestJobs, JobsOf, Exists, Active
  <2>3. job[j] \in Jobs /\ job[k] \in Jobs
    BY <2>1, <2>2, TypeInvParts DEF PipelineTypes
  <2>4. job[j].created <= job[k].created
    BY <2>1, <2>2 DEF LatestJobs, JobsOf
  <2>5. job[k].created < job[k].inserted
    BY <2>1, <2>2 DEF OrderInv, RowsInOrder
  <2>6. job[k].inserted < job[j].inserted
    BY <2>1, <2>2 DEF OrderInv, ActiveIsLast
  <2>7. QED
    BY <2>3, <2>4, <2>5, <2>6 DEF Jobs
<1>2. TypeInv /\ RunInv /\ OrderInv /\ [Next]_vars => (TypeInv /\ RunInv /\ OrderInv)'
  BY TypeInvInductive, RunInvInductive, OrderInductive
<1>3. QED
  BY <1>1, <1>2, InitTypes, InitRuns, InitOrder, PTL DEF Spec

\* Attempt numbers grow from one claim to the next, although each is counted in
\* a snapshot older than the insert that uses it.
THEOREM AttemptsAreInOrder == Spec => []AttemptsInOrder
<1>1. TypeInv /\ RunInv /\ OrderInv /\ [Next]_vars => (TypeInv /\ RunInv /\ OrderInv)'
  BY TypeInvInductive, RunInvInductive, OrderInductive
<1>2. OrderInv => AttemptsInOrder
  BY DEF OrderInv
<1>3. QED
  BY <1>1, <1>2, InitTypes, InitRuns, InitOrder, PTL DEF Spec

-----------------------------------------------------------------------------
(* The stop of the process.                                                *)

\* Calls of a run whose failure it does not record.
Unguarded == TaskRunning \ InsideTry

\* What is asked of the database: that it answers these, and that no claim
\* commits without its answer.
UnguardedHold ==
  /\ (MayRefuse \cup MayLose) \cap Unguarded = {}
  /\ "claim" \notin MayLose

LEMMA UnguardedAnswers ==
  ASSUME UnguardedHold
  PROVE  /\ \A call \in Unguarded : Answers(call) = {"ok"}
         /\ Answers("claim") \subseteq {"ok", "refused"}
BY DEF UnguardedHold, Answers

LEMMA UnguardedAre ==
  Unguarded = {"start", "lookup", "mark", "cancel", "finish", "fail", "ready", "failed"}
BY DEF Unguarded, TaskRunning, Pipeline, InsideTry

-----------------------------------------------------------------------------
(* Types of the process on its way down.                                    *)

PhaseOK == phase \in {"serving", "draining", "drained", "http", "graph", "closed"}

LEMMA CutTypes ==
  ASSUME TypeInv, NEW j \in Job, Cut(j)
  PROVE  TypeInv'
<1>1. StoreInv /\ PipelineTypes
  BY TypeInvParts
<1>2. task' \in [Job -> TaskPc] /\ \A k \in Job : task'[k] \in TaskRunning => task[k] \in TaskRunning
  BY <1>1 DEF PipelineTypes, Cut, Raised, TaskPc, TaskRunning, Pipeline
<1>3. StoreInv'
  BY <1>1 DEF Cut, storeVars, StoreInv, StoreTypeOK, StoreCallsBound, Recorded
<1>4. PipelineTypes'
  BY <1>1, <1>2 DEF Cut, PipelineTypes, storeVars, tableVars, graphVars
<1>5. QED
  BY <1>2, <1>3, <1>4, NothingNew DEF Cut

LEMMA LifeTypes == TypeInv /\ PhaseOK /\ [LifeNext]_lifeVars => (TypeInv /\ PhaseOK)'
<1>1. SUFFICES ASSUME TypeInv, PhaseOK, [LifeNext]_lifeVars PROVE TypeInv' /\ PhaseOK'
  OBVIOUS
<1>2. [Next]_vars => TypeInv'
  BY <1>1, TypeInvInductive
<1>3. TypeInv'
  BY <1>1, <1>2, CutTypes
  DEF LifeNext, Serve, Run, BeginShutdown, EndDrain, Close, Restart, Next, lifeVars
<1>4. PhaseOK'
  BY <1>1 DEF PhaseOK, LifeNext, Serve, Run, BeginShutdown, EndDrain, Close, Restart, Phases,
     lifeVars
<1>5. QED
  BY <1>3, <1>4

-----------------------------------------------------------------------------
(* Who holds a job.                                                         *)

Submits(r, j) == request[r].pc = "submit" /\ request[r].job = j

Held(j) ==
  \/ task[j] \in TaskRunning
  \/ \E r \in Request : Submits(r, j)
  \/ j \in abandoned

\* A job waits for its start, and has ended when its document is written.
InPlace(j) ==
  /\ task[j] = "start" => job[j].status \in {"queued", "gone"}
  /\ task[j] \in {"ready", "failed"} => ~Active(j)

\* A job is submitted once.
Submitted(r) ==
  request[r].pc = "submit" =>
    /\ task[request[r].job] \notin TaskRunning
    /\ job[request[r].job].status \in {"queued", "gone"}
    /\ \A q \in Request \ {r} : ~Submits(q, request[r].job)

HeldInv ==
  /\ \A j \in Job : InPlace(j) /\ (Active(j) => Held(j))
  /\ \A r \in Request : Submitted(r)

\* How far down the process is bounds what it may still have to do.
DownInv ==
  /\ phase # "serving" => \A r \in Request : request[r].pc \notin RequestInFlight
  /\ phase \notin {"serving", "draining"} => Pending \subseteq abandoned

\* A step of the task of one job.
LEMMA OneTask ==
  ASSUME HeldInv, TypeInv, NEW j \in Job, UNCHANGED <<request, abandoned>>,
         task[j] \in TaskRunning,
         \A k \in Job \ {j} : task'[k] = task[k] /\ job'[k] = job[k],
         InPlace(j)', Active(j)' => Held(j)'
  PROVE  HeldInv'
<1>1. ASSUME NEW k \in Job \ {j} PROVE InPlace(k)' /\ (Active(k)' => Held(k)')
  BY <1>1 DEF HeldInv, InPlace, Held, Active, Submits
<1>2. ASSUME NEW r \in Request PROVE Submitted(r)'
  <2>1. request[r].pc = "submit" => request[r].job \in Job \ {j}
    BY DEF HeldInv, Submitted, TypeInv, RequestsBound
  <2>2. QED
    BY <2>1 DEF HeldInv, Submitted, Submits
<1>3. QED
  BY <1>1, <1>2 DEF HeldInv

LEMMA ProceedTo ==
  ASSUME UnguardedHold, TypeInv, NEW j \in Job, NEW next \in TaskPc,
         NEW given, NEW answer \in Answers(task[j]), task[j] \in TaskRunning,
         given \in {answer, "refused"}, given = answer \/ task[j] \in InsideTry,
         Proceed(j, given, next)
  PROVE  /\ \A k \in Job \ {j} : task'[k] = task[k]
         /\ task[j] \notin InsideTry => answer = "ok" /\ task'[j] = next
         /\ task[j] \in InsideTry => task'[j] \in {next, "fail"}
<1>1. task \in [Job -> TaskPc]
  BY TypeInvParts DEF PipelineTypes
<1>2. task[j] \notin InsideTry => answer = "ok"
  BY UnguardedAnswers DEF Unguarded
<1>3. QED
  BY <1>1, <1>2 DEF Proceed, Raised

\* Every ending of a task is one after the end of its job.
LEMMA TaskHolds ==
  ASSUME UnguardedHold, HeldInv, TypeInv, NEW j \in Job, TaskStep(j), UNCHANGED abandoned
  PROVE  /\ HeldInv'
         /\ request' = request
         /\ \A k \in Job : task'[k] \in TaskRunning => task[k] \in TaskRunning
         /\ \A k \in Job : task'[k] = "dead" => task[k] = "dead"
<1>1. /\ task[j] \in TaskRunning /\ job \in [Job -> Jobs] /\ InPlace(j)
      /\ UNCHANGED request
  BY TypeInvParts DEF PipelineTypes, HeldInv, TaskStep, StartJob, LookUp, Cancel,
     MarkProcessing, MarkReady, MarkFailed,
     SetDocument, Download, Extract, Clean, Split, Persist, Embed, Index, Advance, ReplaceChunks,
     EmbedTexts, GraphNode, GraphStale, GraphUpsert, Succeed, Fail, Finish,
     TaskRunning, Pipeline, InsideTry
<1>2. \A k \in Job \ {j} : job'[k] = job[k]
  BY <1>1 DEF TaskStep, StartJob, LookUp, Cancel, MarkProcessing, MarkReady, MarkFailed,
     SetDocument, Download, Extract, Clean, Split, Persist, Embed, Index, Advance, Advanced,
     ReplaceChunks, EmbedTexts, GraphNode, GraphStale, GraphUpsert, Succeed, Fail, Finish,
     Finished
<1> DEFINE Other == \A k \in Job \ {j} : task'[k] = task[k]
<1> DEFINE Goes  == task'[j] \in TaskRunning \ {"start", "ready", "failed"}
<1> DEFINE Ends  == task'[j] \in {"ready", "failed", "done"} /\ ~Active(j)'
<1>3. Other /\ (Goes \/ Ends)
  <2>1. CASE StartJob(j)
    <3>1. PICK answer \in Answers("start") :
            Proceed(j, answer, IF job[j].status = "queued" THEN "lookup" ELSE "done")
      BY <2>1 DEF StartJob
    <3>2. task[j] = "start" /\ "start" \notin InsideTry
          /\ {"lookup", "done"} \subseteq TaskPc /\ "lookup" \in TaskRunning
      BY <2>1 DEF StartJob, InsideTry, TaskPc, TaskRunning, Pipeline
    <3>3. Other /\ task'[j] = IF job[j].status = "queued" THEN "lookup" ELSE "done"
      BY <1>1, <3>1, <3>2, ProceedTo
    <3>4. job[j].status # "queued" => ~Active(j)'
      BY <1>1, <2>1, <3>2 DEF StartJob, InPlace, Active, ActiveStatus
    <3>5. QED
      BY <3>2, <3>3, <3>4
  <2>2. CASE LookUp(j)
    <3>1. PICK answer \in Answers("lookup"), next \in {"mark", "cancel"} :
            Proceed(j, answer, next)
      BY <2>2 DEF LookUp
    <3>2. task[j] = "lookup" /\ "lookup" \notin InsideTry
          /\ {"mark", "cancel"} \subseteq TaskPc \cap TaskRunning
      BY <2>2 DEF LookUp, InsideTry, TaskPc, TaskRunning, Pipeline
    <3>3. QED
      BY <1>1, <3>1, <3>2, ProceedTo
  <2>3. ASSUME NEW at \in {"cancel", "finish", "fail"}, NEW outcome \in TerminalStatus,
               NEW next \in {"done", "ready", "failed"}, task[j] = at,
               NEW answer \in Answers(at), Proceed(j, answer, next),
               job' = IF TookEffect(answer) THEN Finished(j, outcome) ELSE job
        PROVE  Other /\ Ends
    <3>1. at \notin InsideTry /\ next \in TaskPc
      BY DEF InsideTry, TaskPc, TaskRunning
    <3>2. Other /\ answer = "ok" /\ task'[j] = next
      BY <1>1, <2>3, <3>1, ProceedTo
    <3>3. ~Active(j)'
      BY <1>1, <2>3, <3>2 DEF TookEffect, Finished, Active, ActiveStatus, TerminalStatus, Jobs
    <3>4. QED
      BY <3>2, <3>3
  <2>4. ASSUME NEW at \in {"ready", "failed"}, NEW s, SetDocument(j, at, s, "done")
        PROVE  Other /\ Ends
    <3>1. PICK answer \in Answers(at) : Proceed(j, answer, "done")
      BY <2>4 DEF SetDocument
    <3>2. task[j] = at /\ at \notin InsideTry /\ "done" \in TaskPc /\ job' = job
      BY <2>4 DEF SetDocument, InsideTry, TaskPc
    <3>3. Other /\ task'[j] = "done"
      BY <1>1, <3>1, <3>2, ProceedTo
    <3>4. QED
      BY <1>1, <3>2, <3>3 DEF InPlace, Active
  <2>5. CASE MarkProcessing(j)
    <3>1. PICK answer \in Answers("mark") : Proceed(j, answer, "download")
      BY <2>5 DEF MarkProcessing, SetDocument
    <3>2. task[j] = "mark" /\ "mark" \notin InsideTry /\ "download" \in TaskPc \cap TaskRunning
      BY <2>5 DEF MarkProcessing, SetDocument, InsideTry, TaskPc, TaskRunning, Pipeline
    <3>3. QED
      BY <1>1, <3>1, <3>2, ProceedTo
  <2>6. ASSUME task[j] \in InsideTry,
               NEW answer \in Answers(task[j]), NEW given \in {answer, "refused"},
               NEW next \in InsideTry \cup {"finish"}, Proceed(j, given, next)
        PROVE  Other /\ Goes
    <3>1. next \in TaskPc /\ InsideTry \cup {"finish", "fail"}
                                  \subseteq TaskRunning \ {"start", "ready", "failed"}
      BY DEF InsideTry, TaskPc, TaskRunning, Pipeline
    <3>2. QED
      BY <1>1, <2>6, <3>1, ProceedTo
  <2>7. CASE Download(j) \/ EmbedTexts(j)
    BY <2>6, <2>7 DEF Download, EmbedTexts, InsideTry
  <2>8. CASE Extract(j) \/ Clean(j) \/ Split(j) \/ Persist(j) \/ Embed(j) \/ Index(j)
    BY <2>6, <2>8 DEF Extract, Clean, Split, Persist, Embed, Index, Advance, InsideTry
  <2>9. CASE ReplaceChunks(j)
    BY <2>6, <2>9 DEF ReplaceChunks, InsideTry
  <2>10. CASE GraphNode(j) \/ GraphStale(j) \/ GraphUpsert(j)
    BY <2>6, <2>10 DEF GraphNode, GraphStale, GraphUpsert, InsideTry
  <2>11. CASE Cancel(j) \/ Succeed(j) \/ Fail(j)
    BY <2>3, <2>11 DEF Cancel, Succeed, Fail, Finish, TerminalStatus
  <2>12. CASE MarkReady(j) \/ MarkFailed(j)
    BY <2>4, <2>12 DEF MarkReady, MarkFailed
  <2>13. QED
    BY <2>1, <2>2, <2>5, <2>7, <2>8, <2>9, <2>10, <2>11, <2>12 DEF TaskStep
<1>4. InPlace(j)' /\ (Active(j)' => Held(j)')
  BY <1>3 DEF InPlace, Held
<1>5. HeldInv'
  BY <1>1, <1>2, <1>3, <1>4, OneTask
<1>6. "dead" \notin TaskRunning
  BY DEF TaskRunning, Pipeline, InsideTry
<1>7. QED
  BY <1>1, <1>3, <1>5, <1>6

\* A call on a closed client is made by a task that the drain gave up.
LEMMA CutHolds ==
  ASSUME HeldInv, TypeInv, PhaseOK, DownInv, NEW j \in Job, Cut(j), UNCHANGED abandoned
  PROVE  /\ HeldInv'
         /\ request' = request
         /\ \A k \in Job : task'[k] \in TaskRunning => task[k] \in TaskRunning
         /\ \A k \in Job : task'[k] = "dead" /\ task[k] # "dead" => phase = "closed"
<1>1. /\ task \in [Job -> TaskPc] /\ job' = job /\ UNCHANGED <<request, abandoned>>
      /\ task[j] \in TaskRunning /\ ~Usable(task[j])
      /\ \A k \in Job \ {j} : task'[k] = task[k]
      /\ task'[j] = Raised(j)
  BY TypeInvParts DEF PipelineTypes, Cut
<1>2. phase \notin {"serving", "draining", "drained"}
        /\ (task[j] \notin InsideTry => phase = "closed")
  <2>1. ASSUME NEW m \in 1..6, NEW n \in 1..6, m < n,
               phase = Phases[m], ClosedIn(task[j]) = Phases[n]
        PROVE  FALSE
    BY <1>1, <2>1 DEF Usable, Before, Phases
  <2>2. ClosedIn(task[j]) \in {"http", "graph", "closed"}
        /\ (task[j] \notin InsideTry => ClosedIn(task[j]) = "closed")
    BY DEF ClosedIn, InsideTry
  <2>3. /\ Phases[1] = "serving" /\ Phases[2] = "draining" /\ Phases[3] = "drained"
        /\ Phases[4] = "http" /\ Phases[5] = "graph" /\ Phases[6] = "closed"
    BY DEF Phases
  <2>4. phase \notin {"serving", "draining", "drained"}
    BY <2>1, <2>2, <2>3
  <2>5. task[j] \notin InsideTry => phase = "closed"
    BY <2>1, <2>2, <2>3 DEF PhaseOK
  <2>6. QED
    BY <2>4, <2>5
<1>3. j \in abandoned
  BY <1>1, <1>2 DEF DownInv, Pending
<1>4. Raised(j) \in {"fail", "dead"} /\ (Raised(j) = "dead" => task[j] \notin InsideTry)
  BY DEF Raised
<1>5. InPlace(j)' /\ (Active(j)' => Held(j)')
  BY <1>1, <1>3, <1>4 DEF InPlace, Held
<1>6. HeldInv'
  BY <1>1, <1>5, OneTask
<1>7. QED
  BY <1>1, <1>2, <1>4, <1>6

LEMMA RequestHolds ==
  ASSUME UnguardedHold, HeldInv, TypeInv, NEW r \in Request, RequestStep(r), UNCHANGED abandoned
  PROVE  HeldInv' /\ \A k \in Job : task'[k] = "dead" => task[k] = "dead"
<1>1. /\ task \in [Job -> TaskPc] /\ job \in [Job -> Jobs]
      /\ request \in [Request -> Requests]
  BY TypeInvParts DEF PipelineTypes
<1>2. \A q \in Request \ {r} : request'[q] = request[q]
  BY <1>1 DEF RequestStep, RequestProcessing, BeginClaim, Claim, JoinActive, JoinLatest, Submit
<1>3. ASSUME request[r].pc # "submit", request'[r].pc # "submit", UNCHANGED <<job, task>>
      PROVE  HeldInv'
  <2>1. \A q \in Request : \A k : Submits(q, k)' <=> Submits(q, k)
    BY <1>2, <1>3 DEF Submits
  <2>2. \A k \in Job : InPlace(k)' /\ (Active(k)' => Held(k)')
    BY <1>3, <2>1 DEF HeldInv, InPlace, Held, Active
  <2>3. \A q \in Request : Submitted(q)'
    BY <1>2, <1>3, <2>1 DEF HeldInv, Submitted
  <2>4. QED
    BY <2>2, <2>3 DEF HeldInv
<1>4. ASSUME NEW j \in Job, Fresh(j), request[r].pc # "submit",
             request'[r].pc = "submit", request'[r].job = j, task' = task,
             \A k \in Job \ {j} : job'[k] = job[k], job'[j].status = "queued"
      PROVE  HeldInv'
  <2>1. task[j] \notin TaskRunning
    BY <1>4 DEF TypeInv, JobsBound, Fresh
  <2>2. \A q \in Request : ~Submits(q, j)
    BY <1>4 DEF HeldInv, Submitted, Submits, Fresh
  <2>3. \A k \in Job \ {j} : \A q \in Request : Submits(q, k)' <=> Submits(q, k)
    BY <1>2, <1>4 DEF Submits
  <2>4. InPlace(j)' /\ Held(j)'
    BY <1>4, <2>1 DEF InPlace, Held, Submits, TaskRunning
  <2>5. \A k \in Job \ {j} : InPlace(k)' /\ (Active(k)' => Held(k)')
    BY <1>4, <2>3 DEF HeldInv, InPlace, Held, Active
  <2>6. \A q \in Request : Submitted(q)'
    BY <1>2, <1>4, <2>1, <2>2, <2>3 DEF HeldInv, Submitted, Submits, TypeInv, RequestsBound
  <2>7. QED
    BY <2>4, <2>5, <2>6 DEF HeldInv
<1>5. CASE Submit(r)
  <2>1. PICK j \in Job : request[r].job = j
    BY <1>5 DEF Submit, TypeInv, RequestsBound
  <2>2. /\ request[r].pc = "submit" /\ request'[r].pc # "submit" /\ job' = job
        /\ task'[j] = "start" /\ \A k \in Job \ {j} : task'[k] = task[k]
    BY <1>1, <1>5, <2>1 DEF Submit
  <2>3. job[j].status \in {"queued", "gone"} /\ \A q \in Request \ {r} : ~Submits(q, j)
    BY <2>1, <2>2 DEF HeldInv, Submitted
  <2>4. \A k \in Job \ {j} : \A q \in Request : Submits(q, k) => Submits(q, k)' /\ q # r
    BY <1>2, <2>1 DEF Submits
  <2>5. InPlace(j)' /\ Held(j)'
    BY <2>2, <2>3 DEF InPlace, Held, TaskRunning
  <2>6. \A k \in Job \ {j} : InPlace(k)' /\ (Active(k)' => Held(k)')
    BY <2>2, <2>4 DEF HeldInv, InPlace, Held, Active
  <2>7. \A q \in Request : Submitted(q)'
    BY <1>2, <2>1, <2>2, <2>3 DEF HeldInv, Submitted, Submits, TypeInv, RequestsBound
  <2>8. QED
    BY <2>2, <2>5, <2>6, <2>7 DEF HeldInv
<1>6. CASE Claim(r)
  <2>1. request[r].pc # "submit" /\ task' = task
    BY <1>6 DEF Claim
  <2>2. CASE job' = job /\ request'[r].pc # "submit"
    BY <1>3, <2>1, <2>2
  <2>3. CASE ~(job' = job /\ request'[r].pc # "submit")
    <3>1. PICK answer \in Answers("claim"), j \in Job :
            /\ answer # "refused" /\ Fresh(j)
            /\ job' = [job EXCEPT ![j] = QueuedJob(r)]
            /\ request' = IF answer = "ok"
                 THEN [request EXCEPT ![r] =
                        [@ EXCEPT !.pc = "submit", !.job = j, !.claim = NoClaim]]
                 ELSE [request EXCEPT ![r].pc = "error", ![r].claim = NoClaim]
      <4>1. ASSUME NEW p \in RequestPc \ {"submit"},
                   request' = [request EXCEPT ![r].pc = p, ![r].claim = NoClaim]
            PROVE  request'[r].pc # "submit"
        BY <1>1, <4>1 DEF Requests
      <4>2. {"error", "active", "latest"} \subseteq RequestPc \ {"submit"}
        BY DEF RequestPc
      <4>3. ~ /\ job' = job
              /\ \E p \in {"error", "active", "latest"} :
                   request' = [request EXCEPT ![r].pc = p, ![r].claim = NoClaim]
        BY <2>3, <4>1, <4>2
      <4>4. QED
        BY <1>6, <4>3 DEF Claim
    <3>2. answer = "ok"
      BY <3>1, UnguardedAnswers
    <3>3. request'[r].pc = "submit" /\ request'[r].job = j
      <4>1. request'[r] = [request[r] EXCEPT !.pc = "submit", !.job = j, !.claim = NoClaim]
        BY <1>1, <3>1, <3>2
      <4>. QED
        BY <1>1, <4>1 DEF Requests
    <3>4. job'[j].status = "queued" /\ \A k \in Job \ {j} : job'[k] = job[k]
      BY <1>1, <3>1 DEF QueuedJob
    <3>5. QED
      BY <1>4, <2>1, <3>1, <3>3, <3>4
  <2>4. QED
    BY <2>2, <2>3
<1>7. CASE \E d \in Document : RequestProcessing(r, d)
  BY <1>1, <1>3, <1>7 DEF RequestProcessing
<1>8. CASE JoinActive(r) \/ JoinLatest(r)
  <2>1. PICK p \in {"error", "joined", "reclaim", "not_found"} :
          \/ request' = [request EXCEPT ![r].pc = p]
          \/ \E j \in Job : request' = [request EXCEPT ![r].pc = p, ![r].job = j]
    BY <1>8 DEF JoinActive, JoinLatest
  <2>2. request'[r].pc = p
    BY <1>1, <2>1 DEF Requests
  <2>3. request[r].pc # "submit" /\ UNCHANGED <<job, task>>
    BY <1>8 DEF JoinActive, JoinLatest
  <2>4. QED
    BY <1>3, <2>2, <2>3
<1>9. CASE BeginClaim(r)
  BY <1>1, <1>3, <1>9 DEF BeginClaim, Requests
<1>10. HeldInv'
  BY <1>5, <1>6, <1>7, <1>8, <1>9 DEF RequestStep
<1>11. \A k \in Job : task'[k] = "dead" => task[k] = "dead"
  BY <1>1 DEF RequestStep, RequestProcessing, BeginClaim, Claim, JoinActive, JoinLatest, Submit
<1>12. QED
  BY <1>10, <1>11

\* Uploads and the steps of the lifespan touch no job; a delete takes its own.
LEMMA HeldFrame ==
  ASSUME HeldInv, UNCHANGED <<task, request>>, abandoned \subseteq abandoned',
         \A k \in Job : job'[k].status \in {job[k].status, "gone"},
         \A r \in Request : request[r].pc = "submit" => request[r].job \in Job
  PROVE  HeldInv'
<1>1. ASSUME NEW k \in Job PROVE InPlace(k)' /\ (Active(k)' => Held(k)')
  BY DEF HeldInv, InPlace, Held, Active, ActiveStatus, Submits
<1>2. ASSUME NEW r \in Request PROVE Submitted(r)'
  BY DEF HeldInv, Submitted, Submits
<1>3. QED
  BY <1>1, <1>2 DEF HeldInv

\* What a restart takes with it has been given up.
LEMMA RestartHolds ==
  ASSUME HeldInv, TypeInv, DownInv, Restart
  PROVE  HeldInv' /\ \A k \in Job : task'[k] = "dead" => task[k] = "dead"
<1>1. /\ phase = "closed" /\ UNCHANGED <<job, abandoned>>
      /\ task' = [j \in Job |-> IF task[j] \in TaskRunning THEN "lost" ELSE task[j]]
      /\ \A r \in Request : request[r].pc \notin RequestInFlight
      /\ \A r \in Request : request'[r] = request[r]
  BY DEF Restart, Crash, DownInv
<1>2. \A r \in Request : request'[r].pc # "submit"
  BY <1>1 DEF RequestInFlight
<1>3. ASSUME NEW k \in Job PROVE InPlace(k)' /\ (Active(k)' => Held(k)')
  <2>1. task'[k] \notin TaskRunning
    BY <1>1 DEF TaskRunning, Pipeline, InsideTry
  <2>2. Active(k)' => k \in abandoned
    BY <1>1 DEF HeldInv, Held, Active, DownInv, Pending, Submits, RequestInFlight
  <2>3. QED
    BY <1>1, <2>1, <2>2 DEF InPlace, Held, TaskRunning
<1>4. HeldInv'
  BY <1>2, <1>3 DEF HeldInv, Submitted
<1>5. QED
  BY <1>1, <1>4

LifeInv == TypeInv /\ PhaseOK /\ HeldInv /\ DownInv

LEMMA LifeInductive ==
  ASSUME UnguardedHold, LifeInv, [LifeNext]_lifeVars
  PROVE  /\ LifeInv'
         /\ \A j \in Job : task[j] # "dead" /\ task'[j] = "dead" => phase = "closed"
<1>1. TypeInv /\ PhaseOK /\ HeldInv /\ DownInv /\ TypeInv' /\ PhaseOK'
  BY LifeTypes DEF LifeInv
<1>2. \A r \in Request : request[r].pc = "submit" => request[r].job \in Job
  BY <1>1 DEF TypeInv, RequestsBound
<1> DEFINE Recording ==
      \A j \in Job : task[j] # "dead" /\ task'[j] = "dead" => phase = "closed"
<1> SUFFICES HeldInv' /\ DownInv' /\ Recording
  BY <1>1 DEF LifeInv
<1>3. ASSUME NEW r \in Request, Serve(RequestStep(r)) PROVE HeldInv' /\ DownInv' /\ Recording
  BY <1>1, <1>3, RequestHolds DEF Serve, DownInv
<1>4. ASSUME NEW j \in Job, Run(j) PROVE HeldInv' /\ DownInv' /\ Recording
  <2>1. /\ HeldInv' /\ request' = request /\ UNCHANGED <<phase, abandoned>>
        /\ \A k \in Job : task'[k] \in TaskRunning => task[k] \in TaskRunning
        /\ Recording
    BY <1>1, <1>4, TaskHolds, CutHolds DEF Run
  <2>2. QED
    BY <1>1, <2>1 DEF DownInv, Pending
<1>5. ASSUME NEW u \in Uploader, Serve(Upload(u)) PROVE HeldInv' /\ DownInv' /\ Recording
  BY <1>1, <1>2, <1>5, HeldFrame DEF Serve, Upload, DownInv
<1>6. ASSUME NEW x \in Deleter, Serve(Delete(x)) PROVE HeldInv' /\ DownInv' /\ Recording
  <2>1. \A k \in Job : job'[k].status \in {job[k].status, "gone"}
    BY <1>1, <1>6, TypeInvParts DEF Serve, Delete, Cascade, PipelineTypes, Jobs
  <2>2. QED
    BY <1>1, <1>2, <1>6, <2>1, HeldFrame DEF Serve, Delete, DownInv
<1>7. CASE BeginShutdown \/ EndDrain \/ Close
  <2>1. UNCHANGED vars /\ abandoned \subseteq abandoned'
    BY <1>7 DEF BeginShutdown, EndDrain, Close
  <2>2. HeldInv' /\ Recording
    BY <1>1, <1>2, <2>1, HeldFrame DEF vars
  <2>3. CASE BeginShutdown
    BY <2>1, <2>2, <2>3 DEF BeginShutdown, Answered, DownInv, vars
  <2>4. CASE EndDrain
    BY <1>1, <2>1, <2>2, <2>4 DEF EndDrain, AllEnded, DownInv, Pending, vars
  <2>5. CASE Close
    <3>1. phase \in {"drained", "http", "graph"} /\ abandoned' = abandoned
      BY <2>5 DEF Close, Phases
    <3>2. QED
      BY <1>1, <2>1, <2>2, <3>1 DEF DownInv, Pending, vars
  <2>6. QED
    BY <1>7, <2>3, <2>4, <2>5
<1>8. CASE Restart
  <2>1. phase' = "serving"
    BY <1>8 DEF Restart
  <2>2. QED
    BY <1>1, <1>8, <2>1, RestartHolds DEF DownInv
<1>9. CASE UNCHANGED lifeVars
  BY <1>1, <1>2, <1>9, HeldFrame DEF lifeVars, vars, DownInv, Pending
<1>10. QED
  BY <1>3, <1>4, <1>5, <1>6, <1>7, <1>8, <1>9 DEF LifeNext, LifeInv

LEMMA LifeBegins == LifeInit => LifeInv
<1>1. SUFFICES ASSUME LifeInit PROVE LifeInv
  OBVIOUS
<1>2. TypeInv /\ phase = "serving"
  BY <1>1, InitTypes DEF LifeInit
<1>3. HeldInv
  BY <1>1 DEF LifeInit, Init, HeldInv, InPlace, Submitted, Active, ActiveStatus, NewJob, NewRequest
<1>4. QED
  BY <1>2, <1>3 DEF LifeInv, PhaseOK, DownInv

\* drain, shutdown and restart lose no job whose run the drain has not given up:
\* if the database answers what a run asks outside its try block, an active row
\* has a task, or a request about to submit it.
THEOREM StopLosesNothingElse ==
  ASSUME UnguardedHold
  PROVE  LifeSpec => []StopLosesOnlyAbandoned
<1>1. LifeInv => StopLosesOnlyAbandoned
  BY DEF LifeInv, HeldInv, Held, Submits, StopLosesOnlyAbandoned
<1>2. LifeInv /\ [LifeNext]_lifeVars => LifeInv'
  BY LifeInductive
<1>3. QED
  BY <1>1, <1>2, LifeBegins, PTL DEF LifeSpec

\* The order in which the lifespan closes what runs use: a run whose client or
\* driver is gone records it, until the pool is closed, and that is closed last.
THEOREM PoolClosedLast ==
  ASSUME UnguardedHold
  PROVE  LifeSpec => CutRunsAreRecorded
<1> DEFINE Recording ==
      \A j \in Job : task[j] # "dead" /\ task'[j] = "dead" => phase = "closed"
<1>1. LifeInv /\ [LifeNext]_lifeVars => LifeInv' /\ [Recording]_lifeVars
  BY LifeInductive
<1>2. QED
  BY <1>1, LifeBegins, PTL DEF LifeSpec, CutRunsAreRecorded

=============================================================================
