-------------------------- MODULE RefinementProofs --------------------------
(***************************************************************************)
(* Ingestion implements what its tables promise to those who only read     *)
(* them: JobLifecycle and DocumentLifecycle, for all values of the         *)
(* constants.  What the status endpoint of ProcessingStatus says follows   *)
(* from both.                                                              *)
(***************************************************************************)
EXTENDS IngestionProofs, ProcessingStatus, WellFoundedInduction

-----------------------------------------------------------------------------
(* What the refinements need beyond RunInv.                                 *)

\* Where a run has marked its document.
Past == InsideTry \cup {"finish", "fail", "ready", "failed"}

Placed(k) ==
  /\ job[k].status = "unused" => job[k].document = NoDocument
  /\ task[k] = "cancel" => ~Recorded(job[k].document)
  /\ task[k] \in Past => status[job[k].document] # "uploaded"

PlacedInv == \A k \in Job : Placed(k)

LEMMA PlacedKept ==
  ASSUME NEW k \in Job, Placed(k),
         job'[k].document = job[k].document,
         job'[k].status = "unused" => job[k].status = "unused",
         task'[k] = task[k] \/ task'[k] \notin Past \cup {"cancel"},
         task[k] \in Past \cup {"cancel"} =>
           /\ Recorded(job[k].document)' => Recorded(job[k].document)
           /\ status'[job[k].document] = "uploaded" => status[job[k].document] = "uploaded"
  PROVE  Placed(k)'
BY DEF Placed

LEMMA PastIsRunning == Past \cup {"cancel"} \subseteq TaskRunning
BY DEF Past, TaskRunning, Pipeline

LEMMA TaskIsRunning ==
  ASSUME NEW j \in Job, TaskStep(j)
  PROVE  task[j] \in TaskRunning
BY DEF TaskStep, StartJob, LookUp, Cancel, MarkProcessing, MarkReady, MarkFailed, SetDocument,
   Download, Extract, Clean, Split, Persist, Embed, Index, Advance, ReplaceChunks, EmbedTexts,
   GraphNode, GraphStale, GraphUpsert, Succeed, Fail, Finish, TaskRunning, Pipeline, InsideTry

LEMMA PlacedRequest ==
  ASSUME PlacedInv, TypeInv, NEW r \in Request, RequestStep(r)
  PROVE  PlacedInv'
<1>1. status' = status
  BY DEF RequestStep, RequestProcessing, BeginClaim, Claim, JoinActive, JoinLatest, Submit, storeVars
<1>2. task \in [Job -> TaskPc] /\ job \in [Job -> Jobs]
  BY TypeInvParts DEF PipelineTypes
<1>3. SUFFICES ASSUME NEW k \in Job PROVE Placed(k)'
  BY DEF PlacedInv
<1>4. CASE Claim(r)
  <2>1. task' = task
    BY <1>4 DEF Claim
  <2>2. CASE job'[k] = job[k]
    BY <1>1, <2>1, <2>2, PlacedKept DEF PlacedInv, Recorded
  <2>3. CASE job'[k] # job[k]
    <3>1. job[k].status = "unused" /\ job'[k].status = "queued"
      BY <1>2, <1>4, <2>3, ClaimedRow
    <3>2. task[k] \notin TaskRunning
      BY <3>1 DEF TypeInv, JobsBound
    <3>3. QED
      BY <2>1, <3>1, <3>2, PastIsRunning DEF Placed
  <2>4. QED
    BY <2>2, <2>3
<1>5. CASE Submit(r)
  <2>1. job' = job /\ (task'[k] = task[k] \/ task'[k] = "start")
    BY <1>2, <1>5 DEF Submit
  <2>2. "start" \notin Past \cup {"cancel"}
    BY DEF Past, InsideTry
  <2>3. QED
    BY <1>1, <2>1, <2>2, PlacedKept DEF PlacedInv, Recorded
<1>6. CASE UNCHANGED <<job, task>>
  BY <1>1, <1>6, PlacedKept DEF PlacedInv, Recorded
<1>7. QED
  BY <1>4, <1>5, <1>6 DEF RequestStep, RequestProcessing, BeginClaim, JoinActive, JoinLatest

LEMMA PlacedTask ==
  ASSUME PlacedInv, TypeInv, NEW j \in Job, TaskStep(j)
  PROVE  PlacedInv'
<1>1. /\ task \in [Job -> TaskPc] /\ job \in [Job -> Jobs]
      /\ status \in [Document -> DocumentStatus \cup {"absent"}]
      /\ task[j] \in TaskRunning => job[j].document \in Document
      /\ Placed(j)
  BY TypeInvParts DEF PipelineTypes, StoreInv, StoreTypeOK, JobsBound, PlacedInv
<1>2. \A k \in Job : /\ job'[k].document = job[k].document
                     /\ job'[k].status = "unused" => job[k].status = "unused"
  BY <1>1 DEF TaskStep, StartJob, LookUp, Cancel, MarkProcessing, MarkReady, MarkFailed,
     SetDocument, Download, Extract, Clean, Split, Persist, Embed, Index, Advance, Advanced,
     ReplaceChunks, EmbedTexts, GraphNode, GraphStale, GraphUpsert, Succeed, Fail, Finish,
     Finished, Jobs
<1>3. \/ status' = status
      \/ \E s \in {"processing", "ready", "failed"} : status' = StatusSet(job[j].document, s)
  BY DEF TaskStep, StartJob, LookUp, Cancel, MarkProcessing, MarkReady, MarkFailed,
     SetDocument, Download, Extract, Clean, Split, Persist, Embed, Index, Advance,
     ReplaceChunks, EmbedTexts, GraphNode, GraphStale, GraphUpsert, Succeed, Fail, Finish,
     storeVars
<1>4. \A d \in Document : /\ Recorded(d)' => Recorded(d)
                          /\ status'[d] = "uploaded" => status[d] = "uploaded"
  BY <1>1, <1>3 DEF StatusSet, Recorded
<1>5. ASSUME NEW k \in Job, task'[k] = task[k] \/ task'[k] \notin Past \cup {"cancel"}
      PROVE  Placed(k)'
  <2>1. task[k] \in Past \cup {"cancel"} => job[k].document \in Document
    BY PastIsRunning DEF TypeInv, JobsBound
  <2>2. task[k] \in Past \cup {"cancel"} =>
          /\ Recorded(job[k].document)' => Recorded(job[k].document)
          /\ status'[job[k].document] = "uploaded" => status[job[k].document] = "uploaded"
    BY <1>2, <1>4, <2>1 DEF Recorded
  <2>3. QED
    BY <1>2, <1>5, <2>2, PlacedKept DEF PlacedInv
<1>6. \A k \in Job \ {j} : task'[k] = task[k]
  BY <1>1 DEF TaskStep, StartJob, LookUp, Cancel, MarkProcessing, MarkReady, MarkFailed,
     SetDocument, Download, Extract, Clean, Split, Persist, Embed, Index, Advance,
     ReplaceChunks, EmbedTexts, GraphNode, GraphStale, GraphUpsert, Succeed, Fail, Finish,
     Proceed
<1>7. CASE LookUp(j)
  <2>1. /\ status' = status /\ job' = job
        /\ \/ task'[j] \in {"mark", "dead"}
           \/ task'[j] = "cancel" /\ ~Recorded(job[j].document)
    BY <1>1, <1>7 DEF LookUp, Proceed, Raised, InsideTry, storeVars
  <2>2. CASE task'[j] \in {"mark", "dead"}
    BY <1>5, <1>6, <2>2 DEF PlacedInv, Past, InsideTry
  <2>3. CASE task'[j] = "cancel" /\ ~Recorded(job[j].document)
    <3>1. Placed(j)'
      BY <1>1, <2>1, <2>3 DEF Placed, Recorded, Past, InsideTry
    <3>2. QED
      BY <1>5, <1>6, <3>1 DEF PlacedInv
  <2>4. QED
    BY <2>1, <2>2, <2>3
<1>8. CASE MarkProcessing(j)
  <2>1. PICK answer : /\ status' = IF TookEffect(answer)
                                   THEN StatusSet(job[j].document, "processing") ELSE status
                      /\ Proceed(j, answer, "download")
    BY <1>8 DEF MarkProcessing, SetDocument
  <2>2. task[j] = "mark" /\ job' = job /\ job[j].document \in Document
    BY <1>1, <1>8 DEF MarkProcessing, SetDocument, TaskRunning, Pipeline
  <2>3. CASE answer = "ok"
    <3>1. status'[job[j].document] # "uploaded"
      BY <1>1, <2>1, <2>2, <2>3 DEF TookEffect, StatusSet, Recorded
    <3>2. task'[j] = "download"
      BY <1>1, <2>1, <2>3 DEF Proceed
    <3>3. Placed(j)'
      BY <1>1, <2>2, <3>1, <3>2 DEF Placed
    <3>4. QED
      BY <1>5, <1>6, <3>3 DEF PlacedInv
  <2>4. CASE answer # "ok"
    <3>1. task'[j] = "dead"
      BY <1>1, <2>1, <2>2, <2>4 DEF Proceed, Raised, InsideTry
    <3>2. QED
      BY <1>5, <1>6, <3>1 DEF PlacedInv, Past, InsideTry
  <2>5. QED
    BY <2>3, <2>4
<1>9. CASE StartJob(j)
  <2>1. task'[j] \in {"lookup", "done", "dead"}
    BY <1>1, <1>9 DEF StartJob, Proceed, Raised, InsideTry
  <2>2. QED
    BY <1>5, <1>6, <2>1 DEF PlacedInv, Past, InsideTry
<1>10. CASE task[j] \in Past \/ task[j] = "cancel"
  <2>1. CASE task'[j] \notin Past \cup {"cancel"}
    BY <1>5, <1>6, <2>1 DEF PlacedInv
  <2>2. CASE task[j] \in Past /\ task'[j] \in Past \cup {"cancel"}
    <3>1. task'[j] # "cancel"
      <4>1. task[j] # "lookup"
        BY <2>2 DEF Past, InsideTry
      <4>2. ASSUME NEW answer, NEW next, next # "cancel", Proceed(j, answer, next)
            PROVE  task'[j] # "cancel"
        BY <1>1, <4>2 DEF Proceed, Raised
      <4>3. CASE StartJob(j) \/ Cancel(j) \/ Download(j) \/ ReplaceChunks(j) \/ EmbedTexts(j)
        BY <4>2, <4>3 DEF StartJob, Cancel, Download, ReplaceChunks, EmbedTexts
      <4>4. CASE GraphNode(j) \/ GraphStale(j) \/ GraphUpsert(j)
        BY <4>2, <4>4 DEF GraphNode, GraphStale, GraphUpsert
      <4>5. CASE Extract(j) \/ Clean(j) \/ Split(j) \/ Persist(j) \/ Embed(j) \/ Index(j)
        BY <4>2, <4>5 DEF Extract, Clean, Split, Persist, Embed, Index, Advance
      <4>6. CASE MarkProcessing(j) \/ MarkReady(j) \/ MarkFailed(j) \/ Succeed(j) \/ Fail(j)
        BY <4>2, <4>6 DEF MarkProcessing, MarkReady, MarkFailed, SetDocument, Succeed, Fail, Finish
      <4>7. QED
        BY <4>1, <4>3, <4>4, <4>5, <4>6 DEF TaskStep, LookUp
    <3>2. job[j].document \in Document
      BY <1>1, <2>2, PastIsRunning
    <3>3. status'[job[j].document] # "uploaded"
      BY <1>1, <1>4, <2>2, <3>2 DEF Placed
    <3>4. Placed(j)'
      BY <1>1, <1>2, <3>1, <3>3 DEF Placed
    <3>5. QED
      BY <1>5, <1>6, <3>4 DEF PlacedInv
  <2>3. CASE task[j] = "cancel" /\ task'[j] \in Past \cup {"cancel"}
    <3>1. task'[j] \in {"done", "dead"}
      BY <1>1, <2>3 DEF TaskStep, StartJob, LookUp, Cancel, MarkProcessing, MarkReady, MarkFailed,
         SetDocument, Download, Extract, Clean, Split, Persist, Embed, Index, Advance,
         ReplaceChunks, EmbedTexts, GraphNode, GraphStale, GraphUpsert, Succeed, Fail, Finish,
         Proceed, Raised, InsideTry
    <3>2. QED
      BY <2>3, <3>1 DEF Past, InsideTry
  <2>4. QED
    BY <1>10, <2>1, <2>2, <2>3
<1>11. QED
  BY <1>7, <1>8, <1>9, <1>10 DEF TaskStep, Cancel, MarkReady, MarkFailed,
     SetDocument, Download, Extract, Clean, Split, Persist, Embed, Index, Advance,
     ReplaceChunks, EmbedTexts, GraphNode, GraphStale, GraphUpsert, Succeed, Fail, Finish,
     Past, InsideTry

LEMMA PlacedUpload ==
  ASSUME PlacedInv, TypeInv, RunInv, NEW u \in Uploader, Upload(u)
  PROVE  PlacedInv'
<1>1. UNCHANGED <<job, task>>
  BY DEF Upload
<1>2. SUFFICES ASSUME NEW k \in Job, task[k] \in Past \cup {"cancel"}
               PROVE  status'[job[k].document] = status[job[k].document]
  BY <1>1, PlacedKept DEF PlacedInv, Recorded
<1>3. job[k].status # "unused" /\ job[k].document \in Document
  BY <1>2, PastIsRunning DEF TypeInv, JobsBound
<1>4. CASE CreateRow(u)
  <2>1. job[k].document # uploads[u].document
    BY <1>3, <1>4 DEF CreateRow, RunInv, JobsPlaced, Unrecorded
  <2>2. QED
    BY <1>3, <1>4, <2>1 DEF CreateRow, TypeInv, TypeOK, StoreTypeOK
<1>5. CASE status' = status
  BY <1>5
<1>6. QED
  BY <1>4, <1>5 DEF Upload, UploadStep, BeginUpload, FindByChecksum, WriteObject, Compensate

\* A delete, seen from the job table: rows go exactly with their document.
LEMMA DeleteEffect ==
  ASSUME TypeInv, NEW x \in Deleter, Delete(x)
  PROVE  /\ task' = task
         /\ status' = status \/ \E d \in Document : status' = [status EXCEPT ![d] = "absent"]
         /\ \A k \in Job :
              /\ job'[k].document = job[k].document
              /\ \/ /\ Exists(k) /\ status'[job[k].document] = "absent"
                    /\ job'[k].status = "gone"
                 \/ /\ ~(Exists(k) /\ status'[job[k].document] = "absent")
                    /\ job'[k].status = job[k].status
<1>1. task' = task
  BY DEF Delete
<1>2. status' = status \/ \E d \in Document : status' = [status EXCEPT ![d] = "absent"]
  BY DEF Delete, DeleteStep, BeginDelete, RemoveObject, RemoveRow, RowRemoved, TypeInv,
     StoreCallsBound, DeleteInFlight
<1>3. ASSUME NEW k \in Job
      PROVE  /\ job'[k].document = job[k].document
             /\ \/ /\ Exists(k) /\ status'[job[k].document] = "absent"
                   /\ job'[k].status = "gone"
                \/ /\ ~(Exists(k) /\ status'[job[k].document] = "absent")
                   /\ job'[k].status = job[k].status
  <2>1. job[k] \in Jobs
    BY TypeInvParts DEF PipelineTypes
  <2>2. CASE Exists(k) /\ status'[job[k].document] = "absent"
    <3>1. job'[k] = [job[k] EXCEPT !.status = "gone"]
      BY <2>2 DEF Delete, Cascade
    <3>2. QED
      BY <2>1, <2>2, <3>1 DEF Jobs
  <2>3. CASE ~(Exists(k) /\ status'[job[k].document] = "absent")
    BY <2>3 DEF Delete, Cascade
  <2>4. QED
    BY <2>2, <2>3
<1>4. QED
  BY <1>1, <1>2, <1>3

LEMMA PlacedDelete ==
  ASSUME PlacedInv, TypeInv, NEW x \in Deleter, Delete(x)
  PROVE  PlacedInv'
<1>1. SUFFICES ASSUME NEW k \in Job PROVE Placed(k)'
  BY DEF PlacedInv
<1>2. /\ task' = task
      /\ job'[k].document = job[k].document
      /\ job'[k].status = "unused" => job[k].status = "unused"
  BY DeleteEffect
<1>3. \A d \in Document : status'[d] = status[d] \/ status'[d] = "absent"
  BY DeleteEffect DEF TypeInv, TypeOK, StoreTypeOK
<1>4. task[k] \in Past \cup {"cancel"} => job[k].document \in Document
  BY PastIsRunning DEF TypeInv, JobsBound
<1>5. QED
  BY <1>2, <1>3, <1>4, PlacedKept DEF PlacedInv, Recorded

LEMMA PlacedInductive == TypeInv /\ RunInv /\ PlacedInv /\ [Next]_vars => PlacedInv'
<1>1. SUFFICES ASSUME TypeInv, RunInv, PlacedInv, [Next]_vars PROVE PlacedInv'
  OBVIOUS
<1>2. ASSUME NEW r \in Request, RequestStep(r) PROVE PlacedInv'
  BY <1>1, <1>2, PlacedRequest
<1>3. ASSUME NEW j \in Job, TaskStep(j) PROVE PlacedInv'
  BY <1>1, <1>3, PlacedTask
<1>4. ASSUME NEW u \in Uploader, Upload(u) PROVE PlacedInv'
  BY <1>1, <1>4, PlacedUpload
<1>5. ASSUME NEW x \in Deleter, Delete(x) PROVE PlacedInv'
  BY <1>1, <1>5, PlacedDelete
<1>6. CASE /\ UNCHANGED <<status, job>>
           /\ \A k \in Job : task'[k] = task[k] \/ task'[k] \notin TaskRunning
  BY <1>1, <1>6, PlacedKept, PastIsRunning DEF PlacedInv, Recorded
<1>7. CASE Crash
  <2>1. /\ UNCHANGED <<status, job>>
        /\ \A k \in Job : task'[k] \notin TaskRunning
    BY <1>7 DEF Crash, CrashStore, TaskRunning, Pipeline, InsideTry
  <2>2. QED
    BY <1>6, <2>1
<1>8. CASE UNCHANGED vars
  BY <1>6, <1>8 DEF vars, storeVars
<1>9. QED
  BY <1>1, <1>2, <1>3, <1>4, <1>5, <1>7, <1>8 DEF Next

LEMMA InitPlaced == Init => PlacedInv
BY DEF Init, PlacedInv, Placed, NewJob, Past, InsideTry

-----------------------------------------------------------------------------
(* The job lifecycle.  An insert queues, jobs.start starts, a run that ends     *)
(* its row ends the job, a delete purges; everything else stutters.             *)

JobStates == [j \in Job |-> job[j].status]
JobDocuments == [j \in Job |-> job[j].document]

JobStep == Lifecycle!Next \/ UNCHANGED <<JobStates, JobDocuments>>

LEMMA JobStutter ==
  ASSUME \A k \in Job : /\ job'[k].status = job[k].status
                        /\ job'[k].document = job[k].document
  PROVE  JobStep
BY DEF JobStep, JobStates, JobDocuments

LEMMA ClaimQueues ==
  ASSUME TypeInv, RunInv, PlacedInv, NEW r \in Request, Claim(r),
         NEW d \in Document, d = request[r].document
  PROVE  JobStep
<1>1. CASE job' = job
  BY <1>1, JobStutter
<1>2. CASE job' # job
  <2>1. /\ Recorded(d) /\ ActiveJobs(d) = {}
        /\ \E j \in Job : /\ Fresh(j)
                         /\ job' = [job EXCEPT ![j] = QueuedJob(r)]
    BY <1>2, ClaimInserts DEF Fresh
  <2>2. PICK j \in Job : /\ Fresh(j)
                         /\ job' = [job EXCEPT ![j] = QueuedJob(r)]
    BY <2>1
  <2>3. /\ job[j].status = "unused"
        /\ job'[j].status = "queued" /\ job'[j].document = d
        /\ \A k \in Job \ {j} : job'[k] = job[k]
    BY <2>1, <2>2, ClaimedTypes DEF Fresh
  <2>4. ASSUME NEW k \in Job, job[k].document = d
        PROVE  job[k].status \in Lifecycle!Outcomes
    <3>1. job[k].status \in JobStatus
      BY TypeInvParts DEF PipelineTypes, Jobs
    <3>2. job[k].status # "unused"
      BY <2>1, <2>4, StoreAssumption DEF PlacedInv, Placed, StoreAssumption
    <3>3. job[k].status # "gone"
      BY <2>1, <2>4 DEF RunInv, JobsPlaced
    <3>4. ~Active(k)
      BY <2>1, <2>4 DEF ActiveJobs, JobsOf, Active, Exists
    <3>5. QED
      BY <3>1, <3>2, <3>3, <3>4 DEF JobStatus, Active, ActiveStatus, TerminalStatus,
         Lifecycle!Outcomes
  <2>5. /\ JobStates' = [JobStates EXCEPT ![j] = "queued"]
        /\ JobDocuments' = [JobDocuments EXCEPT ![j] = d]
    BY <2>3 DEF JobStates, JobDocuments
  <2>6. Lifecycle!Queue(j, d)
    BY <2>3, <2>4, <2>5 DEF Lifecycle!Queue, JobStates, JobDocuments
  <2>7. QED
    BY <2>2, <2>6 DEF JobStep, Lifecycle!Next
<1>3. QED
  BY <1>1, <1>2

LEMMA RequestJobs ==
  ASSUME TypeInv, RunInv, PlacedInv, NEW r \in Request, RequestStep(r)
  PROVE  JobStep
<1>1. CASE Claim(r)
  <2>1. request[r].document \in Document
    BY <1>1 DEF Claim, TypeInv, RequestsBound, RequestInFlight
  <2>2. PICK d \in Document : d = request[r].document
    BY <2>1
  <2>3. QED
    BY <1>1, <2>2, ClaimQueues
<1>2. CASE job' = job
  BY <1>2, JobStutter
<1>3. QED
  BY <1>1, <1>2 DEF RequestStep, RequestProcessing, BeginClaim, JoinActive, JoinLatest, Submit

LEMMA FinishEnds ==
  ASSUME TypeInv, RunInv, NEW j \in Job, task[j] \in Pipeline,
         NEW outcome \in Lifecycle!Outcomes,
         job' = Finished(j, outcome) \/ job' = job
  PROVE  JobStep
<1>1. CASE job' = job
  BY <1>1, JobStutter
<1>2. CASE job' = [job EXCEPT ![j].status = outcome] /\ Active(j)
  <2>1. job \in [Job -> Jobs]
    BY TypeInvParts DEF PipelineTypes
  <2>2. job[j].status = "running"
    BY <1>2 DEF RunInv, RunsStarted, Active, ActiveStatus
  <2>3. \A k \in Job : /\ job'[k].status = IF k = j THEN outcome ELSE job[k].status
                       /\ job'[k].document = job[k].document
    BY <1>2, <2>1 DEF Jobs
  <2>4. Lifecycle!End(j, outcome)
    BY <2>2, <2>3 DEF Lifecycle!End
  <2>5. QED
    BY <2>4 DEF JobStep, Lifecycle!Next
<1>3. QED
  BY <1>1, <1>2 DEF Finished

LEMMA TaskJobs ==
  ASSUME TypeInv, RunInv, PlacedInv, NEW j \in Job, TaskStep(j)
  PROVE  JobStep
<1>1. job \in [Job -> Jobs] /\ Placed(j)
  BY TypeInvParts DEF PipelineTypes, PlacedInv
<1>2. CASE StartJob(j)
  <2>1. CASE job' = job
    BY <2>1, JobStutter
  <2>2. CASE /\ job[j].status = "queued"
             /\ job' = [job EXCEPT ![j].status = "running", ![j].stage = "upload"]
    <3>1. \A k \in Job : /\ job'[k].status = IF k = j THEN "running" ELSE job[k].status
                         /\ job'[k].document = job[k].document
      BY <1>1, <2>2 DEF Jobs
    <3>2. Lifecycle!Start(j)
      BY <2>2, <3>1 DEF Lifecycle!Start
    <3>3. QED
      BY <3>2 DEF JobStep, Lifecycle!Next
  <2>3. QED
    BY <1>2, <2>1, <2>2 DEF StartJob
<1>3. CASE Cancel(j)
  <2>1. ~Recorded(job[j].document)
    BY <1>1, <1>3 DEF Cancel, Placed
  <2>2. job' = job
    BY <1>3, <2>1 DEF Cancel, Finished, Active, RunInv, JobsPlaced, Exists
  <2>3. QED
    BY <2>2, JobStutter
<1>4. CASE Succeed(j) \/ Fail(j)
  <2>1. /\ task[j] \in Pipeline
        /\ \E outcome \in Lifecycle!Outcomes : job' = Finished(j, outcome) \/ job' = job
    BY <1>4 DEF Succeed, Fail, Finish, Pipeline, Lifecycle!Outcomes
  <2>2. QED
    BY <2>1, FinishEnds
<1>5. CASE Extract(j) \/ Clean(j) \/ Split(j) \/ Persist(j) \/ Embed(j) \/ Index(j)
  <2>1. \E stage \in Stage : job' = Advanced(j, stage) \/ job' = job
    BY <1>5 DEF Extract, Clean, Split, Persist, Embed, Index, Advance, Stage
  <2>2. QED
    BY <1>1, <2>1, AdvancedTypes, JobStutter
<1>6. CASE job' = job
  BY <1>6, JobStutter
<1>7. QED
  BY <1>2, <1>3, <1>4, <1>5, <1>6 DEF TaskStep, LookUp, MarkProcessing, MarkReady, MarkFailed,
     SetDocument, Download, ReplaceChunks, EmbedTexts, GraphNode, GraphStale, GraphUpsert

LEMMA DeleteJobs ==
  ASSUME TypeInv, RunInv, PlacedInv, NEW x \in Deleter, Delete(x)
  PROVE  JobStep
<1>1. \A k \in Job :
        /\ job'[k].document = job[k].document
        /\ \/ /\ Exists(k) /\ status'[job[k].document] = "absent"
              /\ job'[k].status = "gone"
           \/ /\ ~(Exists(k) /\ status'[job[k].document] = "absent")
              /\ job'[k].status = job[k].status
  BY DeleteEffect
<1>2. \A k \in Job : /\ job[k].status \in JobStatus
                     /\ Exists(k) => /\ job[k].document \in Document
                                     /\ Recorded(job[k].document)
  BY TypeInvParts DEF PipelineTypes, Jobs, JobsBound, RunInv, JobsPlaced, Exists,
     ActiveStatus, TerminalStatus
<1>3. status \in [Document -> DocumentStatus \cup {"absent"}]
  BY DEF TypeInv, TypeOK, StoreTypeOK
<1>4. CASE status' = status
  BY <1>1, <1>2, <1>4, JobStutter DEF Recorded
<1>5. ASSUME NEW d \in Document, status' = [status EXCEPT ![d] = "absent"] PROVE JobStep
  <2>1. ASSUME NEW k \in Job
        PROVE  job'[k].status = IF job[k].document = d THEN "gone" ELSE job[k].status
    <3>1. CASE Exists(k)
      BY <1>1, <1>2, <1>3, <1>5, <3>1 DEF Recorded
    <3>2. CASE ~Exists(k) /\ job[k].document = d
      <4>1. job[k].status # "unused"
        BY <3>2, StoreAssumption DEF PlacedInv, Placed, StoreAssumption
      <4>2. job[k].status = "gone"
        BY <1>2, <3>2, <4>1 DEF Exists, JobStatus, ActiveStatus, TerminalStatus
      <4>3. QED
        BY <1>1, <3>2, <4>2
    <3>3. CASE ~Exists(k) /\ job[k].document # d
      BY <1>1, <3>3
    <3>4. QED
      BY <3>1, <3>2, <3>3
  <2>2. Lifecycle!Purge(d)
    BY <1>1, <2>1 DEF Lifecycle!Purge
  <2>3. QED
    BY <2>2 DEF JobStep, Lifecycle!Next
<1>6. QED
  BY <1>4, <1>5, DeleteEffect

LEMMA EveryJobStep == TypeInv /\ RunInv /\ PlacedInv /\ [Next]_vars => JobStep
<1>1. SUFFICES ASSUME TypeInv, RunInv, PlacedInv, [Next]_vars PROVE JobStep
  OBVIOUS
<1>2. ASSUME NEW r \in Request, RequestStep(r) PROVE JobStep
  BY <1>1, <1>2, RequestJobs
<1>3. ASSUME NEW j \in Job, TaskStep(j) PROVE JobStep
  BY <1>1, <1>3, TaskJobs
<1>4. ASSUME NEW x \in Deleter, Delete(x) PROVE JobStep
  BY <1>1, <1>4, DeleteJobs
<1>5. CASE job' = job
  BY <1>5, JobStutter
<1>6. QED
  BY <1>1, <1>2, <1>3, <1>4, <1>5 DEF Next, Upload, Crash, vars

\* The job table keeps its promise: whoever reads only ingestion_jobs sees a job
\* queued where none is active, started, ended once, and gone only with all jobs
\* of its document.
THEOREM JobsImplementLifecycle == Spec => ImplementsLifecycle
<1>1. Init => Lifecycle!Init
  BY DEF Init, Lifecycle!Init, NewJob
<1>2. TypeInv /\ RunInv /\ PlacedInv /\ [Next]_vars => (TypeInv /\ RunInv /\ PlacedInv)'
  BY TypeInvInductive, RunInvInductive, PlacedInductive
<1>3. TypeInv /\ RunInv /\ PlacedInv /\ [Next]_vars =>
        [Lifecycle!Next]_<<[j \in Job |-> job[j].status], [j \in Job |-> job[j].document]>>
  BY EveryJobStep DEF JobStep, JobStates, JobDocuments
<1>4. QED
  BY <1>1, <1>2, <1>3, InitTypes, InitRuns, InitPlaced, PTL
  DEF Spec, ImplementsLifecycle, Lifecycle!Spec

-----------------------------------------------------------------------------
(* The document lifecycle.  The active run of a document is read off its job    *)
(* rows; each step below changes it, or the status, for one document.           *)

HasJob(d, s) == \E k \in Job : job[k].document = d /\ job[k].status = s

LEMMA RunIs ==
  ASSUME NEW d \in Document
  PROVE  /\ ActiveRun[d] = IF HasJob(d, "running") THEN "running"
                           ELSE IF HasJob(d, "queued") THEN "queued" ELSE "none"
         /\ ActiveRun'[d] = IF HasJob(d, "running")' THEN "running"
                            ELSE IF HasJob(d, "queued")' THEN "queued" ELSE "none"
BY DEF ActiveRun, HasJob, ActiveJobs, JobsOf, Exists, Active, ActiveStatus, TerminalStatus

\* A document is touched by the jobs that run over it, and by no others.
SameRun(e) ==
  \A k \in Job : \A s \in {"queued", "running"} :
    job'[k].document = e /\ job'[k].status = s <=> job[k].document = e /\ job[k].status = s

LEMMA RunKept ==
  ASSUME NEW e \in Document, SameRun(e)
  PROVE  ActiveRun'[e] = ActiveRun[e]
<1>1. \A s \in {"queued", "running"} : HasJob(e, s)' <=> HasJob(e, s)
  BY DEF SameRun, HasJob
<1>2. QED
  BY <1>1, RunIs

LEMMA RunsKept ==
  ASSUME \A e \in Document : SameRun(e)
  PROVE  ActiveRun' = ActiveRun
<1>1. \A e \in Document : ActiveRun'[e] = ActiveRun[e]
  BY RunKept
<1>2. QED
  BY <1>1 DEF ActiveRun

LEMMA RunSet ==
  ASSUME NEW d \in Document, NEW v,
         \A e \in Document \ {d} : SameRun(e), ActiveRun'[d] = v
  PROVE  ActiveRun' = [ActiveRun EXCEPT ![d] = v]
<1>1. \A e \in Document \ {d} : ActiveRun'[e] = ActiveRun[e]
  BY RunKept
<1>2. ActiveRun = [e \in Document |-> ActiveRun[e]] /\ ActiveRun' = [e \in Document |-> ActiveRun'[e]]
  BY DEF ActiveRun
<1>3. QED
  BY <1>1, <1>2

DocumentStep == Documents!Next \/ UNCHANGED <<status, ActiveRun>>

LEMMA DocumentStutter ==
  ASSUME status' = status,
         \A k \in Job : /\ job'[k].status = job[k].status
                        /\ job'[k].document = job[k].document
  PROVE  DocumentStep
BY RunsKept DEF DocumentStep, SameRun

LEMMA StatusWritten ==
  ASSUME job' = job, NEW d \in Document, NEW s, status' = [status EXCEPT ![d] = s],
         \/ s = "uploaded" /\ status[d] = "absent"
         \/ s = "processing" /\ ActiveRun[d] = "running"
         \/ s \in {"ready", "failed"} /\ status[d] \in {"processing", "ready", "failed"}
  PROVE  DocumentStep
<1>1. ActiveRun' = ActiveRun
  BY RunsKept DEF SameRun
<1>2. Documents!Appear(d) \/ Documents!Mark(d)
      \/ \E outcome \in {"ready", "failed"} : Documents!Settle(d, outcome)
  BY <1>1 DEF Documents!Appear, Documents!Mark, Documents!Settle
<1>3. QED
  BY <1>2 DEF DocumentStep, Documents!Next, Documents!Advance

LEMMA ClaimStarts ==
  ASSUME TypeInv, NEW r \in Request, Claim(r), NEW d \in Document, d = request[r].document
  PROVE  DocumentStep
<1>1. status' = status
  BY DEF Claim, storeVars
<1>2. CASE job' = job
  BY <1>1, <1>2, DocumentStutter
<1>3. CASE job' # job
  <2>1. /\ Recorded(d) /\ ActiveJobs(d) = {}
        /\ \E j \in Job : /\ Fresh(j)
                         /\ job' = [job EXCEPT ![j] = QueuedJob(r)]
    BY <1>3, ClaimInserts DEF Fresh
  <2>2. PICK j \in Job : /\ Fresh(j)
                         /\ job' = [job EXCEPT ![j] = QueuedJob(r)]
    BY <2>1
  <2>3. /\ job[j].status = "unused"
        /\ job'[j].status = "queued" /\ job'[j].document = d
        /\ \A k \in Job \ {j} : job'[k] = job[k]
    BY <2>1, <2>2, ClaimedTypes DEF Fresh
  <2>4. ActiveRun[d] = "none"
    BY <2>1 DEF ActiveRun
  <2>5. HasJob(d, "queued")' /\ ~HasJob(d, "running")'
    BY <2>2, <2>3, <2>4, RunIs DEF HasJob
  <2>6. ActiveRun' = [ActiveRun EXCEPT ![d] = "queued"]
    BY <2>3, <2>5, RunIs, RunSet DEF SameRun
  <2>7. Documents!Claim(d)
    BY <1>1, <2>1, <2>4, <2>6 DEF Documents!Claim, Recorded
  <2>8. QED
    BY <2>7 DEF DocumentStep, Documents!Next
<1>4. QED
  BY <1>2, <1>3

LEMMA RequestDocuments ==
  ASSUME TypeInv, NEW r \in Request, RequestStep(r)
  PROVE  DocumentStep
<1>1. CASE Claim(r)
  <2>1. request[r].document \in Document
    BY <1>1 DEF Claim, TypeInv, RequestsBound, RequestInFlight
  <2>2. PICK d \in Document : d = request[r].document
    BY <2>1
  <2>3. QED
    BY <1>1, <2>2, ClaimStarts
<1>2. CASE UNCHANGED <<status, job>>
  BY <1>2, DocumentStutter
<1>3. QED
  BY <1>1, <1>2 DEF RequestStep, RequestProcessing, BeginClaim, JoinActive, JoinLatest, Submit, storeVars

\* The only active job of its document decides the document's run.
LEMMA OnlyRun ==
  ASSUME RunInv, NEW j \in Job, NEW d \in Document, d = job[j].document, Active(j)
  PROVE  /\ ActiveRun[d] = job[j].status
         /\ \A k \in Job \ {j} : job[k].document = d => ~Active(k)
<1>1. \A k \in Job \ {j} : job[k].document = d => ~Active(k)
  BY DEF RunInv, OneActive
<1>2. QED
  BY <1>1, RunIs DEF HasJob, Active, ActiveStatus

\* jobs.start and jobs.finish change the status of the one job they name.
LEMMA StartMoves ==
  ASSUME RunInv, status' = status,
         NEW j \in Job, NEW d \in Document, d = job[j].document, job[j].status = "queued",
         \A k \in Job : /\ job'[k].status = IF k = j THEN "running" ELSE job[k].status
                        /\ job'[k].document = job[k].document
  PROVE  DocumentStep
<1>1. ActiveRun[d] = "queued"
  BY OnlyRun DEF Active, ActiveStatus
<1>2. \A e \in Document \ {d} : SameRun(e)
  BY DEF SameRun
<1>3. ActiveRun'[d] = "running"
  BY RunIs DEF HasJob
<1>4. Documents!Start(d)
  BY <1>1, <1>2, <1>3, RunSet DEF Documents!Start
<1>5. QED
  BY <1>4 DEF DocumentStep, Documents!Next, Documents!Advance

LEMMA EndMoves ==
  ASSUME RunInv, status' = status,
         NEW j \in Job, NEW d \in Document, d = job[j].document, job[j].status = "running",
         NEW outcome \in Lifecycle!Outcomes,
         \A k \in Job : /\ job'[k].status = IF k = j THEN outcome ELSE job[k].status
                        /\ job'[k].document = job[k].document,
         status[d] # "uploaded"
  PROVE  DocumentStep
<1>1. /\ ActiveRun[d] = "running"
      /\ \A k \in Job \ {j} : job[k].document = d => ~Active(k)
  BY OnlyRun DEF Active, ActiveStatus
<1>2. \A e \in Document \ {d} : SameRun(e)
  BY DEF SameRun
<1>3. ~HasJob(d, "running")' /\ ~HasJob(d, "queued")'
  BY <1>1 DEF HasJob, Active, ActiveStatus, Lifecycle!Outcomes
<1>4. ActiveRun'[d] = "none"
  BY <1>3, RunIs
<1>5. Documents!End(d)
  BY <1>1, <1>2, <1>4, RunSet DEF Documents!End
<1>6. QED
  BY <1>5 DEF DocumentStep, Documents!Next, Documents!Advance

LEMMA TaskDocuments ==
  ASSUME TypeInv, RunInv, PlacedInv, NEW j \in Job, TaskStep(j)
  PROVE  DocumentStep
<1>1. /\ job \in [Job -> Jobs] /\ Placed(j)
      /\ status \in [Document -> DocumentStatus \cup {"absent"}]
      /\ job[j].document \in Document
  BY TypeInvParts, TaskIsRunning DEF PipelineTypes, PlacedInv, StoreInv, StoreTypeOK, JobsBound
<1>2. PICK d \in Document : d = job[j].document
  BY <1>1
<1>3. CASE UNCHANGED <<status, job>>
  BY <1>3, DocumentStutter
<1>4. CASE StartJob(j)
  <2>1. CASE /\ status' = status /\ job[j].status = "queued"
             /\ job' = [job EXCEPT ![j].status = "running", ![j].stage = "upload"]
    <3>1. \A k \in Job : /\ job'[k].status = IF k = j THEN "running" ELSE job[k].status
                         /\ job'[k].document = job[k].document
      BY <1>1, <2>1 DEF Jobs
    <3>2. QED
      BY <1>2, <2>1, <3>1, StartMoves
  <2>2. QED
    BY <1>3, <1>4, <2>1 DEF StartJob, storeVars
<1>5. CASE Cancel(j)
  <2>1. ~Recorded(job[j].document)
    BY <1>1, <1>5 DEF Cancel, Placed
  <2>2. UNCHANGED <<status, job>>
    BY <1>5, <2>1 DEF Cancel, Finished, Active, RunInv, JobsPlaced, Exists, storeVars
  <2>3. QED
    BY <1>3, <2>2
<1>6. CASE Succeed(j) \/ Fail(j)
  <2>1. PICK outcome \in Lifecycle!Outcomes : job' = Finished(j, outcome) \/ job' = job
    BY <1>6 DEF Succeed, Fail, Finish, Lifecycle!Outcomes
  <2>2. /\ status' = status /\ task[j] \in Pipeline
        /\ status[d] # "uploaded"
    BY <1>1, <1>2, <1>6 DEF Succeed, Fail, Finish, storeVars, Pipeline, Past, Placed
  <2>3. CASE Active(j) /\ job' = [job EXCEPT ![j].status = outcome]
    <3>1. job[j].status = "running"
      BY <2>2, <2>3 DEF RunInv, RunsStarted, Active, ActiveStatus
    <3>2. \A k \in Job : /\ job'[k].status = IF k = j THEN outcome ELSE job[k].status
                         /\ job'[k].document = job[k].document
      BY <1>1, <2>3 DEF Jobs
    <3>3. QED
      BY <1>2, <2>1, <2>2, <2>3, <3>1, <3>2, EndMoves
  <2>4. QED
    BY <1>3, <2>1, <2>2, <2>3 DEF Finished
<1>7. CASE MarkProcessing(j)
  <2>1. CASE Recorded(d) /\ job' = job /\ status' = [status EXCEPT ![d] = "processing"]
    <3>1. task[j] \in Pipeline
      BY <1>7 DEF MarkProcessing, SetDocument, Pipeline
    <3>2. job[j].status = "running"
      BY <1>2, <2>1, <3>1 DEF RunInv, RunsStarted, JobsPlaced
    <3>3. ActiveRun[d] = "running"
      BY <1>2, <3>2, OnlyRun DEF Active, ActiveStatus
    <3>4. QED
      BY <2>1, <3>3, StatusWritten
  <2>2. QED
    BY <1>2, <1>3, <1>7, <2>1 DEF MarkProcessing, SetDocument, StatusSet
<1>8. CASE MarkReady(j) \/ MarkFailed(j)
  <2>1. CASE /\ Recorded(d) /\ job' = job
             /\ \E s \in {"ready", "failed"} : status' = [status EXCEPT ![d] = s]
    <3>1. status[d] # "uploaded"
      BY <1>1, <1>2, <1>8 DEF MarkReady, MarkFailed, SetDocument, Past, Placed
    <3>2. status[d] \in {"processing", "ready", "failed"}
      BY <1>1, <2>1, <3>1 DEF Recorded, DocumentStatus
    <3>3. PICK s \in {"ready", "failed"} : status' = [status EXCEPT ![d] = s]
      BY <2>1
    <3>4. QED
      BY <2>1, <3>2, <3>3, StatusWritten
  <2>2. QED
    BY <1>2, <1>3, <1>8, <2>1 DEF MarkReady, MarkFailed, SetDocument, StatusSet
<1>9. CASE Extract(j) \/ Clean(j) \/ Split(j) \/ Persist(j) \/ Embed(j) \/ Index(j)
  <2>1. /\ status' = status
        /\ \E stage \in Stage : job' = Advanced(j, stage) \/ job' = job
    BY <1>9 DEF Extract, Clean, Split, Persist, Embed, Index, Advance, Stage, storeVars
  <2>2. QED
    BY <1>1, <2>1, AdvancedTypes, DocumentStutter
<1>10. QED
  BY <1>3, <1>4, <1>5, <1>6, <1>7, <1>8, <1>9 DEF TaskStep, LookUp,
     Download, ReplaceChunks, EmbedTexts, GraphNode, GraphStale, GraphUpsert, storeVars

LEMMA UploadDocuments ==
  ASSUME TypeInv, RunInv, NEW u \in Uploader, Upload(u)
  PROVE  DocumentStep
<1>1. job' = job
  BY DEF Upload
<1>2. CASE status' = status
  BY <1>1, <1>2, DocumentStutter
<1>3. CASE CreateRow(u) /\ status' # status
  <2>1. /\ uploads[u].pc = "insert"
        /\ status' = [status EXCEPT ![uploads[u].document] = "uploaded"]
    BY <1>3 DEF CreateRow
  <2>2. /\ uploads[u].document \in Document
        /\ status[uploads[u].document] = "absent"
    BY <2>1 DEF TypeInv, TypeOK, StoreTypeOK, RunInv, UploadsFresh, Unrecorded, Recorded
  <2>3. PICK d \in Document : d = uploads[u].document
    BY <2>2
  <2>4. QED
    BY <1>1, <2>1, <2>2, <2>3, StatusWritten
<1>4. QED
  BY <1>2, <1>3 DEF Upload, UploadStep, BeginUpload, FindByChecksum, WriteObject, Compensate

LEMMA DeleteDocuments ==
  ASSUME TypeInv, RunInv, NEW x \in Deleter, Delete(x)
  PROVE  DocumentStep
<1>1. \A k \in Job :
        /\ job'[k].document = job[k].document
        /\ \/ /\ Exists(k) /\ status'[job[k].document] = "absent"
              /\ job'[k].status = "gone"
           \/ /\ ~(Exists(k) /\ status'[job[k].document] = "absent")
              /\ job'[k].status = job[k].status
  BY DeleteEffect
<1>2. \A k \in Job : Exists(k) => /\ job[k].document \in Document
                                  /\ Recorded(job[k].document)
  BY TypeInvParts DEF JobsBound, RunInv, JobsPlaced, Exists, ActiveStatus, TerminalStatus
<1>3. status \in [Document -> DocumentStatus \cup {"absent"}]
  BY DEF TypeInv, TypeOK, StoreTypeOK
<1>4. CASE status' = status
  BY <1>1, <1>2, <1>4, DocumentStutter DEF Recorded
<1>5. ASSUME NEW d \in Document, status' = [status EXCEPT ![d] = "absent"] PROVE DocumentStep
  <2>1. ASSUME NEW e \in Document \ {d} PROVE SameRun(e)
    <3>1. \A k \in Job : job[k].document = e => job'[k].status = job[k].status
      BY <1>1, <1>2, <1>3, <1>5, <2>1 DEF Recorded
    <3>2. QED
      BY <1>1, <3>1 DEF SameRun
  <2>2. \A k \in Job : job[k].document = d => job'[k].status \notin {"queued", "running"}
    BY <1>1, <1>3, <1>5 DEF Exists, ActiveStatus, TerminalStatus
  <2>3. ~HasJob(d, "running")' /\ ~HasJob(d, "queued")'
    BY <1>1, <2>2 DEF HasJob
  <2>4. ActiveRun' = [ActiveRun EXCEPT ![d] = "none"]
    BY <2>1, <2>3, RunIs, RunSet
  <2>5. Documents!Remove(d)
    BY <1>5, <2>4 DEF Documents!Remove
  <2>6. QED
    BY <2>5 DEF DocumentStep, Documents!Next
<1>6. QED
  BY <1>4, <1>5, DeleteEffect

LEMMA EveryDocumentStep == TypeInv /\ RunInv /\ PlacedInv /\ [Next]_vars => DocumentStep
<1>1. SUFFICES ASSUME TypeInv, RunInv, PlacedInv, [Next]_vars PROVE DocumentStep
  OBVIOUS
<1>2. ASSUME NEW r \in Request, RequestStep(r) PROVE DocumentStep
  BY <1>1, <1>2, RequestDocuments
<1>3. ASSUME NEW j \in Job, TaskStep(j) PROVE DocumentStep
  BY <1>1, <1>3, TaskDocuments
<1>4. ASSUME NEW u \in Uploader, Upload(u) PROVE DocumentStep
  BY <1>1, <1>4, UploadDocuments
<1>5. ASSUME NEW x \in Deleter, Delete(x) PROVE DocumentStep
  BY <1>1, <1>5, DeleteDocuments
<1>6. CASE UNCHANGED <<status, job>>
  BY <1>6, DocumentStutter
<1>7. QED
  BY <1>1, <1>2, <1>3, <1>4, <1>5, <1>6 DEF Next, Crash, CrashStore, vars, storeVars

LEMMA InitDocuments == Init => Documents!Init
<1>1. SUFFICES ASSUME Init PROVE Documents!Init
  OBVIOUS
<1>2. status \in [Document -> {"absent", "uploaded"}]
  BY <1>1 DEF Init, StoreInit
<1>3. \A d \in Document : ActiveRun[d] = "none"
  BY <1>1, RunIs DEF Init, NewJob, HasJob
<1>4. ActiveRun = [d \in Document |-> "none"]
  BY <1>3 DEF ActiveRun
<1>5. QED
  BY <1>2, <1>4 DEF Documents!Init

\* The status column keeps its promise to those who poll the list: whatever
\* fails, restarts or is deleted under a run, a document says processing only
\* while a run over it is under way, and an outcome only after it was marked.
THEOREM DocumentsImplementLifecycle == Spec => ImplementsDocuments
<1>1. TypeInv /\ RunInv /\ PlacedInv /\ [Next]_vars => (TypeInv /\ RunInv /\ PlacedInv)'
  BY TypeInvInductive, RunInvInductive, PlacedInductive
<1>2. TypeInv /\ RunInv /\ PlacedInv /\ [Next]_vars => [Documents!Next]_<<status, ActiveRun>>
  BY EveryDocumentStep DEF DocumentStep
<1>3. QED
  BY <1>1, <1>2, InitTypes, InitRuns, InitPlaced, InitDocuments, PTL
  DEF Spec, ImplementsDocuments, Documents!Spec

-----------------------------------------------------------------------------
(* The status endpoint.  Both lifecycles bear on what it says: a status past *)
(* "uploaded" was written under a run, and rows of jobs go with the document *)
(* alone.  Between two reads of the endpoint a document may go, but it never *)
(* comes back, because an id is recorded once.                               *)

\* The row of d was there: no insert to come is its.
WasRecorded(d) ==
  /\ d \in minted
  /\ \A u \in Uploader : Unrecorded(u) => uploads[u].document # d

LEMMA RecordedWas ==
  ASSUME UploadsFresh, NEW d \in Document, Recorded(d)
  PROVE  WasRecorded(d)
BY DEF UploadsFresh, WasRecorded

LEMMA NeverRecordedAgain ==
  ASSUME TypeInv, [Next]_vars, NEW d \in Document, WasRecorded(d)
  PROVE  WasRecorded(d)' /\ (Recorded(d)' => Recorded(d))
<1>. DEFINE Goal == WasRecorded(d)' /\ (Recorded(d)' => Recorded(d))
<1>. SUFFICES Goal
  OBVIOUS
<1>1. /\ uploads \in [Uploader -> [pc : UploadPc, content : Content \cup {NoContent},
                                  document : Document \cup {NoDocument}]]
      /\ status \in [Document -> DocumentStatus \cup {"absent"}]
      /\ deletes \in [Deleter -> [pc : DeletePc, document : Document \cup {NoDocument}]]
  BY DEF TypeInv, TypeOK, StoreTypeOK
<1>2. CASE UNCHANGED <<minted, uploads>> /\ (Recorded(d)' => Recorded(d))
  BY <1>2 DEF WasRecorded, Unrecorded
<1>3. ASSUME NEW u \in Uploader, UploadStep(u) PROVE Goal
  <2>1. \A v \in Uploader : v # u => uploads'[v] = uploads[v]
    BY <1>1, <1>3 DEF UploadStep, BeginUpload, FindByChecksum, WriteObject, CreateRow, Compensate
  <2>2. CASE CreateRow(u)
    <3>1. Unrecorded(u) /\ uploads[u].document # d
      BY <2>2 DEF CreateRow, Unrecorded, WasRecorded
    <3>2. ~Unrecorded(u)'
      BY <1>1, <2>2 DEF CreateRow, Unrecorded
    <3>3. Recorded(d)' => Recorded(d)
      BY <1>1, <2>2, <3>1 DEF CreateRow, Recorded
    <3>4. minted' = minted
      BY <2>2 DEF CreateRow
    <3>. QED
      BY <2>1, <3>2, <3>3, <3>4 DEF WasRecorded, Unrecorded
  <2>3. CASE ~CreateRow(u)
    <3>1. status' = status
      BY <1>3, <2>3 DEF UploadStep, BeginUpload, FindByChecksum, WriteObject, Compensate
    <3>2. minted \subseteq minted'
      BY <1>3, <2>3 DEF UploadStep, BeginUpload, FindByChecksum, WriteObject, Compensate
    <3>3. Unrecorded(u)' => uploads'[u].document # d
      <4>1. CASE \E c \in Content : BeginUpload(u, c)
        BY <1>1, <4>1 DEF BeginUpload, Unrecorded
      <4>2. CASE FindByChecksum(u)
        BY <1>1, <4>2 DEF FindByChecksum, Unrecorded, WasRecorded
      <4>3. CASE WriteObject(u) \/ Compensate(u)
        BY <1>1, <4>3 DEF WriteObject, Compensate, Unrecorded, WasRecorded
      <4>. QED
        BY <1>3, <2>3, <4>1, <4>2, <4>3 DEF UploadStep
    <3>. QED
      BY <2>1, <3>1, <3>2, <3>3 DEF WasRecorded, Unrecorded, Recorded
  <2>. QED
    BY <2>2, <2>3
<1>4. ASSUME NEW x \in Deleter, DeleteStep(x) PROVE Goal
  BY <1>1, <1>2, <1>4 DEF DeleteStep, BeginDelete, RemoveObject, RemoveRow, RowRemoved, Recorded
<1>5. CASE CrashStore
  <2>1. \A u \in Uploader : /\ uploads'[u].document = uploads[u].document
                            /\ ~Unrecorded(u)'
    BY <1>1, <1>5 DEF CrashStore, Unrecorded, UploadInFlight
  <2>. QED
    BY <1>5, <2>1 DEF CrashStore, WasRecorded, Recorded
<1>6. CASE StatusMoves
  BY <1>2, <1>6 DEF StatusMoves
<1>7. CASE UNCHANGED storeVars
  BY <1>2, <1>7 DEF storeVars, Recorded
<1>. QED
  BY <1>3, <1>4, <1>5, <1>6, <1>7, StoreUnderPipeline DEF StoreNext

\* Jobs stay with their document as long as it is there.
LEMMA JobsStay ==
  ASSUME TypeInv, TypeInv', RunInv, RunInv', PlacedInv, [Next]_vars,
         NEW d \in Document, JobsOf(d) # {}, Recorded(d)'
  PROVE  JobsOf(d)' # {}
<1>1. PICK k \in Job : Exists(k) /\ job[k].document = d
  BY DEF JobsOf
<1>2. job[k].status # "unused"
  BY <1>1 DEF Exists, ActiveStatus, TerminalStatus
<1>3. JobStep
  BY EveryJobStep
<1>4. job'[k].document = job[k].document /\ job'[k].status # "unused"
  <2>1. CASE UNCHANGED <<JobStates, JobDocuments>>
    BY <1>2, <2>1 DEF JobStates, JobDocuments
  <2>2. CASE Lifecycle!Next
    <3>1. /\ JobStates = [j \in Job |-> job[j].status] /\ JobStates' = [j \in Job |-> job'[j].status]
          /\ JobDocuments = [j \in Job |-> job[j].document]
          /\ JobDocuments' = [j \in Job |-> job'[j].document]
      BY DEF JobStates, JobDocuments
    <3>2. ASSUME NEW j \in Job, NEW e \in Document, Lifecycle!Queue(j, e)
          PROVE  job'[k].document = job[k].document /\ job'[k].status # "unused"
      BY <1>2, <3>1, <3>2 DEF Lifecycle!Queue
    <3>3. ASSUME NEW j \in Job, Lifecycle!Start(j)
          PROVE  job'[k].document = job[k].document /\ job'[k].status # "unused"
      BY <1>2, <3>1, <3>3 DEF Lifecycle!Start
    <3>4. ASSUME NEW j \in Job, NEW outcome \in Lifecycle!Outcomes, Lifecycle!End(j, outcome)
          PROVE  job'[k].document = job[k].document /\ job'[k].status # "unused"
      BY <1>2, <3>1, <3>4 DEF Lifecycle!End, Lifecycle!Outcomes
    <3>5. ASSUME NEW e \in Document, Lifecycle!Purge(e)
          PROVE  job'[k].document = job[k].document /\ job'[k].status # "unused"
      BY <1>2, <3>1, <3>5 DEF Lifecycle!Purge
    <3>. QED
      BY <2>2, <3>2, <3>3, <3>4, <3>5 DEF Lifecycle!Next
  <2>. QED
    BY <1>3, <2>1, <2>2 DEF JobStep
<1>5. job'[k].status # "gone"
  BY <1>1, <1>4 DEF RunInv, JobsPlaced
<1>6. job'[k].status \in JobStatus
  BY TypeInvParts DEF PipelineTypes, Jobs
<1>. QED
  BY <1>1, <1>4, <1>5, <1>6 DEF JobsOf, Exists, JobStatus

\* A status past "uploaded" has a job behind it.
JobBehind ==
  \A d \in Document : status[d] \notin {"absent", "uploaded"} => JobsOf(d) # {}

LEMMA JobBehindInductive ==
  ASSUME TypeInv, TypeInv', RunInv, RunInv', PlacedInv, JobBehind, [Next]_vars
  PROVE  JobBehind'
<1>1. SUFFICES ASSUME NEW d \in Document, status'[d] \notin {"absent", "uploaded"}
               PROVE  JobsOf(d)' # {}
  BY DEF JobBehind
<1>2. CASE JobsOf(d) # {}
  BY <1>1, <1>2, JobsStay DEF Recorded
<1>3. CASE status'[d] = status[d]
  BY <1>1, <1>2, <1>3 DEF JobBehind
<1>4. CASE ActiveRun[d] # "none"
  <2>1. JobsOf(d) # {}
    BY <1>4 DEF ActiveRun, ActiveJobs
  <2>. QED
    BY <1>2, <2>1
<1>5. status[d] \in {"processing", "ready", "failed"} \/ status'[d] = status[d] \/ ActiveRun[d] # "none"
  <2>1. status \in [Document -> DocumentStatus \cup {"absent"}]
    BY DEF TypeInv, TypeOK, StoreTypeOK
  <2>2. DocumentStep
    BY EveryDocumentStep
  <2>3. CASE UNCHANGED <<status, ActiveRun>>
    BY <2>3
  <2>4. ASSUME NEW e \in Document, Documents!Appear(e) \/ Documents!Claim(e) \/ Documents!Start(e)
                                   \/ Documents!End(e) \/ Documents!Remove(e)
        PROVE  status'[d] = status[d]
    BY <1>1, <2>1, <2>4 DEF Documents!Appear, Documents!Claim, Documents!Start, Documents!End,
       Documents!Remove
  <2>5. ASSUME NEW e \in Document, Documents!Mark(e)
        PROVE  status'[d] = status[d] \/ ActiveRun[d] # "none"
    BY <2>1, <2>5 DEF Documents!Mark
  <2>6. ASSUME NEW e \in Document, NEW outcome \in {"ready", "failed"}, Documents!Settle(e, outcome)
        PROVE  status'[d] = status[d] \/ status[d] \in {"processing", "ready", "failed"}
    BY <2>1, <2>6 DEF Documents!Settle
  <2>. QED
    BY <2>2, <2>3, <2>4, <2>5, <2>6 DEF DocumentStep, Documents!Next, Documents!Advance
<1>. QED
  BY <1>2, <1>3, <1>4, <1>5 DEF JobBehind

\* A set of numbers that is not empty has a least one.
LEMMA NatLeast ==
  ASSUME NEW T \in SUBSET Nat, T # {}
  PROVE  \E x \in T : \A y \in T : x <= y
<1>1. PICK x \in T : \A y \in T : <<y, x>> \notin OpToRel(<, Nat)
  BY NatLessThanWellFounded, WFMin, Zenon
<1>2. ASSUME NEW y \in T PROVE x <= y
  <2>1. <<y, x>> \notin OpToRel(<, Nat)
    BY <1>1
  <2>2. ~(y < x)
    BY <2>1 DEF OpToRel
  <2>. QED
    BY <2>2
<1>. QED
  BY <1>1, <1>2

\* The latest of the jobs a document has.
LEMMA LatestExists ==
  ASSUME TypeInv, OrderInv, NEW d \in Document, JobsOf(d) # {}
  PROVE  LatestJobs(d) # {}
<1>. DEFINE n == Inserts
            Short == {n - job[k].created : k \in JobsOf(d)}
<1>1. n \in Nat
  BY TypeInvParts, InsertsIsNat
<1>2. \A k \in JobsOf(d) : job[k].created \in Nat /\ job[k].created <= n
  <2>1. ASSUME NEW k \in JobsOf(d)
        PROVE  job[k].created \in Nat /\ job[k].created <= n
    <3>1. k \in Job /\ Exists(k)
      BY DEF JobsOf
    <3>2. job[k].created \in Nat /\ job[k].inserted \in Nat
      BY <3>1, TypeInvParts DEF PipelineTypes, Jobs
    <3>3. job[k].created < job[k].inserted /\ job[k].inserted <= n
      BY <3>1 DEF OrderInv, RowsInOrder
    <3>. QED
      BY <1>1, <3>2, <3>3
  <2>. QED
    BY <2>1
<1>3. Short \in SUBSET Nat /\ Short # {}
  BY <1>1, <1>2
<1>. HIDE DEF n
<1>4. PICK least \in Short : \A y \in Short : least <= y
  BY <1>3, NatLeast
<1>5. PICK k \in JobsOf(d) : least = n - job[k].created
  OBVIOUS
<1>6. ASSUME NEW i \in JobsOf(d) PROVE job[i].created <= job[k].created
  <2>1. n - job[k].created <= n - job[i].created
    BY <1>4, <1>5
  <2>. QED
    BY <1>1, <1>2, <2>1
<1>. QED
  BY <1>6 DEF LatestJobs

\* What the endpoint has read of a document stays true of it while it is there.
ReportInv ==
  /\ report \in [next : {"document", "job", "chunks"}, document : Document \cup {NoDocument},
                 past : BOOLEAN, named : BOOLEAN]
  /\ report.next # "document" => report.document \in Document /\ WasRecorded(report.document)
  /\ report.next = "job" /\ report.past /\ Recorded(report.document) =>
       JobsOf(report.document) # {}
  /\ StatusNamesJob

StatusInv == TypeInv /\ RunInv /\ PlacedInv /\ OrderInv /\ JobBehind /\ ReportInv

LEMMA ReportKept ==
  ASSUME StatusInv, TypeInv', RunInv', [Next]_vars, report' = report
  PROVE  ReportInv'
<1>1. CASE report.next = "document"
  BY <1>1 DEF StatusInv, ReportInv, StatusNamesJob
<1>2. CASE report.next # "document"
  <2>. DEFINE d == report.document
  <2>1. d \in Document /\ WasRecorded(d)
    BY <1>2 DEF StatusInv, ReportInv
  <2>2. WasRecorded(d)' /\ (Recorded(d)' => Recorded(d))
    BY <2>1, NeverRecordedAgain DEF StatusInv
  <2>3. JobsOf(d) # {} /\ Recorded(d)' => JobsOf(d)' # {}
    BY <2>1, JobsStay DEF StatusInv
  <2>. QED
    BY <1>2, <2>1, <2>2, <2>3 DEF StatusInv, ReportInv, StatusNamesJob
<1>. QED
  BY <1>1, <1>2

LEMMA ReportRead ==
  ASSUME StatusInv, StatusForDocument, UNCHANGED vars
  PROVE  ReportInv'
<1>0. UNCHANGED <<status, minted, uploads, job>>
  BY DEF vars, storeVars
<1>1. \A d : /\ JobsOf(d)' = JobsOf(d) /\ Recorded(d)' = Recorded(d)
             /\ WasRecorded(d)' = WasRecorded(d)
  BY <1>0 DEF JobsOf, Exists, Recorded, WasRecorded, Unrecorded
<1>. USE DEF StatusInv, ReportInv
<1>2. ASSUME NEW d \in Document, ReadDocument(d) PROVE ReportInv'
  <2>1. Recorded(d) /\ WasRecorded(d) /\ (status[d] # "uploaded" => JobsOf(d) # {})
    BY <1>2, RecordedWas DEF ReadDocument, RunInv, JobBehind, Recorded
  <2>2. report' = [next |-> "job", document |-> d, past |-> status[d] # "uploaded",
                   named |-> report.named]
    BY <1>2 DEF ReadDocument
  <2>. QED
    BY <1>1, <2>1, <2>2 DEF StatusNamesJob
<1>3. CASE ReadJob
  <2>1. report' = [next |-> "chunks", document |-> report.document, past |-> report.past,
                   named |-> LatestJobs(report.document) # {}]
    BY <1>3 DEF ReadJob
  <2>2. report.document \in Document /\ WasRecorded(report.document)
    BY <1>3 DEF ReadJob
  <2>3. report.past /\ Recorded(report.document) => LatestJobs(report.document) # {}
    BY <1>3, <2>2, LatestExists DEF ReadJob
  <2>. QED
    BY <1>1, <2>1, <2>2, <2>3 DEF StatusNamesJob
<1>4. CASE EndReport
  BY <1>4 DEF EndReport, NoReport, StatusNamesJob
<1>. QED
  BY <1>2, <1>3, <1>4 DEF StatusForDocument

LEMMA StatusInvInductive == StatusInv /\ [StatusNext]_statusVars => StatusInv'
<1>1. SUFFICES ASSUME StatusInv, [StatusNext]_statusVars PROVE StatusInv'
  OBVIOUS
<1>2. [Next]_vars
  BY <1>1 DEF StatusNext, statusVars
<1>3. TypeInv' /\ RunInv' /\ PlacedInv' /\ OrderInv'
  BY <1>1, <1>2, TypeInvInductive, RunInvInductive, PlacedInductive, OrderInductive DEF StatusInv
<1>4. JobBehind'
  BY <1>1, <1>2, <1>3, JobBehindInductive DEF StatusInv
<1>5. CASE report' = report
  BY <1>1, <1>2, <1>3, <1>4, <1>5, ReportKept DEF StatusInv
<1>6. CASE StatusForDocument /\ UNCHANGED vars
  BY <1>1, <1>3, <1>4, <1>6, ReportRead DEF StatusInv
<1>. QED
  BY <1>1, <1>5, <1>6 DEF StatusNext, statusVars

\* What the endpoint answers is read in pieces, and still never says of a
\* document that is there that it went past "uploaded" without a job, whatever
\* requests, runs, failures and restarts come between its reads.
THEOREM AnswersNameAJob == StatusSpec => []StatusNamesJob
<1>1. StatusInit => StatusInv
  <2>1. Init => JobBehind
    BY DEF Init, StoreInit, JobBehind
  <2>2. report = NoReport => ReportInv
    BY DEF ReportInv, NoReport, StatusNamesJob
  <2>. QED
    BY <2>1, <2>2, InitTypes, InitRuns, InitPlaced, InitOrder DEF StatusInit, StatusInv
<1>2. StatusInv => StatusNamesJob
  BY DEF StatusInv, ReportInv
<1>. QED
  BY <1>1, <1>2, StatusInvInductive, PTL DEF StatusSpec

=============================================================================
