------------------------------- MODULE Lifespan ------------------------------
(***************************************************************************)
(* The life of the API process around the ingestion pipeline: the lifespan *)
(* of create_app and BackgroundTaskRunner.drain.  A process that is asked  *)
(* to stop lets its requests end (the server does that before it ends the  *)
(* lifespan), waits for its tasks for a limited time, closes the HTTP      *)
(* client, the graph driver and the database pool in this order, each an   *)
(* awaited call with tasks running between them, and exits.                *)
(***************************************************************************)
EXTENDS Ingestion

VARIABLES
  phase,     \* how far the process is on its way down
  abandoned  \* tasks that were still pending when the drain gave up

lifeVars == <<vars, phase, abandoned>>

Phases == <<"serving", "draining", "drained", "http", "graph", "closed">>

Before(p, q) ==
  \E m, n \in DOMAIN Phases : Phases[m] = p /\ Phases[n] = q /\ m < n

\* Mutant: the pool is closed before the driver.
ClosedPoolFirst(call) ==
  IF call \in {"download", "embedding"} THEN "http"
  ELSE IF call \in {"node", "stale", "upsert"} THEN "closed" ELSE "graph"

\* The phase that closes what a call of a run uses.
ClosedIn(call) ==
  IF call \in {"download", "embedding"} THEN "http"
  ELSE IF call \in {"node", "stale", "upsert"} THEN "graph" ELSE "closed"

Usable(call) == Before(phase, ClosedIn(call))

\* A call on a closed client, driver or pool raises without doing anything.
Cut(j) ==
  /\ task[j] \in TaskRunning /\ ~Usable(task[j])
  /\ task' = [task EXCEPT ![j] = Raised(j)]
  /\ UNCHANGED <<storeVars, job, tableVars, graphVars, request>>

Run(j) ==
  /\ (Usable(task[j]) /\ TaskStep(j)) \/ Cut(j)
  /\ UNCHANGED <<phase, abandoned>>

Serve(A) == phase = "serving" /\ A /\ UNCHANGED <<phase, abandoned>>

Answered ==
  /\ \A r \in Request : request[r].pc \notin RequestInFlight
  /\ \A u \in Uploader : uploads[u].pc \notin UploadInFlight
  /\ \A x \in Deleter : deletes[x].pc \notin DeleteInFlight

Pending == {j \in Job : task[j] \in TaskRunning}

\* SIGTERM: the server stops accepting and waits for the requests it has.
BeginShutdown ==
  /\ phase = "serving" /\ Answered
  /\ phase' = "draining"
  /\ UNCHANGED <<vars, abandoned>>

\* Mutant: asyncio.wait with FIRST_COMPLETED.
SomeEnded == Pending = {} \/ \E j \in Job : task[j] \notin TaskRunning \cup {"none"}

\* asyncio.wait returns before its timeout once every task has ended.
AllEnded == Pending = {}

\* drain
EndDrain ==
  /\ phase = "draining"
  /\ \/ AllEnded /\ UNCHANGED abandoned
     \/ ~AllEnded /\ abandoned' = abandoned \cup Pending  \* after timeout_seconds
  /\ phase' = "drained"
  /\ UNCHANGED vars

\* client.aclose, graph_database.disconnect, database.disconnect
Close ==
  /\ \E n \in 3..5 : phase = Phases[n] /\ phase' = Phases[n + 1]
  /\ UNCHANGED <<vars, abandoned>>

\* The event loop ends with whatever is left on it, and another process starts:
\* connect, verify and apply_schema are idempotent and touch no row.
Restart ==
  /\ phase = "closed"
  /\ Crash
  /\ phase' = "serving"
  /\ UNCHANGED abandoned

LifeInit == Init /\ phase = "serving" /\ abandoned = {}

LifeNext ==
  \/ \E r \in Request : Serve(RequestStep(r))
  \/ \E j \in Job : Run(j)
  \/ \E u \in Uploader : Serve(Upload(u))
  \/ \E x \in Deleter : Serve(Delete(x))
  \/ BeginShutdown
  \/ EndDrain
  \/ Close
  \/ Restart

\* As in Ingestion; the loop also resumes the lifespan.  Nobody has to send
\* SIGTERM, and nobody has to start the next process.
LifeFairness ==
  /\ \A r \in Request :
       WF_lifeVars(request[r].pc \in RequestInFlight /\ Serve(RequestStep(r)))
  /\ \A j \in Job : WF_lifeVars(Run(j))
  /\ \A u \in Uploader : WF_lifeVars(uploads[u].pc \in UploadInFlight /\ Serve(Upload(u)))
  /\ \A x \in Deleter : WF_lifeVars(deletes[x].pc \in DeleteInFlight /\ Serve(Delete(x)))
  /\ WF_lifeVars(EndDrain)
  /\ WF_lifeVars(Close)

LifeSpec == LifeInit /\ [][LifeNext]_lifeVars /\ LifeFairness

-----------------------------------------------------------------------------
(* Properties *)

\* "A job killed mid-stage would leave a row saying 'running' that nothing will
\* ever finish": while only the calls inside the try of run fail, a job whose
\* row is active has a task, or a request about to submit it, through drain,
\* shutdown and restart, unless the drain gave it up.
StopLosesOnlyAbandoned ==
  \A j \in Job : Active(j) =>
    \/ task[j] \in TaskRunning
    \/ \E r \in Request : request[r].pc = "submit" /\ request[r].job = j
    \/ j \in abandoned

\* A run whose client or driver is closed under it still records that: the pool
\* is closed last, so no exception is left to the guard of the runner before.
CutRunsAreRecorded ==
  [][\A j \in Job : task[j] # "dead" /\ task'[j] = "dead" => phase = "closed"]_lifeVars

\* Every job that exists ends or goes with its document, unless the drain gave
\* its run up.
JobsSettle ==
  \A j \in Job :
    Active(j) ~> job[j].status \in TerminalStatus \cup {"gone"} \/ j \in abandoned

\* No document stays in processing, unless the drain gave a run of it up.
DocumentsSettle ==
  \A d \in Document : status[d] = "processing" ~>
    status[d] # "processing" \/ \E j \in abandoned : job[j].document = d

=============================================================================
