---------------------------- MODULE JobLifecycle -----------------------------
(***************************************************************************)
(* What a row of ingestion_jobs promises to those who read it: a job is    *)
(* queued for a document that has no active job, started, and ended once;  *)
(* an outcome is never changed, a retry is another row, and rows disappear *)
(* only all together, with their document, which is then never processed   *)
(* again.                                                                  *)
(***************************************************************************)
CONSTANTS
  Job,
  Document,
  NoDocument

VARIABLES
  state,  \* the status of each job
  of      \* the document it runs over

States == {"unused", "queued", "running", "succeeded", "failed", "cancelled", "gone"}
Outcomes == {"succeeded", "failed", "cancelled"}

Queue(j, d) ==
  /\ state[j] = "unused"
  /\ \A k \in Job : of[k] = d => state[k] \in Outcomes
  /\ state' = [state EXCEPT ![j] = "queued"]
  /\ of' = [of EXCEPT ![j] = d]

Start(j) ==
  /\ state[j] = "queued"
  /\ state' = [state EXCEPT ![j] = "running"]
  /\ UNCHANGED of

End(j, outcome) ==
  /\ state[j] = "running"
  /\ state' = [state EXCEPT ![j] = outcome]
  /\ UNCHANGED of

Purge(d) ==
  /\ state' = [j \in Job |-> IF of[j] = d THEN "gone" ELSE state[j]]
  /\ UNCHANGED of

Init ==
  /\ state = [j \in Job |-> "unused"]
  /\ of = [j \in Job |-> NoDocument]

Next ==
  \/ \E j \in Job, d \in Document : Queue(j, d)
  \/ \E j \in Job : Start(j)
  \/ \E j \in Job, outcome \in Outcomes : End(j, outcome)
  \/ \E d \in Document : Purge(d)

Spec == Init /\ [][Next]_<<state, of>>

=============================================================================
