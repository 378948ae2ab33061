-------------------------- MODULE DocumentLifecycle --------------------------
(***************************************************************************)
(* What the status of a document promises to those who only read it: it    *)
(* appears as uploaded, says processing because a run that is under way    *)
(* said so, says ready or failed only after it said processing, never says *)
(* uploaded again, and disappears together with the run.                   *)
(***************************************************************************)
CONSTANT Document

VARIABLES
  status,  \* documents.status, "absent" without a row
  run      \* the active job of the document, if it has one

Run == {"none", "queued", "running"}

Appear(d) ==
  /\ status[d] = "absent"
  /\ status' = [status EXCEPT ![d] = "uploaded"]
  /\ UNCHANGED run

Claim(d) ==
  /\ status[d] # "absent"
  /\ run[d] = "none"
  /\ run' = [run EXCEPT ![d] = "queued"]
  /\ UNCHANGED status

Start(d) ==
  /\ run[d] = "queued"
  /\ run' = [run EXCEPT ![d] = "running"]
  /\ UNCHANGED status

Mark(d) ==
  /\ run[d] = "running"
  /\ status' = [status EXCEPT ![d] = "processing"]
  /\ UNCHANGED run

\* A run does not end before it has marked its document.
End(d) ==
  /\ run[d] = "running" /\ status[d] # "uploaded"
  /\ run' = [run EXCEPT ![d] = "none"]
  /\ UNCHANGED status

\* Not bound to the end of the run: the outcome is written after it, and a run
\* that was claimed in between may be under way.
Settle(d, outcome) ==
  /\ status[d] \in {"processing", "ready", "failed"}
  /\ status' = [status EXCEPT ![d] = outcome]
  /\ UNCHANGED run

Remove(d) ==
  /\ status' = [status EXCEPT ![d] = "absent"]
  /\ run' = [run EXCEPT ![d] = "none"]

Init ==
  /\ status \in [Document -> {"absent", "uploaded"}]
  /\ run = [d \in Document |-> "none"]

Advance(d) ==
  \/ Start(d) \/ Mark(d) \/ End(d)
  \/ \E outcome \in {"ready", "failed"} : Settle(d, outcome)

Next == \E d \in Document : Appear(d) \/ Claim(d) \/ Advance(d) \/ Remove(d)

Spec == Init /\ [][Next]_<<status, run>>

=============================================================================
