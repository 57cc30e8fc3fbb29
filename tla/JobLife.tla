------------------------------ MODULE JobLife ------------------------------
(***************************************************************************)
(* What the job store promises about a job, without leases, calls, clocks  *)
(* or tables: a job is submitted once, started at most once, and ends at   *)
(* most once, with a published status or interrupted.  JobStore implements *)
(* this specification; components that use jobs are built on it.           *)
(***************************************************************************)
CONSTANTS
  Jobs,       \* the jobs that can be submitted
  Outcomes    \* statuses a result is published with

VARIABLE phase

Phases == {"absent", "queued", "running", "interrupted"} \cup Outcomes

Init == phase = [j \in Jobs |-> "absent"]

(* start_job inserts the row. *)
Submit(j) ==
  /\ phase[j] = "absent"
  /\ phase' = [phase EXCEPT ![j] = "queued"]

(* claim_job grants the lease. *)
Start(j) ==
  /\ phase[j] = "queued"
  /\ phase' = [phase EXCEPT ![j] = "running"]

(* publish_result commits. *)
Publish(j, o) ==
  /\ phase[j] \in {"queued", "running"}
  /\ phase' = [phase EXCEPT ![j] = o]

(* recover_jobs interrupts every running job whose lease has expired; the  *)
(* lease is not part of this view, so any running jobs may be among them.  *)
Interrupt(S) ==
  /\ \A j \in S : phase[j] = "running"
  /\ phase' = [j \in Jobs |-> IF j \in S THEN "interrupted" ELSE phase[j]]

Next ==
  \/ \E j \in Jobs : Submit(j) \/ Start(j) \/ \E o \in Outcomes : Publish(j, o)
  \/ \E S \in SUBSET Jobs : Interrupt(S)

Spec == Init /\ [][Next]_phase
=============================================================================
