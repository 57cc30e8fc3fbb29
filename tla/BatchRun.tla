------------------------------ MODULE BatchRun ------------------------------
(***************************************************************************)
(* One batch of src/workbench_batch.cpp and the runs that work on it.      *)
(*                                                                         *)
(* A batch is a durable record (steps, attempts, budget) under an owner    *)
(* lease.  Each `batch run` loads the record when it claims the lease,     *)
(* works on its own copy, and writes the copy back only while the row      *)
(* still names it.  Runs may crash, stall past their lease and wake up     *)
(* again, so several of them may believe they own the batch.  Jobs are     *)
(* those of JobLife, which JobStore implements; the job of a step's n-th   *)
(* attempt is <<step, n>>, because start_job binds the key                 *)
(* id:sha256(name):n to one job.                                           *)
(*                                                                         *)
(* Wall time and output bytes are reserved alike: one cost stands for both.*)
(***************************************************************************)
EXTENDS Naturals, FiniteSets

CONSTANTS
  Runs,          \* uses of `batch run`; each is its own owner token
  NSteps,        \* steps of the batch, in order
  DependsOn,     \* the steps a step depends on, all before it
  AllowPartial,  \* steps with allow_partial_dependencies
  Cost,          \* budget reserved by an attempt of a step
  MaxJobs,       \* budget.max_jobs
  MaxCost,       \* budget.wall_ms and budget.output_bytes
  Outcomes       \* statuses a result is published with

Steps == 1..NSteps
MaxAttempts == 2
Attempts == 1..MaxAttempts
BatchJobs == Steps \X Attempts

NoRun == "no run"
NoAttempt == 0

Useful == {"completed", "partial"}

ASSUME BatchAssumption ==
  /\ NSteps \in Nat \ {0}
  /\ DependsOn \in [Steps -> SUBSET Steps]
  /\ \A s \in Steps : DependsOn[s] \subseteq 1..(s - 1)
  /\ AllowPartial \subseteq Steps
  /\ Cost \in [Steps -> Nat]
  /\ MaxJobs \in Nat
  /\ MaxCost \in Nat
  /\ NoRun \notin Runs
  /\ Useful \subseteq Outcomes
  /\ Outcomes \cap {"absent", "queued", "running", "pending", "interrupted"} = {}

VARIABLES
  phase,    \* the batch's jobs, as JobLife sees them
  rec,      \* wb_batches.record
  owner,    \* wb_batches.owner
  expired,  \* the owner's deadline has passed
  cancel,   \* wb_batches.cancel
  pc,       \* where a run is
  my,       \* a run's copy of the record
  at,       \* the step a run is at
  retry,    \* the run was asked for retry_failed
  lost      \* lost of the run's heartbeat thread

Life == INSTANCE JobLife WITH Jobs <- BatchJobs

row   == <<rec, owner, expired, cancel>>
local == <<pc, my, at, retry, lost>>
vars  == <<phase, row, local>>

Step == [status   : Outcomes \cup {"pending", "running", "interrupted", "dependency_blocked"},
         attempt  : {NoAttempt} \cup Attempts,
         job      : {NoAttempt} \cup Attempts,
         reserved : BOOLEAN]

Record == [status : {"queued", "running", "cancelled", "waiting_for_job", "budget_exhausted",
                     "interrupted", "completed", "partial"},
           started : 0..MaxJobs,
           cost    : 0..MaxCost,
           step    : [Steps -> Step]]

NewStep == [status |-> "pending", attempt |-> NoAttempt, job |-> NoAttempt, reserved |-> FALSE]

NewRecord == [status |-> "queued", started |-> 0, cost |-> 0,
              step |-> [s \in Steps |-> NewStep]]

(* Where a run can be between its transactions. *)
Working == {"claimed", "head", "inspect", "recover", "reinspect", "plan", "prepare",
            "start", "execute", "claimjob", "backend", "record", "finish"}
PCs == Working \cup {"idle", "failing", "releasing", "done"}

(* batch create *)
Init ==
  /\ phase = [j \in BatchJobs |-> "absent"]
  /\ rec = NewRecord
  /\ owner = NoRun
  /\ expired = FALSE
  /\ cancel = FALSE
  /\ pc = [r \in Runs |-> "idle"]
  /\ my = [r \in Runs |-> NewRecord]
  /\ at = [r \in Runs |-> 1]
  /\ retry = [r \in Runs |-> FALSE]
  /\ lost = [r \in Runs |-> FALSE]

Goto(r, label) == pc' = [pc EXCEPT ![r] = label]

(* The step a run is at, and its job. *)
Here(r) == my[r].step[at[r]]
JobOf(r) == <<at[r], Here(r).job>>

WithStatus(record, status) == [record EXCEPT !.status = status]
WithStep(record, s, step) == [record EXCEPT !.step[s] = step]

(* The run goes on to the next step with the step it was at changed. *)
NextStep(r, step) ==
  /\ my' = [my EXCEPT ![r] = WithStep(@, at[r], step)]
  /\ at' = [at EXCEPT ![r] = @ + 1]
  /\ Goto(r, "head")

(* Mutant: save does not look at the owner. *)
SaveUnguarded(r, record, label) ==
  /\ rec' = record
  /\ owner' = owner
  /\ expired' = FALSE
  /\ Goto(r, label)

(* save: write the copy back and renew the deadline, if the row still      *)
(* names the run; otherwise it throws.                                     *)
Save(r, record, label) ==
  IF owner = r
  THEN /\ rec' = record
       /\ owner' = owner
       /\ expired' = FALSE
       /\ Goto(r, label)
  ELSE /\ UNCHANGED <<rec, owner, expired>>
       /\ Goto(r, "failing")

-----------------------------------------------------------------------------
(* Owning the batch. *)

(* The claim loads the record and takes a free or expired lease. *)
Claim(r, retries, resets) ==
  /\ pc[r] = "idle"
  /\ owner = NoRun \/ expired
  /\ owner' = r
  /\ expired' = FALSE
  /\ cancel' = (cancel /\ ~resets)
  /\ my' = [my EXCEPT ![r] = rec]
  /\ retry' = [retry EXCEPT ![r] = retries]
  /\ Goto(r, "claimed")
  /\ UNCHANGED <<phase, rec, at, lost>>

ClaimRefused(r) ==
  /\ pc[r] = "idle"
  /\ owner # NoRun /\ ~expired
  /\ Goto(r, "done")
  /\ UNCHANGED <<phase, row, my, at, retry, lost>>

SaveRunning(r) ==
  /\ pc[r] = "claimed"
  /\ my' = [my EXCEPT ![r] = WithStatus(@, "running")]
  /\ Save(r, my'[r], "head")
  /\ UNCHANGED <<phase, cancel, at, retry, lost>>

(* The heartbeat thread, from the claim to the join in release. *)
Heartbeat(r) ==
  /\ pc[r] \in Working \cup {"failing"}
  /\ ~lost[r]
  /\ IF owner = r
     THEN expired' = FALSE /\ lost' = lost
     ELSE expired' = expired /\ lost' = [lost EXCEPT ![r] = TRUE]
  /\ UNCHANGED <<phase, rec, owner, cancel, pc, my, at, retry>>

(* Its connection throws (storage or database busy). *)
HeartbeatThrows(r) ==
  /\ pc[r] \in Working
  /\ ~lost[r]
  /\ lost' = [lost EXCEPT ![r] = TRUE]
  /\ UNCHANGED <<phase, row, pc, my, at, retry>>

-----------------------------------------------------------------------------
(* One step of the loop. *)

(* Mutant: partial evidence satisfies every dependency. *)
ReadyPartial(r) == \A d \in DependsOn[at[r]] : my[r].step[d].status \in Useful

(* The dependencies of the step the run is at succeeded, as it knows them. *)
Ready(r) ==
  \A d \in DependsOn[at[r]] :
    my[r].step[d].status \in IF at[r] \in AllowPartial THEN Useful ELSE {"completed"}

(* The head of the loop, the cancellation flag read: stop, skip a step     *)
(* that succeeded, block one whose dependencies did not, or go on.         *)
HeadStops(r) ==
  /\ pc[r] = "head"
  /\ at[r] \in Steps
  /\ \/ /\ lost[r]
        /\ my' = my
        /\ Goto(r, "failing")
     \/ /\ ~lost[r] /\ cancel
        /\ my' = [my EXCEPT ![r] = WithStatus(@, "cancelled")]
        /\ Goto(r, "finish")
  /\ UNCHANGED <<phase, row, at, retry, lost>>

HeadGoes(r) ==
  /\ pc[r] = "head"
  /\ at[r] \in Steps
  /\ ~lost[r] /\ ~cancel

HeadSkips(r) ==
  /\ HeadGoes(r)
  /\ Here(r).status \in Useful
  /\ NextStep(r, Here(r))
  /\ UNCHANGED <<phase, row, retry, lost>>

HeadBlocks(r) ==
  /\ HeadGoes(r)
  /\ Here(r).status \notin Useful
  /\ ~Ready(r)
  /\ NextStep(r, [Here(r) EXCEPT !.status = "dependency_blocked"])
  /\ UNCHANGED <<phase, row, retry, lost>>

HeadEnters(r) ==
  /\ HeadGoes(r)
  /\ Here(r).status \notin Useful
  /\ Ready(r)
  /\ Goto(r, IF Here(r).job = NoAttempt THEN "plan" ELSE "inspect")
  /\ UNCHANGED <<phase, row, my, at, retry, lost>>

HeadEnds(r) ==
  /\ pc[r] = "head"
  /\ at[r] = NSteps + 1
  /\ Goto(r, "finish")
  /\ UNCHANGED <<phase, row, my, at, retry, lost>>

(* With the job as it was last read and the step's status brought up to    *)
(* date: keep the job, give the step up, or forget the job to try again.   *)
Decide(r, step) ==
  LET settled == /\ step.status \notin {"running", "pending"}
                 /\ phase[JobOf(r)] # "queued"
      again == retry[r] /\ step.attempt < MaxAttempts
      next == IF settled /\ again THEN [step EXCEPT !.job = NoAttempt] ELSE step
  IN IF settled /\ ~again
     THEN NextStep(r, step)
     ELSE /\ my' = [my EXCEPT ![r] = WithStep(@, at[r], next)]
          /\ Goto(r, IF settled THEN "plan" ELSE "start")
          /\ UNCHANGED at

(* The first look at the step's job: its result decides at once if it is   *)
(* useful; a running job calls for recovery.                               *)
Inspect(r) ==
  LET now == phase[JobOf(r)]
      adopted == [Here(r) EXCEPT !.status = now]
  IN /\ pc[r] = "inspect"
     /\ \/ now \in Useful /\ NextStep(r, adopted)
        \/ now \in Outcomes \ Useful /\ Decide(r, adopted)
        \/ now \in {"queued", "interrupted"} /\ Decide(r, Here(r))
        \/ now = "running" /\ Goto(r, "recover") /\ UNCHANGED <<my, at>>
     /\ UNCHANGED <<phase, row, retry, lost>>

(* recover_jobs interrupts whichever running jobs have an expired lease.   *)
Recover(r, S) ==
  /\ pc[r] = "recover"
  /\ Life!Interrupt(S)
  /\ Goto(r, "reinspect")
  /\ UNCHANGED <<row, my, at, retry, lost>>

(* Mutant: a job that is still running is retried like an interrupted one. *)
ReinspectSteals(r) ==
  LET now == phase[JobOf(r)]
  IN /\ pc[r] = "reinspect"
     /\ Decide(r, [Here(r) EXCEPT !.status = IF now = "running" THEN "interrupted" ELSE now])
     /\ UNCHANGED <<phase, row, retry, lost>>

(* The second look: a job that is still running ends the run; otherwise    *)
(* whatever status the job has now is the step's.                          *)
Reinspect(r) ==
  LET now == phase[JobOf(r)]
  IN /\ pc[r] = "reinspect"
     /\ \/ /\ now = "running"
           /\ my' = [my EXCEPT ![r] = WithStatus(@, "waiting_for_job")]
           /\ Goto(r, "finish")
           /\ UNCHANGED at
        \/ now # "running" /\ Decide(r, [Here(r) EXCEPT !.status = now])
     /\ UNCHANGED <<phase, row, retry, lost>>

(* Mutant: one job too many fits. *)
FitsOneMore(record, s) == record.started <= MaxJobs /\ record.cost + Cost[s] <= MaxCost + Cost[s]

Fits(record, s) == record.started < MaxJobs /\ record.cost + Cost[s] <= MaxCost

Reserved(record, s) ==
  [record EXCEPT !.started = @ + 1, !.cost = @ + Cost[s], !.step[s].reserved = TRUE]

(* No job: an attempt needs a reservation, saved before the job exists. *)
PlanExhausted(r) ==
  /\ pc[r] = "plan"
  /\ ~Here(r).reserved /\ ~Fits(my[r], at[r])
  /\ my' = [my EXCEPT ![r] = WithStatus(@, "budget_exhausted")]
  /\ Goto(r, "finish")
  /\ UNCHANGED <<phase, row, at, retry, lost>>

(* Mutant: the reservation is only remembered, not saved. *)
PlanUnsaved(r) ==
  /\ pc[r] = "plan"
  /\ ~Here(r).reserved /\ Fits(my[r], at[r])
  /\ my' = [my EXCEPT ![r] = Reserved(@, at[r])]
  /\ Goto(r, "prepare")
  /\ UNCHANGED <<phase, row, at, retry, lost>>

PlanReserves(r) ==
  /\ pc[r] = "plan"
  /\ ~Here(r).reserved /\ Fits(my[r], at[r])
  /\ my' = [my EXCEPT ![r] = Reserved(@, at[r])]
  /\ Save(r, my'[r], "prepare")
  /\ UNCHANGED <<phase, cancel, at, retry, lost>>

(* A reservation that survived an interruption is used, not repeated. *)
PlanReuses(r) ==
  /\ pc[r] = "plan"
  /\ Here(r).reserved
  /\ Goto(r, "prepare")
  /\ UNCHANGED <<phase, row, my, at, retry, lost>>

(* service.prepare under the reserved key: a new job, or the one the key   *)
(* is already bound to.                                                    *)
Prepare(r) ==
  LET n == Here(r).attempt + 1
  IN /\ pc[r] = "prepare"
     /\ IF phase[<<at[r], n>>] = "absent"
        THEN Life!Submit(<<at[r], n>>) ELSE phase' = phase
     /\ my' = [my EXCEPT ![r] =
                 WithStep(@, at[r], [Here(r) EXCEPT !.job = n, !.attempt = n,
                                                    !.reserved = FALSE])]
     /\ Goto(r, "start")
     /\ UNCHANGED <<row, at, retry, lost>>

SaveStarted(r) ==
  /\ pc[r] = "start"
  /\ my' = [my EXCEPT ![r] = WithStep(@, at[r], [Here(r) EXCEPT !.status = "running"])]
  /\ Save(r, my'[r], "execute")
  /\ UNCHANGED <<phase, cancel, at, retry, lost>>

-----------------------------------------------------------------------------
(* service.execute, as JobStore details it. *)

Adopt(r, o) == my' = [my EXCEPT ![r] = WithStep(@, at[r], [Here(r) EXCEPT !.status = o])]

(* A result that is already there is returned. *)
ExecuteReads(r) ==
  /\ pc[r] = "execute"
  /\ IF phase[JobOf(r)] \in Outcomes
     THEN Adopt(r, phase[JobOf(r)]) /\ Goto(r, "record")
     ELSE my' = my /\ Goto(r, "claimjob")
  /\ UNCHANGED <<phase, row, at, retry, lost>>

ExecuteClaims(r) ==
  /\ pc[r] = "claimjob"
  /\ Life!Start(JobOf(r))
  /\ Goto(r, "backend")
  /\ UNCHANGED <<row, my, at, retry, lost>>

(* The job has an owner, or became terminal: claim_job throws. *)
ExecuteRefused(r) ==
  /\ pc[r] = "claimjob"
  /\ phase[JobOf(r)] # "queued"
  /\ Goto(r, "failing")
  /\ UNCHANGED <<phase, row, my, at, retry, lost>>

(* The backend is over and publishes; a job interrupted meanwhile refuses. *)
BackendPublishes(r, o) ==
  /\ pc[r] = "backend"
  /\ phase[JobOf(r)] = "running"
  /\ Life!Publish(JobOf(r), o)
  /\ Adopt(r, o)
  /\ Goto(r, "record")
  /\ UNCHANGED <<row, at, retry, lost>>

(* Mutant: the outcome is recorded although its publication was refused. *)
BackendFencedRecords(r) ==
  /\ pc[r] = "backend"
  /\ phase[JobOf(r)] # "running"
  /\ Adopt(r, "failed")
  /\ Goto(r, "record")
  /\ UNCHANGED <<phase, row, at, retry, lost>>

BackendFenced(r) ==
  /\ pc[r] = "backend"
  /\ phase[JobOf(r)] # "running"
  /\ Goto(r, "failing")
  /\ UNCHANGED <<phase, row, my, at, retry, lost>>

SaveResult(r) ==
  /\ pc[r] = "record"
  /\ at' = [at EXCEPT ![r] = @ + 1]
  /\ Save(r, my[r], "head")
  /\ UNCHANGED <<phase, cancel, my, retry, lost>>

-----------------------------------------------------------------------------
(* Ending a run. *)

FinalStatus(record) ==
  IF record.status # "running" THEN record.status
  ELSE IF \A s \in Steps : record.step[s].status = "completed"
       THEN "completed" ELSE "partial"

SaveFinal(r) ==
  /\ pc[r] = "finish"
  /\ my' = [my EXCEPT ![r] = WithStatus(@, FinalStatus(@))]
  /\ Save(r, my'[r], "releasing")
  /\ UNCHANGED <<phase, cancel, at, retry, lost>>

(* The handler of every exception: save "interrupted" if the row still     *)
(* names the run, then release.                                            *)
SaveInterrupted(r) ==
  /\ pc[r] = "failing"
  /\ rec' = IF owner = r THEN WithStatus(my[r], "interrupted") ELSE rec
  /\ expired' = IF owner = r THEN FALSE ELSE expired
  /\ Goto(r, "releasing")
  /\ UNCHANGED <<phase, owner, cancel, my, at, retry, lost>>

(* Local state of a run that is over is gone. *)
Forget(r) ==
  /\ Goto(r, "done")
  /\ my' = [my EXCEPT ![r] = NewRecord]
  /\ at' = [at EXCEPT ![r] = 1]
  /\ retry' = [retry EXCEPT ![r] = FALSE]
  /\ lost' = [lost EXCEPT ![r] = FALSE]

Release(r) ==
  /\ pc[r] = "releasing"
  /\ owner' = IF owner = r THEN NoRun ELSE owner
  /\ expired' = IF owner = r THEN FALSE ELSE expired
  /\ Forget(r)
  /\ UNCHANGED <<phase, rec, cancel>>

(* Any call of the loop may throw: storage busy, a target that changed, a  *)
(* job lease lost, a result that breaks its contract.                      *)
Throw(r) ==
  /\ pc[r] \in Working
  /\ Goto(r, "failing")
  /\ UNCHANGED <<phase, row, my, at, retry, lost>>

(* The process dies: nothing is written, the lease stays. *)
Crash(r) ==
  /\ pc[r] \in Working \cup {"failing", "releasing"}
  /\ Forget(r)
  /\ UNCHANGED <<phase, row>>

-----------------------------------------------------------------------------
(* Around the runs. *)

Expire ==
  /\ owner # NoRun
  /\ ~expired
  /\ expired' = TRUE
  /\ UNCHANGED <<phase, rec, owner, cancel, local>>

(* batch cancel; the cancel files it also writes only let a backend end    *)
(* with another status.                                                    *)
Cancel ==
  /\ ~cancel
  /\ cancel' = TRUE
  /\ UNCHANGED <<phase, rec, owner, expired, local>>

(* `job recover`, or the recovery of another batch of the project. *)
RecoverElsewhere(S) ==
  /\ S # {}
  /\ Life!Interrupt(S)
  /\ UNCHANGED <<row, local>>

(* What a run does by itself, exceptions and crashes apart. *)
RunStep(r) ==
  \/ SaveRunning(r)
  \/ HeadStops(r) \/ HeadSkips(r) \/ HeadBlocks(r) \/ HeadEnters(r) \/ HeadEnds(r)
  \/ Inspect(r) \/ (\E S \in SUBSET BatchJobs : Recover(r, S)) \/ Reinspect(r)
  \/ PlanExhausted(r) \/ PlanReserves(r) \/ PlanReuses(r)
  \/ Prepare(r) \/ SaveStarted(r)
  \/ ExecuteReads(r) \/ ExecuteClaims(r) \/ ExecuteRefused(r)
  \/ (\E o \in Outcomes : BackendPublishes(r, o)) \/ BackendFenced(r)
  \/ SaveResult(r) \/ SaveFinal(r) \/ SaveInterrupted(r) \/ Release(r)

Next ==
  \/ \E r \in Runs :
       \/ \E retries, resets \in BOOLEAN : Claim(r, retries, resets)
       \/ ClaimRefused(r)
       \/ RunStep(r)
       \/ Heartbeat(r) \/ HeartbeatThrows(r)
       \/ Throw(r) \/ Crash(r)
  \/ Expire \/ Cancel
  \/ \E S \in SUBSET BatchJobs : RecoverElsewhere(S)

Spec == Init /\ [][Next]_vars

(* A run that does not crash keeps going: its calls return and its         *)
(* backends have a wall-time budget.                                       *)
FairSpec == Spec /\ \A r \in Runs : WF_vars(RunStep(r))

-----------------------------------------------------------------------------
(* Properties. *)

TypeOK ==
  /\ phase \in [BatchJobs -> Life!Phases]
  /\ rec \in Record
  /\ owner \in Runs \cup {NoRun}
  /\ expired \in BOOLEAN
  /\ cancel \in BOOLEAN
  /\ pc \in [Runs -> PCs]
  /\ my \in [Runs -> Record]
  /\ at \in [Runs -> 1..(NSteps + 1)]
  /\ retry \in [Runs -> BOOLEAN]
  /\ lost \in [Runs -> BOOLEAN]

Submitted == {j \in BatchJobs : phase[j] # "absent"}

\* What a set of jobs costs, unit by unit.
Charges(S) == UNION {{j} \X (1..Cost[j[1]]) : j \in S}

(* Whatever crashes, stalls or takes over, no more jobs exist, and no more *)
(* is spent on them, than the record has reserved: the budget of the batch *)
(* bounds them.                                                            *)
BudgetCoversJobs ==
  /\ Cardinality(Submitted) <= rec.started
  /\ Cardinality(Charges(Submitted)) <= rec.cost

(* A retry exists only once the earlier attempt is over: an active job is  *)
(* not stolen because its batch owner disappeared.                         *)
RetryAfterSettled ==
  \A s \in Steps : \A n \in Attempts \ {1} :
    phase[<<s, n>>] # "absent" =>
      phase[<<s, n - 1>>] \notin {"absent", "queued", "running"}

(* No job is submitted before a job of each dependency of its step has     *)
(* completed, or is partial where the step accepts that.                   *)
DependenciesFirst ==
  \A j \in Submitted : \A d \in DependsOn[j[1]] : \E n \in Attempts :
    phase[<<d, n>>] \in IF j[1] \in AllowPartial THEN Useful ELSE {"completed"}

(* A status the record gives a step beyond its own bookkeeping is that of  *)
(* one of the step's jobs, and a batch is completed only if a job of every *)
(* step completed.                                                         *)
RecordIsTrue ==
  /\ \A s \in Steps :
       rec.step[s].status \notin {"pending", "running", "dependency_blocked"} =>
         \E n \in 1..rec.step[s].attempt : phase[<<s, n>>] = rec.step[s].status
  /\ rec.status = "completed" =>
       \A s \in Steps : \E n \in Attempts : phase[<<s, n>>] = "completed"

(* A success that reached the record is kept: no later run, and no stale   *)
(* owner, takes it back or submits another job for the step.  (A step      *)
(* whose record reserves another attempt is being repeated: that this can  *)
(* happen to a success is what SuccessNotRepeated finds.)                  *)
RecordedSuccessSticks ==
  [][\A s \in Steps :
       rec.step[s].status \in Useful /\ ~rec.step[s].reserved =>
         /\ rec'.step[s] = rec.step[s]
         /\ \A n \in Attempts : phase[<<s, n>>] = "absent" => phase'[<<s, n>>] = "absent"]_vars

(* Every run that claimed the batch ends: it waits for no job that another *)
(* call, perhaps dead, still holds.                                        *)
RunEnds ==
  \A r \in Runs : pc[r] = "claimed" ~> pc[r] = "done"

(* What docs/knowledge-workbench.md says of completed and partial steps:   *)
(* they are not repeated, retry_failed or not.                             *)
SuccessNotRepeated ==
  \A s \in Steps : \A n \in Attempts \ {1} :
    phase[<<s, n>>] # "absent" => phase[<<s, n - 1>>] \notin Useful

(* What it says of interrupted steps: retry_failed retries them while an   *)
(* attempt is left.                                                        *)
InterruptedIsRetried ==
  [][\A r \in Runs :
       /\ pc[r] = "inspect" /\ pc'[r] \in {"start", "plan", "head"}
       /\ retry[r] /\ Here(r).attempt < MaxAttempts
       /\ phase[JobOf(r)] = "interrupted"
       => pc'[r] = "plan"]_vars
=============================================================================
