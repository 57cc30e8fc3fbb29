--------------------------- MODULE BatchRunProofs ---------------------------
(***************************************************************************)
(* What a batch's record promises, for any runs, steps, budget and         *)
(* dependencies.                                                           *)
(*                                                                         *)
(* The invariant says of every copy of the record, stale ones included,    *)
(* that its history is true of the jobs; of the stored record, that its    *)
(* reservations cover every job that exists; and of a run's copy, that it  *)
(* allows no job the stored record does not, and is that record's equal    *)
(* while the run owns the batch.  Statuses that are over never change, so  *)
(* what a stale copy says stays true.                                      *)
(***************************************************************************)
EXTENDS BatchRun, FiniteSetTheorems, TLAPS

Over(status) == status \notin {"absent", "queued", "running"}

\* What a copy of the record says of a step, with the jobs as ph has them.
StepTrue(ph, s, step) ==
  /\ step.job \in {NoAttempt, step.attempt}
  /\ step.job = NoAttempt => step.attempt < MaxAttempts
  /\ step.reserved => step.job = NoAttempt
  /\ \A n \in 1..step.attempt :
       /\ ph[<<s, n>>] # "absent"
       /\ n < step.attempt \/ step.job = NoAttempt => Over(ph[<<s, n>>])
  /\ step.status \notin {"pending", "running", "dependency_blocked"} =>
       \E n \in 1..step.attempt : ph[<<s, n>>] = step.status

RecordTrue(ph, record) ==
  /\ \A s \in Steps : StepTrue(ph, s, record.step[s])
  /\ record.status = "completed" =>
       \A s \in Steps : \E n \in Attempts : ph[<<s, n>>] = "completed"

\* The jobs a record has reserved, submitted or not.
Allowance(step) == IF step.reserved THEN step.attempt + 1 ELSE step.attempt
Allowed(record) == {j \in BatchJobs : j[2] <= Allowance(record.step[j[1]])}

\* The dependencies of a step have the jobs they need.
Supplied(ph, s) ==
  \A d \in DependsOn[s] : \E n \in Attempts :
    ph[<<d, n>>] \in IF s \in AllowPartial THEN Useful ELSE {"completed"}

\* A success the record keeps.
Won(step) == step.status \in Useful /\ ~step.reserved

WithJob == {"inspect", "recover", "reinspect", "start", "execute", "claimjob", "backend", "record"}
WithoutJob == {"plan", "prepare"}

\* Where a run is.
Place(r) ==
  /\ pc[r] \in WithJob => at[r] \in Steps /\ Here(r).job # NoAttempt
  /\ pc[r] \in WithoutJob => at[r] \in Steps /\ Here(r).job = NoAttempt
  /\ pc[r] = "prepare" => Here(r).reserved
  /\ pc[r] \in {"recover", "reinspect"} => phase[JobOf(r)] \notin {"absent", "queued"}
  /\ pc[r] \in {"inspect", "recover", "reinspect", "plan", "prepare"} => Supplied(phase, at[r])

\* A run's copy beside the stored record.
Copy(r) ==
  /\ pc[r] \in Working => Allowed(my[r]) \subseteq Allowed(rec)
  /\ owner = r /\ pc[r] \in Working \cup {"failing"} =>
       /\ Allowed(my[r]) = Allowed(rec)
       /\ my[r].started = rec.started /\ my[r].cost = rec.cost
       /\ \A s \in Steps : Won(rec.step[s]) =>
            /\ my[r].step[s] = rec.step[s]
            /\ pc[r] \in WithJob \cup WithoutJob => s # at[r]

RunInv(r) == RecordTrue(phase, my[r]) /\ Place(r) /\ Copy(r)

StoredInv ==
  /\ RecordTrue(phase, rec)
  /\ Submitted \subseteq Allowed(rec)
  /\ Cardinality(Allowed(rec)) <= rec.started
  /\ Cardinality(Charges(Allowed(rec))) <= rec.cost

JobsInv == RetryAfterSettled /\ DependenciesFirst

BInv == TypeOK /\ StoredInv /\ JobsInv /\ \A r \in Runs : RunInv(r)

-----------------------------------------------------------------------------
(* The jobs. *)

\* What any step may do to the jobs: what is over stays as it is.
Later(ph, ph2) ==
  \A j \in BatchJobs :
    /\ ph[j] # "absent" => ph2[j] # "absent"
    /\ Over(ph[j]) => ph2[j] = ph[j]
    /\ ph[j] \notin {"absent", "queued"} => ph2[j] \notin {"absent", "queued"}

LEMMA JobsMoveOn ==
  ASSUME TypeOK,
         \/ phase' = phase
         \/ \E j \in BatchJobs : Life!Submit(j) \/ Life!Start(j) \/ \E o \in Outcomes : Life!Publish(j, o)
         \/ \E S \in SUBSET BatchJobs : Life!Interrupt(S)
  PROVE  /\ phase' \in [BatchJobs -> Life!Phases]
         /\ Later(phase, phase')
BY BatchAssumption DEF TypeOK, Later, Over, Life!Phases, Life!Submit, Life!Start, Life!Publish,
   Life!Interrupt, Useful

LEMMA RecordTrueLater ==
  ASSUME NEW ph, NEW ph2, Later(ph, ph2), NEW record \in Record, RecordTrue(ph, record)
  PROVE  RecordTrue(ph2, record)
<1>1. ASSUME NEW s \in Steps PROVE StepTrue(ph2, s, record.step[s])
  <2>1. StepTrue(ph, s, record.step[s]) /\ record.step[s] \in Step
    BY DEF RecordTrue, Record
  <2>2. \A n \in 1..record.step[s].attempt : <<s, n>> \in BatchJobs
    BY <2>1 DEF Step, BatchJobs, Attempts, MaxAttempts, NoAttempt
  <2> QED BY <2>1, <2>2, BatchAssumption DEF StepTrue, Later, Over, Step, Useful
<1>2. \A s \in Steps, n \in Attempts : ph[<<s, n>>] = "completed" => ph2[<<s, n>>] = "completed"
  BY DEF Later, Over, BatchJobs
<1> QED BY <1>1, <1>2 DEF RecordTrue

LEMMA SuppliedLater ==
  ASSUME NEW ph, NEW ph2, Later(ph, ph2), NEW s \in Steps, Supplied(ph, s)
  PROVE  Supplied(ph2, s)
<1>1. DependsOn[s] \subseteq Steps
  BY BatchAssumption
<1> QED BY <1>1 DEF Supplied, Later, Over, BatchJobs, Useful

-----------------------------------------------------------------------------
(* Copies of the record. *)

LEMMA WithStatusIs ==
  ASSUME NEW record \in Record, NEW status \in {"queued", "running", "cancelled", "waiting_for_job",
                         "budget_exhausted", "interrupted", "completed", "partial"}
  PROVE  /\ WithStatus(record, status) \in Record
         /\ WithStatus(record, status).status = status
         /\ WithStatus(record, status).step = record.step
         /\ WithStatus(record, status).started = record.started
         /\ WithStatus(record, status).cost = record.cost
         /\ Allowed(WithStatus(record, status)) = Allowed(record)
BY DEF WithStatus, Record, Allowed

LEMMA WithStepIs ==
  ASSUME NEW record \in Record, NEW s \in Steps, NEW step \in Step
  PROVE  /\ WithStep(record, s, step) \in Record
         /\ WithStep(record, s, step).status = record.status
         /\ WithStep(record, s, step).step[s] = step
         /\ \A t \in Steps \ {s} : WithStep(record, s, step).step[t] = record.step[t]
         /\ WithStep(record, s, step).started = record.started
         /\ WithStep(record, s, step).cost = record.cost
         /\ Allowance(step) = Allowance(record.step[s]) => Allowed(WithStep(record, s, step)) = Allowed(record)
<1>1. /\ WithStep(record, s, step) \in Record
      /\ WithStep(record, s, step).status = record.status
      /\ WithStep(record, s, step).step = [record.step EXCEPT ![s] = step]
      /\ WithStep(record, s, step).started = record.started
      /\ WithStep(record, s, step).cost = record.cost
  BY DEF WithStep, Record
<1>2. /\ WithStep(record, s, step).step[s] = step
      /\ \A t \in Steps \ {s} : WithStep(record, s, step).step[t] = record.step[t]
  BY <1>1 DEF Record
<1>3. ASSUME Allowance(step) = Allowance(record.step[s])
      PROVE  Allowed(WithStep(record, s, step)) = Allowed(record)
  <2>1. \A j \in BatchJobs : Allowance(WithStep(record, s, step).step[j[1]]) = Allowance(record.step[j[1]])
    BY <1>2, <1>3 DEF BatchJobs
  <2> QED BY <2>1, Zenon DEF Allowed
<1> QED BY <1>1, <1>2, <1>3

LEMMA RecordTrueWithStep ==
  ASSUME NEW ph, NEW record \in Record, RecordTrue(ph, record), NEW s \in Steps, NEW step \in Step,
         StepTrue(ph, s, step)
  PROVE  RecordTrue(ph, WithStep(record, s, step))
BY WithStepIs DEF RecordTrue

LEMMA RecordTrueWithStatus ==
  ASSUME NEW ph, NEW record \in Record, RecordTrue(ph, record),
         NEW status \in {"queued", "running", "cancelled", "waiting_for_job",
                         "budget_exhausted", "interrupted", "completed", "partial"},
         status = "completed" => \A s \in Steps : \E n \in Attempts : ph[<<s, n>>] = "completed"
  PROVE  RecordTrue(ph, WithStatus(record, status))
BY WithStatusIs DEF RecordTrue

-----------------------------------------------------------------------------
(* Steps.  A step of one run leaves the others' invariants alone, whoever  *)
(* owns the batch: only the owner writes the record, and it writes no      *)
(* smaller allowance.                                                      *)

LEMMA OthersStay ==
  ASSUME TypeOK, NEW q \in Runs, RunInv(q), Later(phase, phase'),
         my'[q] = my[q], at'[q] = at[q], pc'[q] = pc[q],
         Allowed(rec) \subseteq Allowed(rec'),
         owner' = q => owner = q /\ rec' = rec
  PROVE  RunInv(q)'
<1> USE DEF RunInv
<1>1. RecordTrue(phase', my'[q])
  BY RecordTrueLater DEF TypeOK
<1>2. Here(q)' = Here(q) /\ JobOf(q)' = JobOf(q)
  BY DEF Here, JobOf
<1>3. Place(q)'
  <2>1. pc[q] \in WithJob => JobOf(q) \in BatchJobs
    BY DEF Place, JobOf, Here, BatchJobs, TypeOK, Record, Step, Attempts, NoAttempt
  <2> QED BY <1>2, <2>1, SuppliedLater DEF Place, Later, WithJob, WithoutJob
<1>4. Copy(q)'
  <2>1. Allowed(my[q])' = Allowed(my[q])
    BY DEF Allowed
  <2>2. owner' = q => Allowed(rec)' = Allowed(rec)
    BY DEF Allowed
  <2>3. Allowed(rec)' = Allowed(rec')
    BY DEF Allowed
  <2> QED BY <2>1, <2>2, <2>3 DEF Copy
<1> QED BY <1>1, <1>3, <1>4

\* The stored record and the jobs while no job is added.
LEMMA StoredStays ==
  ASSUME TypeOK, StoredInv, Later(phase, phase'), phase' \in [BatchJobs -> Life!Phases],
         rec' = rec, Submitted' \subseteq Allowed(rec)
  PROVE  StoredInv'
BY RecordTrueLater DEF StoredInv, TypeOK, Allowed, Charges

LEMMA JobsStay ==
  ASSUME TypeOK, JobsInv, Later(phase, phase'), Submitted' = Submitted
  PROVE  JobsInv'
<1>1. RetryAfterSettled'
  <2> SUFFICES ASSUME NEW s \in Steps, NEW n \in Attempts \ {1}, phase'[<<s, n>>] # "absent"
               PROVE  phase'[<<s, n - 1>>] \notin {"absent", "queued", "running"}
    BY DEF RetryAfterSettled
  <2>1. <<s, n>> \in BatchJobs /\ <<s, n - 1>> \in BatchJobs
    BY DEF BatchJobs, Attempts, MaxAttempts
  <2>2. phase[<<s, n>>] # "absent"
    BY <2>1 DEF Submitted
  <2> QED BY <2>1, <2>2 DEF JobsInv, RetryAfterSettled, Later, Over
<1>2. DependenciesFirst'
  <2> SUFFICES ASSUME NEW j \in Submitted PROVE Supplied(phase', j[1])
    BY DEF DependenciesFirst, Supplied
  <2>1. j[1] \in Steps
    BY DEF Submitted, BatchJobs
  <2>2. Supplied(phase, j[1])
    BY DEF JobsInv, DependenciesFirst, Supplied
  <2> QED BY <2>1, <2>2, SuppliedLater
<1> QED BY <1>1, <1>2 DEF JobsInv

\* A job that is submitted already adds nothing when it moves on.
LEMMA NoneAdded ==
  ASSUME TypeOK, Later(phase, phase'),
         \/ phase' = phase
         \/ \E j \in BatchJobs : Life!Start(j) \/ \E o \in Outcomes : phase[j] = "running" /\ Life!Publish(j, o)
         \/ \E S \in SUBSET BatchJobs : Life!Interrupt(S)
  PROVE  Submitted' = Submitted
BY BatchAssumption DEF Submitted, TypeOK, Life!Start, Life!Publish, Life!Interrupt

\* One run steps.
LEMMA RunSteps ==
  ASSUME BInv, TypeOK', NEW r \in Runs, Later(phase, phase'),
         \A q \in Runs \ {r} : my'[q] = my[q] /\ at'[q] = at[q] /\ pc'[q] = pc[q],
         \A q \in Runs \ {r} : owner' = q => owner = q /\ rec' = rec,
         Allowed(rec) \subseteq Allowed(rec'),
         StoredInv', JobsInv', RunInv(r)'
  PROVE  BInv'
BY OthersStay DEF BInv

\* It touches neither the jobs nor the row.
LEMMA LocalStep ==
  ASSUME BInv, TypeOK', NEW r \in Runs, UNCHANGED <<phase, rec, owner>>,
         \A q \in Runs \ {r} : my'[q] = my[q] /\ at'[q] = at[q] /\ pc'[q] = pc[q],
         RunInv(r)'
  PROVE  BInv'
<1>1. Later(phase, phase')
  BY DEF Later
<1>2. Submitted' = Submitted
  BY DEF Submitted
<1>3. StoredInv' /\ JobsInv'
  BY <1>1, <1>2, StoredStays, JobsStay DEF BInv, TypeOK, StoredInv
<1> QED BY <1>1, <1>3, RunSteps

\* What its copy may become while it does.
LEMMA CopyStays ==
  ASSUME NEW r \in Runs, Copy(r), pc[r] \in Working, UNCHANGED <<rec, owner>>,
         Allowed(my'[r]) = Allowed(my[r]),
         my'[r].started = my[r].started, my'[r].cost = my[r].cost,
         \A s \in Steps : \/ my'[r].step[s] = my[r].step[s]
                          \/ owner = r => ~Won(rec.step[s]),
         pc'[r] \in WithJob \cup WithoutJob =>
           /\ at'[r] = at[r]
           /\ owner = r => ~Won(rec.step[at[r]])
  PROVE  Copy(r)'
<1>1. Allowed(my[r])' = Allowed(my'[r]) /\ Allowed(rec)' = Allowed(rec)
  BY DEF Allowed
<1> QED BY <1>1 DEF Copy

\* At a step the owner works on, the stored record has no success to keep.
LEMMA NoneWonHere ==
  ASSUME NEW r \in Runs, Copy(r), pc[r] \in WithJob \cup WithoutJob, at[r] \in Steps, owner = r
  PROVE  ~Won(rec.step[at[r]])
BY DEF Copy, WithJob, WithoutJob, Working

\* A run of which only pc changes, without entering a step.
LEMMA OnlyMoves ==
  ASSUME BInv, NEW r \in Runs, UNCHANGED <<phase, rec, owner, my, at>>, TypeOK',
         pc[r] \in Working \/ pc'[r] \notin Working \cup {"failing"},
         \A q \in Runs \ {r} : pc'[q] = pc[q],
         pc'[r] \in (PCs \ (WithJob \cup WithoutJob))
  PROVE  BInv'
<1>1. RecordTrue(phase, my[r])' /\ Place(r)'
  BY DEF BInv, RunInv, Place, WithJob, WithoutJob, RecordTrue, StepTrue, Over
<1>2. Copy(r)'
  <2>1. CASE pc[r] \in Working
    BY <2>1, CopyStays DEF BInv, RunInv
  <2>2. CASE pc'[r] \notin Working \cup {"failing"}
    BY <2>2 DEF Copy
  <2> QED BY <2>1, <2>2
<1> QED BY <1>1, <1>2, LocalStep DEF RunInv

\* A run whose copy gets another status, without entering a step.
LEMMA StatusMoves ==
  ASSUME BInv, NEW r \in Runs, UNCHANGED <<phase, rec, owner, at>>, TypeOK',
         pc[r] \in Working, pc'[r] = "finish",
         \A q \in Runs \ {r} : pc'[q] = pc[q] /\ my'[q] = my[q],
         NEW status \in {"running", "cancelled", "waiting_for_job", "budget_exhausted"},
         my'[r] = WithStatus(my[r], status)
  PROVE  BInv'
<1>1. my[r] \in Record /\ RecordTrue(phase, my[r])
  BY DEF BInv, RunInv, TypeOK
<1>2. RecordTrue(phase, my'[r])
  BY <1>1, RecordTrueWithStatus
<1>3. Copy(r)'
  BY <1>1, WithStatusIs, CopyStays DEF BInv, RunInv, WithJob, WithoutJob
<1>4. Place(r)'
  BY DEF Place, WithJob, WithoutJob
<1> QED BY <1>2, <1>3, <1>4, LocalStep DEF RunInv

\* The run's copy of the step it is at.
LEMMA HereIs ==
  ASSUME BInv, NEW r \in Runs, at[r] \in Steps
  PROVE  /\ my[r] \in Record /\ Here(r) \in Step /\ RecordTrue(phase, my[r])
         /\ StepTrue(phase, at[r], Here(r))
         /\ Here(r).job # NoAttempt => JobOf(r) \in BatchJobs /\ phase[JobOf(r)] # "absent"
<1>1. my[r] \in Record /\ RecordTrue(phase, my[r]) /\ Here(r) \in Step
  BY DEF BInv, RunInv, TypeOK, Here, Record
<1>2. StepTrue(phase, at[r], Here(r))
  BY <1>1 DEF RecordTrue, Here
<1>3. ASSUME Here(r).job # NoAttempt PROVE JobOf(r) \in BatchJobs /\ phase[JobOf(r)] # "absent"
  BY <1>1, <1>2, <1>3 DEF StepTrue, JobOf, BatchJobs, Step, Attempts, MaxAttempts, NoAttempt
<1> QED BY <1>1, <1>2, <1>3

LEMMA NextAt ==
  ASSUME TypeOK, NEW r \in Runs, at[r] \in Steps
  PROVE  [at EXCEPT ![r] = @ + 1] \in [Runs -> 1..(NSteps + 1)]
<1> DEFINE n == at[r] + 1
<1>1. n \in 1..(NSteps + 1)
  BY BatchAssumption DEF Steps
<1> HIDE DEF n
<1>2. [at EXCEPT ![r] = n] \in [Runs -> 1..(NSteps + 1)]
  BY <1>1 DEF TypeOK
<1> QED BY <1>2 DEF n

\* A run whose copy of the step it is at becomes step, and that may go on.
LEMMA StepMoves ==
  ASSUME BInv, NEW r \in Runs, UNCHANGED <<phase, row, retry, lost>>, pc[r] \in Working, at[r] \in Steps,
         NEW step \in Step, StepTrue(phase, at[r], step), Allowance(step) = Allowance(Here(r)),
         step = Here(r) \/ (owner = r => ~Won(rec.step[at[r]])),
         my' = [my EXCEPT ![r] = WithStep(@, at[r], step)],
         NEW label \in PCs, Goto(r, label),
         \/ label \notin WithJob \cup WithoutJob /\ at' = [at EXCEPT ![r] = @ + 1]
         \/ /\ at' = at /\ (owner = r => ~Won(rec.step[at[r]]))
            /\ \/ label \in WithoutJob /\ step.job = NoAttempt /\ Supplied(phase, at[r])
               \/ label = "start" /\ step.job # NoAttempt
               \/ label = "record" /\ step.job # NoAttempt
            /\ label # "prepare"
  PROVE  BInv'
<1> DEFINE M == WithStep(my[r], at[r], step)
<1>1. my[r] \in Record /\ RecordTrue(phase, my[r])
  BY HereIs
<1>2. /\ M \in Record /\ M.step[at[r]] = step
      /\ \A t \in Steps \ {at[r]} : M.step[t] = my[r].step[t]
      /\ M.started = my[r].started /\ M.cost = my[r].cost /\ Allowed(M) = Allowed(my[r])
  BY <1>1, WithStepIs DEF Here
<1>3. RecordTrue(phase, M)
  BY <1>1, RecordTrueWithStep
<1> HIDE DEF M
<1>4. my' = [my EXCEPT ![r] = M]
  BY DEF M
<1>5. TypeOK'
  <2>1. at' \in [Runs -> 1..(NSteps + 1)]
    BY NextAt DEF BInv, TypeOK
  <2>2. my' \in [Runs -> Record] /\ pc' \in [Runs -> PCs]
    BY <1>2, <1>4 DEF BInv, TypeOK, Goto
  <2> QED BY <2>1, <2>2 DEF BInv, TypeOK, row
<1>6. /\ my'[r] = M /\ pc'[r] = label
      /\ \A q \in Runs \ {r} : my'[q] = my[q] /\ at'[q] = at[q] /\ pc'[q] = pc[q]
  BY <1>4 DEF Goto, BInv, TypeOK
<1>7. Copy(r)'
  <2>1. \A s \in Steps : M.step[s] = my[r].step[s] \/ (owner = r => ~Won(rec.step[s]))
    BY <1>2 DEF Here
  <2> QED BY <1>2, <1>6, <2>1, CopyStays DEF BInv, RunInv, row
<1>8. Place(r)'
  <2>1. label \in WithJob \cup WithoutJob => at'[r] = at[r] /\ Here(r)' = step
    BY <1>2, <1>6 DEF Here
  <2> QED BY <1>6, <2>1 DEF Place, WithJob, WithoutJob
<1> QED BY <1>3, <1>5, <1>6, <1>7, <1>8, LocalStep DEF RunInv, row

-----------------------------------------------------------------------------
(* The head of the loop, and what ends a run.                              *)

LEMMA MovesKeep ==
  ASSUME BInv, NEW r \in Runs,
         Throw(r) \/ ClaimRefused(r) \/ HeadEnds(r) \/ ExecuteRefused(r) \/ BackendFenced(r)
  PROVE  BInv'
<1>1. UNCHANGED <<phase, row, my, at, retry, lost>>
  BY DEF Throw, ClaimRefused, HeadEnds, ExecuteRefused, BackendFenced
<1>2. PICK label \in {"failing", "done", "finish"} :
        Goto(r, label) /\ (pc[r] \in Working \/ label = "done")
  BY DEF Throw, ClaimRefused, HeadEnds, ExecuteRefused, BackendFenced, Working
<1>3. label \in PCs \ (WithJob \cup WithoutJob)
  BY <1>2 DEF PCs, Working, WithJob, WithoutJob
<1>4. TypeOK'
  BY <1>1, <1>2, <1>3 DEF BInv, TypeOK, Goto, row
<1>5. pc'[r] = label /\ \A q \in Runs \ {r} : pc'[q] = pc[q]
  BY <1>2 DEF Goto, BInv, TypeOK
<1> QED BY <1>1, <1>2, <1>3, <1>4, <1>5, OnlyMoves DEF row, Working

LEMMA StatusKeeps ==
  ASSUME BInv, NEW r \in Runs, UNCHANGED <<phase, row, at, retry, lost>>, pc[r] \in Working,
         Goto(r, "finish"),
         NEW status \in {"running", "cancelled", "waiting_for_job", "budget_exhausted"},
         my' = [my EXCEPT ![r] = WithStatus(@, status)]
  PROVE  BInv'
<1>1. WithStatus(my[r], status) \in Record
  BY WithStatusIs DEF BInv, TypeOK
<1>2. TypeOK'
  BY <1>1 DEF BInv, TypeOK, Goto, row, PCs, Working
<1>3. /\ pc'[r] = "finish" /\ my'[r] = WithStatus(my[r], status)
      /\ \A q \in Runs \ {r} : pc'[q] = pc[q] /\ my'[q] = my[q]
  BY DEF Goto, BInv, TypeOK
<1> QED BY <1>2, <1>3, StatusMoves DEF row

LEMMA HeadStopsKeeps ==
  ASSUME BInv, NEW r \in Runs, HeadStops(r)
  PROVE  BInv'
<1>1. CASE pc' = [pc EXCEPT ![r] = "failing"] /\ my' = my
  <2>1. Throw(r)
    BY <1>1 DEF HeadStops, Throw, Goto, Working
  <2> QED BY <2>1, MovesKeep
<1>2. CASE my' = [my EXCEPT ![r] = WithStatus(@, "cancelled")] /\ Goto(r, "finish")
  BY <1>2, StatusKeeps DEF HeadStops, Working
<1> QED BY <1>1, <1>2 DEF HeadStops, Goto

\* What the owner knows of its step is what is stored, if that is a success.
LEMMA UsefulHere ==
  ASSUME BInv, NEW r \in Runs, at[r] \in Steps, pc[r] \in Working, Here(r).status \notin Useful
  PROVE  owner = r => ~Won(rec.step[at[r]])
BY DEF BInv, RunInv, Copy, Here, Won

LEMMA HeadSkipsKeeps ==
  ASSUME BInv, NEW r \in Runs, HeadSkips(r)
  PROVE  BInv'
<1>1. at[r] \in Steps /\ pc[r] = "head"
  BY DEF HeadSkips, HeadGoes
<1>2. Here(r) \in Step /\ StepTrue(phase, at[r], Here(r))
  BY <1>1, HereIs
<1> QED BY <1>1, <1>2, StepMoves DEF HeadSkips, NextStep, Working, PCs, WithJob, WithoutJob

LEMMA HeadBlocksKeeps ==
  ASSUME BInv, NEW r \in Runs, HeadBlocks(r)
  PROVE  BInv'
<1> DEFINE step == [Here(r) EXCEPT !.status = "dependency_blocked"]
<1>1. at[r] \in Steps /\ pc[r] = "head" /\ Here(r).status \notin Useful
  BY DEF HeadBlocks, HeadGoes
<1>2. Here(r) \in Step /\ StepTrue(phase, at[r], Here(r))
  BY <1>1, HereIs
<1>3. step \in Step /\ StepTrue(phase, at[r], step) /\ Allowance(step) = Allowance(Here(r))
  BY <1>2 DEF Step, StepTrue, Allowance
<1>4. NextStep(r, step) /\ UNCHANGED <<phase, row, retry, lost>>
  BY DEF HeadBlocks
<1>5. owner = r => ~Won(rec.step[at[r]])
  BY <1>1, UsefulHere DEF Working
<1> HIDE DEF step
<1> QED BY <1>1, <1>3, <1>4, <1>5, StepMoves DEF NextStep, Working, PCs, WithJob, WithoutJob

\* A run whose dependencies are ready has them supplied.
LEMMA ReadySupplies ==
  ASSUME BInv, NEW r \in Runs, at[r] \in Steps, Ready(r)
  PROVE  Supplied(phase, at[r])
<1> SUFFICES ASSUME NEW d \in DependsOn[at[r]]
             PROVE  \E n \in Attempts : phase[<<d, n>>] \in IF at[r] \in AllowPartial THEN Useful ELSE {"completed"}
  BY DEF Supplied
<1>1. d \in Steps
  BY BatchAssumption
<1>2. my[r].step[d].status \in IF at[r] \in AllowPartial THEN Useful ELSE {"completed"}
  BY DEF Ready
<1>3. StepTrue(phase, d, my[r].step[d]) /\ my[r].step[d] \in Step
  BY <1>1 DEF BInv, RunInv, RecordTrue, TypeOK, Record
<1>4. PICK n \in 1..my[r].step[d].attempt : phase[<<d, n>>] = my[r].step[d].status
  BY <1>2, <1>3 DEF StepTrue, Useful
<1>5. n \in Attempts
  BY <1>3, <1>4 DEF Step, Attempts, MaxAttempts, NoAttempt
<1> QED BY <1>2, <1>4, <1>5

LEMMA HeadEntersKeeps ==
  ASSUME BInv, NEW r \in Runs, HeadEnters(r)
  PROVE  BInv'
<1>1. /\ at[r] \in Steps /\ pc[r] = "head" /\ Here(r).status \notin Useful /\ Ready(r)
      /\ UNCHANGED <<phase, row, my, at, retry, lost>>
  BY DEF HeadEnters, HeadGoes
<1>2. PICK label \in {"plan", "inspect"} :
        Goto(r, label) /\ (label = "plan" <=> Here(r).job = NoAttempt)
  BY DEF HeadEnters
<1>3. pc'[r] = label /\ \A q \in Runs \ {r} : pc'[q] = pc[q]
  BY <1>2 DEF Goto, BInv, TypeOK
<1>4. TypeOK'
  BY <1>1, <1>2 DEF BInv, TypeOK, Goto, row, PCs, Working
<1>5. Place(r)'
  BY <1>1, <1>2, <1>3, ReadySupplies DEF Place, Here, WithJob, WithoutJob
<1>6. owner = r => ~Won(rec.step[at[r]])
  BY <1>1, UsefulHere DEF Working
<1>7. Copy(r)'
  BY <1>1, <1>6, CopyStays DEF BInv, RunInv, Working, row
<1>8. RecordTrue(phase, my[r])'
  BY <1>1 DEF BInv, RunInv, RecordTrue, StepTrue, Over
<1> QED BY <1>1, <1>3, <1>4, <1>5, <1>7, <1>8, LocalStep DEF RunInv, row

-----------------------------------------------------------------------------
(* The job of a step is looked at, and a decision made.                    *)

\* Another status for the step a run is at.
LEMMA Adopted ==
  ASSUME BInv, NEW r \in Runs, at[r] \in Steps, Here(r).job # NoAttempt, NEW status,
         status \in Outcomes \cup {"interrupted"}, NEW ph, Later(phase, ph), ph[JobOf(r)] = status
  PROVE  /\ [Here(r) EXCEPT !.status = status] \in Step
         /\ StepTrue(ph, at[r], [Here(r) EXCEPT !.status = status])
<1> DEFINE step == [Here(r) EXCEPT !.status = status]
<1>1. my[r] \in Record /\ Here(r) \in Step /\ RecordTrue(ph, my[r])
  BY HereIs, RecordTrueLater
<1>2. StepTrue(ph, at[r], Here(r))
  BY <1>1 DEF RecordTrue, Here
<1>3. /\ step \in Step /\ step.status = status /\ step.attempt = Here(r).attempt
      /\ step.job = Here(r).job /\ step.reserved = Here(r).reserved
  BY <1>1 DEF Step
<1>4. Here(r).job = Here(r).attempt /\ Here(r).attempt \in 1..Here(r).attempt
  BY <1>1, <1>2 DEF StepTrue, Step, Attempts, NoAttempt
<1> HIDE DEF step
<1>5. StepTrue(ph, at[r], step)
  BY <1>2, <1>3, <1>4 DEF StepTrue, JobOf
<1> QED BY <1>3, <1>5 DEF step

LEMMA DecideKeeps ==
  ASSUME BInv, NEW r \in Runs, UNCHANGED <<phase, row, retry, lost>>, pc[r] \in {"inspect", "reinspect"},
         phase[JobOf(r)] \notin {"absent", "running"},
         NEW step \in Step, StepTrue(phase, at[r], step), step.job = Here(r).job,
         step.attempt = Here(r).attempt, step.reserved = Here(r).reserved, Decide(r, step)
  PROVE  BInv'
<1>1. /\ at[r] \in Steps /\ Here(r).job # NoAttempt /\ Supplied(phase, at[r])
      /\ owner = r => ~Won(rec.step[at[r]])
  BY NoneWonHere DEF BInv, RunInv, Place, WithJob
<1>2. Allowance(step) = Allowance(Here(r))
  BY DEF Allowance
<1>3. CASE NextStep(r, step)
  BY <1>1, <1>2, <1>3, StepMoves DEF NextStep, Working, PCs, WithJob, WithoutJob
<1>4. CASE /\ my' = [my EXCEPT ![r] = WithStep(@, at[r], [step EXCEPT !.job = NoAttempt])]
           /\ Goto(r, "plan") /\ UNCHANGED at /\ step.attempt < MaxAttempts /\ phase[JobOf(r)] # "queued"
  <2> DEFINE next == [step EXCEPT !.job = NoAttempt]
  <2>1. Over(phase[JobOf(r)])
    BY <1>4 DEF Over
  <2>2. next \in Step /\ next.job = NoAttempt /\ Allowance(next) = Allowance(step)
    BY DEF Step, Allowance
  <2>3. /\ next.attempt = step.attempt /\ next.reserved = step.reserved /\ next.status = step.status
        /\ step.job = step.attempt
    BY <1>1 DEF Step, StepTrue
  <2>4. StepTrue(phase, at[r], next)
    BY <1>1, <1>4, <2>1, <2>2, <2>3 DEF StepTrue, JobOf, Step, Attempts, NoAttempt
  <2> HIDE DEF next
  <2>5. my' = [my EXCEPT ![r] = WithStep(@, at[r], next)]
    BY <1>4 DEF next
  <2> QED BY <1>1, <1>2, <1>4, <2>2, <2>4, <2>5, StepMoves DEF Working, PCs, WithJob, WithoutJob
<1>5. CASE /\ my' = [my EXCEPT ![r] = WithStep(@, at[r], step)]
           /\ Goto(r, "start") /\ UNCHANGED at
  BY <1>1, <1>2, <1>5, StepMoves DEF Working, PCs, WithJob, WithoutJob
<1> QED BY <1>3, <1>4, <1>5 DEF Decide

LEMMA InspectKeeps ==
  ASSUME BInv, NEW r \in Runs, Inspect(r)
  PROVE  BInv'
<1> DEFINE now == phase[JobOf(r)]
           step == [Here(r) EXCEPT !.status = now]
<1>1. /\ at[r] \in Steps /\ Here(r).job # NoAttempt /\ pc[r] = "inspect"
      /\ UNCHANGED <<phase, row, retry, lost>>
      /\ owner = r => ~Won(rec.step[at[r]])
  BY NoneWonHere DEF Inspect, BInv, RunInv, Place, WithJob
<1>2. Here(r) \in Step /\ StepTrue(phase, at[r], Here(r))
  BY <1>1, HereIs
<1>3. Later(phase, phase)
  BY DEF Later
<1>4. now \in Outcomes => /\ step \in Step /\ StepTrue(phase, at[r], step)
                          /\ step.job = Here(r).job /\ step.attempt = Here(r).attempt
                          /\ step.reserved = Here(r).reserved
  BY <1>1, <1>2, <1>3, Adopted DEF Step
<1>5. now \in Outcomes => now \notin {"absent", "running"}
  BY BatchAssumption
<1>6. CASE now \in Useful /\ NextStep(r, step)
  <2>1. step \in Step /\ StepTrue(phase, at[r], step) /\ Allowance(step) = Allowance(Here(r))
    BY <1>4, <1>6, BatchAssumption DEF Allowance
  <2>2. NextStep(r, step)
    BY <1>6
  <2> HIDE DEF step
  <2> QED BY <1>1, <2>1, <2>2, StepMoves DEF NextStep, Working, PCs, WithJob, WithoutJob
<1>7. CASE now \in Outcomes \ Useful /\ Decide(r, step)
  <2>1. now \in Outcomes /\ Decide(r, step)
    BY <1>7
  <2> HIDE DEF step
  <2> QED BY <1>1, <1>4, <1>5, <2>1, DecideKeeps
<1>8. CASE now \in {"queued", "interrupted"} /\ Decide(r, Here(r))
  BY <1>1, <1>2, <1>8, DecideKeeps
<1>9. CASE now = "running" /\ Goto(r, "recover") /\ UNCHANGED <<my, at>>
  <2>1. pc'[r] = "recover" /\ \A q \in Runs \ {r} : pc'[q] = pc[q]
    BY <1>9 DEF Goto, BInv, TypeOK
  <2>2. TypeOK'
    BY <1>1, <1>9 DEF BInv, TypeOK, Goto, row, PCs, Working
  <2>3. Place(r)' /\ RecordTrue(phase, my[r])'
    BY <1>1, <1>9, <2>1 DEF BInv, RunInv, Place, Here, JobOf, WithJob, WithoutJob, Supplied,
       RecordTrue, StepTrue, Over
  <2>4. Copy(r)'
    BY <1>1, <1>9, CopyStays DEF BInv, RunInv, Working, row
  <2> QED BY <1>1, <1>9, <2>1, <2>2, <2>3, <2>4, LocalStep DEF RunInv, row
<1> QED BY <1>6, <1>7, <1>8, <1>9 DEF Inspect

LEMMA ReinspectKeeps ==
  ASSUME BInv, NEW r \in Runs, Reinspect(r)
  PROVE  BInv'
<1> DEFINE now == phase[JobOf(r)]
           step == [Here(r) EXCEPT !.status = now]
<1>1. /\ at[r] \in Steps /\ Here(r).job # NoAttempt /\ pc[r] = "reinspect"
      /\ now \notin {"absent", "queued"} /\ UNCHANGED <<phase, row, retry, lost>>
  BY DEF Reinspect, BInv, RunInv, Place, WithJob
<1>2. JobOf(r) \in BatchJobs
  BY <1>1, HereIs
<1>3. CASE now = "running"
  BY <1>1, <1>3, StatusKeeps DEF Reinspect, Working
<1>4. CASE now # "running" /\ Decide(r, step)
  <2>1. now \in Outcomes \cup {"interrupted"}
    BY <1>1, <1>2, <1>4 DEF BInv, TypeOK, Life!Phases
  <2>2. Later(phase, phase)
    BY DEF Later
  <2>3. step \in Step /\ StepTrue(phase, at[r], step)
    BY <1>1, <2>1, <2>2, Adopted
  <2>4. Here(r) \in Step
    BY <1>1, HereIs
  <2>5. step.job = Here(r).job /\ step.attempt = Here(r).attempt /\ step.reserved = Here(r).reserved
    BY <2>4 DEF Step
  <2>6. Decide(r, step)
    BY <1>4
  <2> HIDE DEF step
  <2> QED BY <1>1, <1>4, <2>3, <2>5, <2>6, DecideKeeps
<1> QED BY <1>3, <1>4 DEF Reinspect

-----------------------------------------------------------------------------
(* Calls that move jobs: those of the run, of other batches and of other   *)
(* commands.                                                               *)

\* A run steps, and jobs that were submitted move on.
LEMMA JobsMoveKeeps ==
  ASSUME BInv, NEW r \in Runs, TypeOK', UNCHANGED <<rec, owner>>,
         Later(phase, phase'), Submitted' = Submitted,
         \A q \in Runs \ {r} : my'[q] = my[q] /\ at'[q] = at[q] /\ pc'[q] = pc[q],
         RunInv(r)'
  PROVE  BInv'
<1>1. StoredInv'
  BY StoredStays DEF BInv, StoredInv, TypeOK
<1>2. JobsInv'
  BY JobsStay DEF BInv
<1> QED BY <1>1, <1>2, RunSteps

LEMMA RecoverKeeps ==
  ASSUME BInv, NEW r \in Runs, NEW S \in SUBSET BatchJobs, Recover(r, S)
  PROVE  BInv'
<1>1. pc[r] = "recover" /\ Life!Interrupt(S) /\ UNCHANGED <<row, my, at, retry, lost>>
  BY DEF Recover
<1>2. phase' \in [BatchJobs -> Life!Phases] /\ Later(phase, phase')
  BY <1>1, JobsMoveOn DEF BInv
<1>3. Submitted' = Submitted
  BY <1>1, <1>2, NoneAdded DEF BInv
<1>4. pc'[r] = "reinspect" /\ \A q \in Runs \ {r} : pc'[q] = pc[q]
  BY DEF Recover, Goto, BInv, TypeOK
<1>5. TypeOK'
  BY <1>1, <1>2 DEF Recover, Goto, BInv, TypeOK, row, PCs, Working
<1>6. RecordTrue(phase, my[r])'
  BY <1>1, <1>2, RecordTrueLater DEF BInv, RunInv, TypeOK
<1>7. at[r] \in Steps /\ Here(r).job # NoAttempt /\ phase[JobOf(r)] \notin {"absent", "queued"} /\ Supplied(phase, at[r])
  BY <1>1 DEF BInv, RunInv, Place, WithJob
<1>8. JobOf(r) \in BatchJobs
  BY <1>7, HereIs
<1>9. Place(r)'
  <2>1. Here(r)' = Here(r) /\ JobOf(r)' = JobOf(r) /\ at'[r] = at[r]
    BY <1>1 DEF Here, JobOf
  <2>2. Supplied(phase', at[r])
    BY <1>2, <1>7, SuppliedLater
  <2> QED BY <1>2, <1>4, <1>7, <1>8, <2>1, <2>2 DEF Place, Later, WithJob, WithoutJob
<1>10. Copy(r)'
  <2>1. owner = r => ~Won(rec.step[at[r]])
    BY <1>1, <1>7, NoneWonHere DEF BInv, RunInv, WithJob
  <2> QED BY <1>1, <1>4, <2>1, CopyStays DEF BInv, RunInv, Working, row
<1> QED BY <1>1, <1>2, <1>3, <1>4, <1>5, <1>6, <1>9, <1>10, JobsMoveKeeps DEF RunInv, row

LEMMA RecoverElsewhereKeeps ==
  ASSUME BInv, NEW S \in SUBSET BatchJobs, RecoverElsewhere(S)
  PROVE  BInv'
<1>1. Life!Interrupt(S) /\ UNCHANGED <<row, local>>
  BY DEF RecoverElsewhere
<1>2. phase' \in [BatchJobs -> Life!Phases] /\ Later(phase, phase')
  BY <1>1, JobsMoveOn DEF BInv
<1>3. Submitted' = Submitted
  BY <1>1, <1>2, NoneAdded DEF BInv
<1>4. TypeOK'
  BY <1>1, <1>2 DEF BInv, TypeOK, row, local
<1>5. StoredInv' /\ JobsInv'
  BY <1>1, <1>2, <1>3, StoredStays, JobsStay DEF BInv, StoredInv, row
<1>6. \A q \in Runs : RunInv(q)'
  BY <1>1, <1>2, OthersStay DEF BInv, row, local
<1> QED BY <1>4, <1>5, <1>6 DEF BInv

\* The run's job moves on, and its copy of the step with it.
LEMMA JobAdopted ==
  ASSUME BInv, NEW r \in Runs, UNCHANGED <<row, at, retry, lost>>, pc[r] \in {"execute", "claimjob", "backend"},
         phase' \in [BatchJobs -> Life!Phases], Later(phase, phase'), Submitted' = Submitted,
         NEW step \in Step, StepTrue(phase', at[r], step), step.job = Here(r).job,
         Allowance(step) = Allowance(Here(r)),
         my' = [my EXCEPT ![r] = WithStep(@, at[r], step)],
         NEW label \in {"claimjob", "backend", "record"}, Goto(r, label)
  PROVE  BInv'
<1> DEFINE M == WithStep(my[r], at[r], step)
<1>1. at[r] \in Steps /\ Here(r).job # NoAttempt /\ (owner = r => ~Won(rec.step[at[r]]))
  BY NoneWonHere DEF BInv, RunInv, Place, WithJob
<1>2. my[r] \in Record /\ RecordTrue(phase', my[r])
  BY <1>1, HereIs, RecordTrueLater
<1>3. /\ M \in Record /\ M.step[at[r]] = step
      /\ \A t \in Steps \ {at[r]} : M.step[t] = my[r].step[t]
      /\ M.started = my[r].started /\ M.cost = my[r].cost /\ Allowed(M) = Allowed(my[r])
  BY <1>1, <1>2, WithStepIs DEF Here
<1>4. RecordTrue(phase', M)
  BY <1>1, <1>2, RecordTrueWithStep
<1> HIDE DEF M
<1>5. my' = [my EXCEPT ![r] = M]
  BY DEF M
<1>6. my'[r] = M /\ pc'[r] = label /\ \A q \in Runs \ {r} : my'[q] = my[q] /\ at'[q] = at[q] /\ pc'[q] = pc[q]
  BY <1>5 DEF Goto, BInv, TypeOK
<1>7. TypeOK'
  BY <1>3, <1>5 DEF BInv, TypeOK, Goto, row, PCs, Working
<1>8. Copy(r)'
  BY <1>1, <1>3, <1>6, CopyStays DEF BInv, RunInv, row, Working
<1>9. Place(r)'
  <2>1. Here(r)' = step
    BY <1>3, <1>6 DEF Here
  <2> QED BY <1>1, <1>6, <2>1 DEF Place, WithJob, WithoutJob
<1> QED BY <1>4, <1>6, <1>7, <1>8, <1>9, JobsMoveKeeps DEF RunInv, row

LEMMA ExecuteReadsKeeps ==
  ASSUME BInv, NEW r \in Runs, ExecuteReads(r)
  PROVE  BInv'
<1> DEFINE step == [Here(r) EXCEPT !.status = phase[JobOf(r)]]
<1>1. /\ pc[r] = "execute" /\ at[r] \in Steps /\ Here(r).job # NoAttempt
      /\ UNCHANGED <<phase, row, at, retry, lost>>
  BY DEF ExecuteReads, BInv, RunInv, Place, WithJob
<1>2. Later(phase, phase') /\ Submitted' = Submitted /\ phase' \in [BatchJobs -> Life!Phases]
  BY <1>1 DEF Later, Submitted, BInv, TypeOK
<1>3. Here(r) \in Step /\ StepTrue(phase, at[r], Here(r))
  BY <1>1, HereIs
<1>4. CASE phase[JobOf(r)] \in Outcomes /\ Adopt(r, phase[JobOf(r)]) /\ Goto(r, "record")
  <2>1. step \in Step /\ StepTrue(phase', at[r], step)
    BY <1>1, <1>2, <1>4, Adopted
  <2>2. step.job = Here(r).job /\ Allowance(step) = Allowance(Here(r))
    BY <1>3 DEF Step, Allowance
  <2>3. my' = [my EXCEPT ![r] = WithStep(@, at[r], step)]
    BY <1>4 DEF Adopt
  <2> HIDE DEF step
  <2> QED BY <1>1, <1>2, <1>4, <2>1, <2>2, <2>3, JobAdopted
<1>5. CASE my' = my /\ Goto(r, "claimjob")
  <2>1. pc'[r] = "claimjob" /\ \A q \in Runs \ {r} : pc'[q] = pc[q]
    BY <1>5 DEF Goto, BInv, TypeOK
  <2>2. TypeOK'
    BY <1>1, <1>5 DEF BInv, TypeOK, Goto, row, PCs, Working
  <2>3. Place(r)' /\ RecordTrue(phase, my[r])'
    BY <1>1, <1>5, <2>1 DEF BInv, RunInv, Place, Here, WithJob, WithoutJob, RecordTrue,
       StepTrue, Over
  <2>4. Copy(r)'
    <3>1. owner = r => ~Won(rec.step[at[r]])
      BY <1>1, NoneWonHere DEF BInv, RunInv, WithJob
    <3> QED BY <1>1, <1>5, <3>1, CopyStays DEF BInv, RunInv, Working, row
  <2> QED BY <1>1, <1>5, <2>1, <2>2, <2>3, <2>4, LocalStep DEF RunInv, row
<1> QED BY <1>4, <1>5 DEF ExecuteReads

LEMMA ExecuteClaimsKeeps ==
  ASSUME BInv, NEW r \in Runs, ExecuteClaims(r)
  PROVE  BInv'
<1>1. /\ pc[r] = "claimjob" /\ at[r] \in Steps /\ Here(r).job # NoAttempt
      /\ UNCHANGED <<row, my, at, retry, lost>> /\ Life!Start(JobOf(r)) /\ Goto(r, "backend")
  BY DEF ExecuteClaims, BInv, RunInv, Place, WithJob
<1>2. JobOf(r) \in BatchJobs /\ Here(r) \in Step /\ my[r] \in Record
  BY <1>1, HereIs
<1>3. Later(phase, phase') /\ phase' \in [BatchJobs -> Life!Phases]
  BY <1>1, <1>2, JobsMoveOn DEF BInv
<1>4. Submitted' = Submitted
  BY <1>1, <1>2, <1>3, NoneAdded DEF BInv
<1>5. RecordTrue(phase', my[r])
  BY <1>2, <1>3, RecordTrueLater DEF BInv, RunInv
<1>6. pc'[r] = "backend" /\ \A q \in Runs \ {r} : pc'[q] = pc[q]
  BY <1>1 DEF Goto, BInv, TypeOK
<1>7. TypeOK'
  BY <1>1, <1>3 DEF BInv, TypeOK, Goto, row, PCs, Working
<1>8. Place(r)' /\ RecordTrue(phase, my[r])'
  BY <1>1, <1>5, <1>6 DEF Place, Here, WithJob, WithoutJob
<1>9. Copy(r)'
  <2>1. owner = r => ~Won(rec.step[at[r]])
    BY <1>1, NoneWonHere DEF BInv, RunInv, WithJob
  <2> QED BY <1>1, <2>1, CopyStays DEF BInv, RunInv, Working, row
<1> QED BY <1>1, <1>3, <1>4, <1>6, <1>7, <1>8, <1>9, JobsMoveKeeps DEF RunInv, row

LEMMA BackendPublishesKeeps ==
  ASSUME BInv, NEW r \in Runs, NEW o \in Outcomes, BackendPublishes(r, o)
  PROVE  BInv'
<1> DEFINE step == [Here(r) EXCEPT !.status = o]
<1>1. /\ pc[r] = "backend" /\ at[r] \in Steps /\ Here(r).job # NoAttempt
      /\ UNCHANGED <<row, at, retry, lost>> /\ Life!Publish(JobOf(r), o) /\ phase[JobOf(r)] = "running"
      /\ Goto(r, "record")
  BY DEF BackendPublishes, BInv, RunInv, Place, WithJob
<1>2. JobOf(r) \in BatchJobs /\ Here(r) \in Step
  BY <1>1, HereIs
<1>3. Later(phase, phase') /\ phase' \in [BatchJobs -> Life!Phases]
  BY <1>1, <1>2, JobsMoveOn DEF BInv
<1>4. Submitted' = Submitted
  BY <1>1, <1>2, <1>3, NoneAdded DEF BInv
<1>5. phase'[JobOf(r)] = o
  BY <1>1, <1>2 DEF Life!Publish, BInv, TypeOK
<1>6. step \in Step /\ StepTrue(phase', at[r], step)
  BY <1>1, <1>3, <1>5, Adopted
<1>7. step.job = Here(r).job /\ Allowance(step) = Allowance(Here(r))
  BY <1>2 DEF Step, Allowance
<1>8. my' = [my EXCEPT ![r] = WithStep(@, at[r], step)]
  BY DEF BackendPublishes, Adopt
<1> HIDE DEF step
<1> QED BY <1>1, <1>3, <1>4, <1>6, <1>7, <1>8, JobAdopted

\* service.prepare: the one call that adds a job.
LEMMA PrepareKeeps ==
  ASSUME BInv, NEW r \in Runs, Prepare(r)
  PROVE  BInv'
<1> DEFINE n == Here(r).attempt + 1
           j == <<at[r], n>>
           step == [Here(r) EXCEPT !.job = n, !.attempt = n, !.reserved = FALSE]
           M == WithStep(my[r], at[r], step)
<1>1. /\ pc[r] = "prepare" /\ at[r] \in Steps /\ Here(r).job = NoAttempt /\ Here(r).reserved
      /\ Supplied(phase, at[r]) /\ UNCHANGED <<row, at, retry, lost>> /\ Goto(r, "start")
      /\ IF phase[j] = "absent" THEN Life!Submit(j) ELSE phase' = phase
      /\ my' = [my EXCEPT ![r] = M]
  BY DEF Prepare, BInv, RunInv, Place, WithoutJob
<1>2. my[r] \in Record /\ Here(r) \in Step /\ StepTrue(phase, at[r], Here(r))
  BY <1>1, HereIs
<1>3. n \in Attempts /\ j \in BatchJobs
  BY <1>1, <1>2 DEF StepTrue, Step, Attempts, MaxAttempts, NoAttempt, BatchJobs
<1>4. phase' \in [BatchJobs -> Life!Phases] /\ Later(phase, phase')
  BY <1>1, <1>3, JobsMoveOn DEF BInv
<1>5. phase'[j] # "absent"
  BY <1>1, <1>3 DEF Life!Submit, BInv, TypeOK
<1>6. /\ step \in Step /\ step.job = n /\ step.attempt = n /\ ~step.reserved /\ step.status = Here(r).status
      /\ Allowance(step) = Allowance(Here(r))
  BY <1>1, <1>2, <1>3 DEF Step, Allowance
<1>7. RecordTrue(phase', my[r])
  BY <1>2, <1>4, RecordTrueLater DEF BInv, RunInv
<1>8. StepTrue(phase', at[r], step)
  <2>1. StepTrue(phase', at[r], Here(r))
    BY <1>1, <1>7 DEF RecordTrue, Here
  <2>2. \A m \in 1..n : m = n \/ m \in 1..Here(r).attempt
    BY <1>2 DEF Step, Attempts, NoAttempt, MaxAttempts
  <2>3. Here(r).attempt \in 0..2
    BY <1>2 DEF Step, Attempts, NoAttempt, MaxAttempts
  <2> HIDE DEF step
  <2>4. \A m \in 1..n : phase'[<<at[r], m>>] # "absent" /\ (m < n => Over(phase'[<<at[r], m>>]))
    BY <1>1, <1>5, <2>1, <2>2, <2>3 DEF StepTrue
  <2>5. \A m \in 1..Here(r).attempt : m \in 1..n
    BY <2>3
  <2> QED BY <1>3, <1>6, <2>1, <2>4, <2>5 DEF StepTrue, NoAttempt, Attempts
<1> HIDE DEF step
<1>9. /\ M \in Record /\ M.step[at[r]] = step
      /\ \A t \in Steps \ {at[r]} : M.step[t] = my[r].step[t]
      /\ M.started = my[r].started /\ M.cost = my[r].cost /\ Allowed(M) = Allowed(my[r])
  BY <1>1, <1>2, <1>6, WithStepIs DEF Here
<1>10. RecordTrue(phase', M)
  BY <1>1, <1>2, <1>6, <1>7, <1>8, RecordTrueWithStep
<1> HIDE DEF M
<1>11. my'[r] = M /\ pc'[r] = "start" /\ \A q \in Runs \ {r} : my'[q] = my[q] /\ at'[q] = at[q] /\ pc'[q] = pc[q]
  BY <1>1 DEF Goto, BInv, TypeOK
<1>12. TypeOK'
  BY <1>1, <1>4, <1>9 DEF BInv, TypeOK, Goto, row, PCs, Working
<1>13. Copy(r)'
  <2>1. owner = r => ~Won(rec.step[at[r]])
    BY <1>1, NoneWonHere DEF BInv, RunInv, WithoutJob
  <2> QED BY <1>1, <1>9, <1>11, <2>1, CopyStays DEF BInv, RunInv, row, Working
<1>14. Place(r)'
  <2>1. Here(r)' = step
    BY <1>1, <1>9, <1>11 DEF Here
  <2> QED BY <1>1, <1>3, <1>6, <1>11, <2>1 DEF Place, WithJob, WithoutJob, NoAttempt, Attempts
<1>15. j \in Allowed(rec)
  <2>1. j \in Allowed(my[r])
    BY <1>1, <1>2, <1>3 DEF Allowed, Allowance, Here, Step, Attempts, NoAttempt
  <2> QED BY <1>1, <2>1 DEF BInv, RunInv, Copy, Working
<1>16. Submitted' \subseteq Submitted \cup {j}
  BY <1>1, <1>3 DEF Submitted, Life!Submit, BInv, TypeOK
<1>17. StoredInv'
  BY <1>1, <1>4, <1>15, <1>16, StoredStays DEF BInv, StoredInv, row
<1>18. JobsInv'
  <2>1. CASE Submitted' = Submitted
    BY <1>4, <2>1, JobsStay DEF BInv
  <2>2. RetryAfterSettled'
    <3> SUFFICES ASSUME NEW s \in Steps, NEW m \in Attempts \ {1}, phase'[<<s, m>>] # "absent"
                 PROVE  Over(phase'[<<s, m - 1>>])
      BY DEF RetryAfterSettled, Over
    <3>1. <<s, m>> \in BatchJobs /\ <<s, m - 1>> \in BatchJobs
      BY DEF BatchJobs, Attempts, MaxAttempts
    <3>2. CASE phase[<<s, m>>] # "absent"
      BY <1>4, <3>1, <3>2 DEF BInv, JobsInv, RetryAfterSettled, Later, Over
    <3>3. CASE <<s, m>> = j
      <4>1. s = at[r] /\ m = n /\ m - 1 \in 1..Here(r).attempt
        BY <1>2, <3>3 DEF Attempts, MaxAttempts, Step, NoAttempt
      <4> QED BY <1>1, <1>2, <1>4, <3>1, <4>1 DEF StepTrue, Later
    <3> QED BY <1>4, <1>16, <3>1, <3>2, <3>3 DEF Submitted
  <2>3. DependenciesFirst'
    <3> SUFFICES ASSUME NEW k \in Submitted' PROVE Supplied(phase', k[1])
      BY DEF DependenciesFirst, Supplied
    <3>1. k[1] \in Steps /\ Supplied(phase, k[1])
      <4>1. CASE k = j
        BY <1>1, <4>1
      <4>2. CASE k \in Submitted
        <5>1. k[1] \in Steps
          BY <4>2 DEF Submitted, BatchJobs
        <5> QED BY <4>2, <5>1 DEF BInv, JobsInv, DependenciesFirst, Supplied
      <4> QED BY <1>16, <4>1, <4>2
    <3> QED BY <1>4, <3>1, SuppliedLater
  <2> QED BY <2>2, <2>3 DEF JobsInv
<1> QED BY <1>1, <1>4, <1>10, <1>11, <1>12, <1>13, <1>14, <1>17, <1>18, RunSteps DEF RunInv, row

-----------------------------------------------------------------------------
(* Saves, and the reservations they store. *)

LEMMA FiniteJobs ==
  ASSUME NEW S \in SUBSET BatchJobs
  PROVE  IsFiniteSet(S) /\ IsFiniteSet(Charges(S))
<1> DEFINE Charge(j) == {j} \X (1..Cost[j[1]])
           f == [j \in S |-> Charge(j)]
<1>1. IsFiniteSet(BatchJobs)
  <2>1. 1 \in Int /\ NSteps \in Int /\ MaxAttempts \in Int
    BY BatchAssumption DEF MaxAttempts
  <2>2. IsFiniteSet(1..NSteps)
    BY <2>1, FS_Interval
  <2>3. IsFiniteSet(1..MaxAttempts)
    BY <2>1, FS_Interval
  <2> QED BY <2>2, <2>3, FS_Product DEF BatchJobs, Steps, Attempts
<1>2. IsFiniteSet(S)
  BY <1>1, FS_Subset
<1>3. \A j \in S : IsFiniteSet(Charge(j))
  <2> SUFFICES ASSUME NEW j \in S PROVE IsFiniteSet({j} \X (1..Cost[j[1]]))
    OBVIOUS
  <2>1. Cost[j[1]] \in Nat
    BY BatchAssumption DEF BatchJobs
  <2>2. 1 \in Int /\ Cost[j[1]] \in Int
    BY <2>1
  <2>3. IsFiniteSet(1..Cost[j[1]])
    BY <2>2, FS_Interval
  <2>4. IsFiniteSet({j})
    BY FS_Singleton
  <2> QED BY <2>3, <2>4, FS_Product
<1> HIDE DEF Charge
<1>4. f \in Surjection(S, {Charge(j) : j \in S})
  BY DEF Surjection
<1>5. IsFiniteSet({Charge(j) : j \in S})
  BY <1>2, <1>4, FS_Surjection
<1>6. IsFiniteSet(UNION {Charge(j) : j \in S})
  BY <1>3, <1>5, FS_UNION
<1> QED BY <1>2, <1>6 DEF Charge, Charges

LEMMA OneMoreCharge ==
  ASSUME NEW S \in SUBSET BatchJobs, NEW j \in BatchJobs
  PROVE  /\ Cardinality(S \cup {j}) <= Cardinality(S) + 1
         /\ Cardinality(Charges(S \cup {j})) <= Cardinality(Charges(S)) + Cost[j[1]]
<1> DEFINE C == Charges(S)
           D == {j} \X (1..Cost[j[1]])
<1>1. IsFiniteSet(S) /\ IsFiniteSet(C)
  BY FiniteJobs
<1>2. Cardinality(S) \in Nat /\ Cardinality(C) \in Nat
  BY <1>1, FS_CardinalityType
<1>3. Cardinality(S \cup {j}) <= Cardinality(S) + 1
  <2>1. Cardinality(S \cup {j}) = IF j \in S THEN Cardinality(S) ELSE Cardinality(S) + 1
    BY <1>1, FS_AddElement
  <2> QED BY <1>2, <2>1
<1>4. Charges(S \cup {j}) = C \cup D
  BY DEF Charges
<1>5. IsFiniteSet(D) /\ Cardinality(D) = Cost[j[1]]
  <2>1. Cost[j[1]] \in Nat
    BY BatchAssumption DEF BatchJobs
  <2>2. 1 \in Int /\ Cost[j[1]] \in Int
    BY <2>1
  <2>3. /\ IsFiniteSet(1..Cost[j[1]])
        /\ Cardinality(1..Cost[j[1]]) = IF 1 > Cost[j[1]] THEN 0 ELSE Cost[j[1]] - 1 + 1
    BY <2>2, FS_Interval
  <2>4. IsFiniteSet({j}) /\ Cardinality({j}) = 1
    BY FS_Singleton
  <2>5. IsFiniteSet({j} \X (1..Cost[j[1]]))
    BY <2>3, <2>4, FS_Product
  <2>6. Cardinality({j} \X (1..Cost[j[1]])) = Cardinality({j}) * Cardinality(1..Cost[j[1]])
    BY <2>3, <2>4, FS_Product
  <2>7. Cardinality(1..Cost[j[1]]) = Cost[j[1]]
    BY <2>1, <2>3
  <2> QED BY <2>1, <2>4, <2>5, <2>6, <2>7
<1> HIDE DEF C, D
<1>6. Cardinality(C \cup D) = Cardinality(C) + Cardinality(D) - Cardinality(C \cap D)
  BY <1>1, <1>5, FS_Union
<1>7. Cardinality(C \cap D) \in Nat
  <2>1. IsFiniteSet(C \cap D)
    BY <1>1, FS_Subset
  <2> QED BY <2>1, FS_CardinalityType
<1>8. Cost[j[1]] \in Nat
  BY BatchAssumption DEF BatchJobs
<1>9. Cardinality(C \cup D) <= Cardinality(C) + Cost[j[1]]
  BY <1>2, <1>5, <1>6, <1>7, <1>8
<1> QED BY <1>3, <1>4, <1>9 DEF C

\* A run writes its copy back, if the row still names it, and goes on.
LEMMA SaveKeeps ==
  ASSUME BInv, NEW r \in Runs, UNCHANGED <<phase, cancel, retry, lost>>, pc[r] \in Working,
         NEW record \in Record, RecordTrue(phase, record), Allowed(my[r]) \subseteq Allowed(record),
         my' = [my EXCEPT ![r] = record],
         owner = r => /\ Cardinality(Allowed(record)) <= record.started
                      /\ Cardinality(Charges(Allowed(record))) <= record.cost,
         NEW label \in {"head", "prepare", "execute", "releasing"}, Save(r, record, label),
         at' \in [Runs -> 1..(NSteps + 1)], \A q \in Runs \ {r} : at'[q] = at[q],
         label \in {"prepare", "execute"} => at'[r] \in Steps /\ ~Won(record.step[at'[r]]),
         label = "execute" => record.step[at'[r]].job # NoAttempt,
         label = "prepare" => /\ record.step[at'[r]].job = NoAttempt /\ record.step[at'[r]].reserved
                              /\ Supplied(phase, at'[r])
  PROVE  BInv'
<1>1. Later(phase, phase') /\ Submitted' = Submitted
  BY DEF Later, Submitted
<1>2. my'[r] = record /\ \A q \in Runs \ {r} : my'[q] = my[q] /\ pc'[q] = pc[q]
  BY DEF Save, Goto, BInv, TypeOK
<1>3. JobsInv'
  BY <1>1, JobsStay DEF BInv
<1>4. RecordTrue(phase, my[r])'
  BY <1>2 DEF RecordTrue, StepTrue, Over
<1>5. CASE owner = r
  <2>1. pc' = [pc EXCEPT ![r] = label] /\ rec' = record /\ owner' = r /\ expired' = FALSE
    BY <1>5 DEF Save, Goto
  <2>2. TypeOK'
    <3>1. my' \in [Runs -> Record] /\ pc' \in [Runs -> PCs]
      BY <2>1 DEF BInv, TypeOK, PCs, Working
    <3> QED BY <2>1, <3>1 DEF BInv, TypeOK
  <2>3. pc'[r] = label
    BY <2>1 DEF BInv, TypeOK
  <2>4. Allowed(rec) \subseteq Allowed(record)
    BY <1>5 DEF BInv, RunInv, Copy
  <2>5. StoredInv'
    BY <1>1, <1>5, <2>1, <2>4 DEF BInv, StoredInv, RecordTrue, StepTrue, Over, Allowed, Charges
  <2>6. Place(r)'
    BY <1>2, <2>3 DEF Place, Here, WithJob, WithoutJob, Supplied
  <2>7. Copy(r)'
    BY <1>2, <2>1, <2>3 DEF Copy, WithJob, WithoutJob, Allowed
  <2>8. Allowed(rec) \subseteq Allowed(rec')
    BY <2>1, <2>4
  <2> QED BY <1>1, <1>2, <1>3, <1>4, <2>1, <2>2, <2>5, <2>6, <2>7, <2>8, RunSteps DEF RunInv
<1>6. CASE owner # r
  <2>1. pc' = [pc EXCEPT ![r] = "failing"] /\ UNCHANGED <<rec, owner, expired>>
    BY <1>6 DEF Save, Goto
  <2>2. TypeOK'
    <3>1. my' \in [Runs -> Record] /\ pc' \in [Runs -> PCs]
      BY <2>1 DEF BInv, TypeOK, PCs, Working
    <3> QED BY <2>1, <3>1 DEF BInv, TypeOK
  <2>3. pc'[r] = "failing"
    BY <2>1 DEF BInv, TypeOK
  <2>4. Place(r)' /\ Copy(r)'
    BY <1>6, <2>1, <2>3 DEF Place, Copy, WithJob, WithoutJob, Working
  <2> QED BY <1>2, <1>4, <2>1, <2>2, <2>4, LocalStep DEF RunInv
<1> QED BY <1>5, <1>6

LEMMA PlansKeep ==
  ASSUME BInv, NEW r \in Runs, PlanExhausted(r) \/ PlanReuses(r)
  PROVE  BInv'
<1>1. CASE PlanExhausted(r)
  BY <1>1, StatusKeeps DEF PlanExhausted, Working
<1>2. CASE PlanReuses(r)
  <2>1. /\ pc[r] = "plan" /\ at[r] \in Steps /\ Here(r).job = NoAttempt /\ Here(r).reserved
        /\ Supplied(phase, at[r]) /\ UNCHANGED <<phase, row, my, at, retry, lost>>
    BY <1>2 DEF PlanReuses, BInv, RunInv, Place, WithoutJob
  <2>2. pc'[r] = "prepare" /\ \A q \in Runs \ {r} : pc'[q] = pc[q]
    BY <1>2 DEF PlanReuses, Goto, BInv, TypeOK
  <2>3. TypeOK'
    BY <1>2, <2>1 DEF PlanReuses, BInv, TypeOK, Goto, row, PCs, Working
  <2>4. Place(r)' /\ RecordTrue(phase, my[r])'
    BY <2>1, <2>2 DEF BInv, RunInv, Place, Here, WithJob, WithoutJob, Supplied, RecordTrue,
       StepTrue, Over
  <2>5. Copy(r)'
    <3>1. owner = r => ~Won(rec.step[at[r]])
      BY <2>1, NoneWonHere DEF BInv, RunInv, WithoutJob
    <3> QED BY <2>1, <3>1, CopyStays DEF BInv, RunInv, Working, row
  <2> QED BY <2>1, <2>2, <2>3, <2>4, <2>5, LocalStep DEF RunInv, row
<1> QED BY <1>1, <1>2

\* A reservation allows one job more, and is charged for it.
LEMMA ReservedIs ==
  ASSUME NEW record \in Record, NEW s \in Steps, Fits(record, s), ~record.step[s].reserved,
         record.step[s].attempt < MaxAttempts
  PROVE  /\ Reserved(record, s) \in Record
         /\ Reserved(record, s).status = record.status
         /\ Reserved(record, s).step[s] = [record.step[s] EXCEPT !.reserved = TRUE]
         /\ \A t \in Steps \ {s} : Reserved(record, s).step[t] = record.step[t]
         /\ Reserved(record, s).started = record.started + 1
         /\ Reserved(record, s).cost = record.cost + Cost[s]
         /\ <<s, record.step[s].attempt + 1>> \in BatchJobs
         /\ Allowed(Reserved(record, s)) = Allowed(record) \cup {<<s, record.step[s].attempt + 1>>}
<1> DEFINE R == Reserved(record, s)
           step == [record.step[s] EXCEPT !.reserved = TRUE]
<1>1. record.step[s] \in Step /\ record.started \in Nat /\ record.cost \in Nat /\ Cost[s] \in Nat
  BY BatchAssumption DEF Record
<1>2. step \in Step /\ step.reserved /\ step.attempt = record.step[s].attempt
  BY <1>1 DEF Step
<1>3. record.started + 1 \in 0..MaxJobs /\ record.cost + Cost[s] \in 0..MaxCost
  BY <1>1, BatchAssumption DEF Fits
<1> DEFINE steps == [record.step EXCEPT ![s] = step]
<1>4. steps \in [Steps -> Step]
  BY <1>2 DEF Record
<1>5. R = [record EXCEPT !.started = @ + 1, !.cost = @ + Cost[s], !.step = steps]
  BY DEF Reserved, Record
<1>6. steps[s] = step /\ \A t \in Steps \ {s} : steps[t] = record.step[t]
  BY DEF Record
<1> HIDE DEF R, steps, step
<1>7. /\ R \in Record /\ R.status = record.status /\ R.step = steps
      /\ R.started = record.started + 1 /\ R.cost = record.cost + Cost[s]
  BY <1>3, <1>4, <1>5 DEF Record
<1>8. record.step[s].attempt \in 0..1
  BY <1>1 DEF Step, Attempts, NoAttempt, MaxAttempts
<1>9. <<s, record.step[s].attempt + 1>> \in BatchJobs
  BY <1>8 DEF BatchJobs, Attempts, MaxAttempts
<1>10. Allowance(step) = record.step[s].attempt + 1 /\ Allowance(record.step[s]) = record.step[s].attempt
  BY <1>2 DEF Allowance
<1>11. Allowed(R) = Allowed(record) \cup {<<s, record.step[s].attempt + 1>>}
  <2>1. ASSUME NEW j \in BatchJobs
        PROVE  j[2] <= Allowance(R.step[j[1]]) <=> j[2] <= Allowance(record.step[j[1]]) \/ j = <<s, record.step[s].attempt + 1>>
    <3>1. j = <<j[1], j[2]>> /\ j[1] \in Steps /\ j[2] \in 1..2
      BY DEF BatchJobs, Attempts, MaxAttempts
    <3>2. CASE j[1] = s
      BY <1>6, <1>7, <1>8, <1>10, <3>1, <3>2
    <3>3. CASE j[1] # s
      BY <1>6, <1>7, <3>1, <3>3
    <3> QED BY <3>2, <3>3
  <2> QED BY <1>9, <2>1 DEF Allowed
<1> QED BY <1>6, <1>7, <1>9, <1>11 DEF R, step

LEMMA PlanReservesKeeps ==
  ASSUME BInv, NEW r \in Runs, PlanReserves(r)
  PROVE  BInv'
<1> DEFINE M == Reserved(my[r], at[r])
           j == <<at[r], Here(r).attempt + 1>>
<1>1. /\ pc[r] = "plan" /\ at[r] \in Steps /\ Here(r).job = NoAttempt /\ ~Here(r).reserved
      /\ Supplied(phase, at[r]) /\ UNCHANGED <<phase, cancel, at, retry, lost>> /\ Fits(my[r], at[r])
      /\ my' = [my EXCEPT ![r] = M] /\ Save(r, my'[r], "prepare")
  BY DEF PlanReserves, BInv, RunInv, Place, WithoutJob
<1>2. my[r] \in Record /\ Here(r) \in Step /\ StepTrue(phase, at[r], Here(r)) /\ RecordTrue(phase, my[r])
  BY <1>1, HereIs
<1>3. Here(r).attempt < MaxAttempts
  BY <1>1, <1>2 DEF StepTrue
<1>4. /\ M \in Record /\ M.status = my[r].status /\ M.step[at[r]] = [Here(r) EXCEPT !.reserved = TRUE]
      /\ \A t \in Steps \ {at[r]} : M.step[t] = my[r].step[t]
      /\ M.started = my[r].started + 1 /\ M.cost = my[r].cost + Cost[at[r]]
      /\ j \in BatchJobs /\ Allowed(M) = Allowed(my[r]) \cup {j}
  BY <1>1, <1>2, <1>3, ReservedIs DEF Here
<1>5. /\ M.step[at[r]].reserved /\ M.step[at[r]].job = NoAttempt
      /\ M.step[at[r]].attempt = Here(r).attempt /\ M.step[at[r]].status = Here(r).status
  BY <1>1, <1>2, <1>4 DEF Step
<1> HIDE DEF M
<1>6. RecordTrue(phase, M)
  <2>1. StepTrue(phase, at[r], M.step[at[r]])
    BY <1>1, <1>2, <1>3, <1>5 DEF StepTrue
  <2> QED BY <1>2, <1>4, <2>1 DEF RecordTrue
<1>7. my'[r] = M
  BY <1>1 DEF BInv, TypeOK
<1>8. owner = r => /\ Cardinality(Allowed(M)) <= M.started
                   /\ Cardinality(Charges(Allowed(M))) <= M.cost
  <2> SUFFICES ASSUME owner = r
               PROVE  /\ Cardinality(Allowed(M)) <= M.started
                      /\ Cardinality(Charges(Allowed(M))) <= M.cost
    OBVIOUS
  <2> DEFINE A == Allowed(rec)
  <2>1. Allowed(my[r]) = A /\ my[r].started = rec.started /\ my[r].cost = rec.cost
    BY <1>1 DEF BInv, RunInv, Copy, Working
  <2>2. Cardinality(A) <= rec.started /\ Cardinality(Charges(A)) <= rec.cost
    BY DEF BInv, StoredInv
  <2>3. A \in SUBSET BatchJobs
    BY DEF Allowed
  <2>4. Cardinality(A) \in Nat /\ Cardinality(Charges(A)) \in Nat
    BY <2>3, FiniteJobs, FS_CardinalityType
  <2> HIDE DEF A
  <2>5. /\ Cardinality(A \cup {j}) <= Cardinality(A) + 1
        /\ Cardinality(Charges(A \cup {j})) <= Cardinality(Charges(A)) + Cost[j[1]]
    BY <1>4, <2>3, OneMoreCharge
  <2>6. j[1] = at[r] /\ Cost[at[r]] \in Nat /\ rec.started \in Nat /\ rec.cost \in Nat
    BY <1>1, BatchAssumption DEF BInv, TypeOK, Record
  <2>7. Cardinality(A \cup {j}) \in Nat /\ Cardinality(Charges(A \cup {j})) \in Nat
    <3>1. A \cup {j} \in SUBSET BatchJobs
      BY <1>4, <2>3
    <3> QED BY <3>1, FiniteJobs, FS_CardinalityType
  <2> HIDE DEF j
  <2>8. Cardinality(A \cup {j}) <= rec.started + 1
    BY <2>2, <2>4, <2>5, <2>6, <2>7
  <2>9. Cardinality(Charges(A \cup {j})) <= rec.cost + Cost[at[r]]
    BY <2>2, <2>4, <2>5, <2>6, <2>7
  <2> QED BY <1>4, <2>1, <2>8, <2>9
<1>9. ~Won(M.step[at[r]])
  BY <1>5 DEF Won
<1>10. Allowed(my[r]) \subseteq Allowed(M) /\ at' \in [Runs -> 1..(NSteps + 1)]
  BY <1>1, <1>4 DEF BInv, TypeOK
<1> QED BY <1>1, <1>4, <1>5, <1>6, <1>7, <1>8, <1>9, <1>10, SaveKeeps DEF Working

\* What the stored record says of its budget, the owner's copy says too.
LEMMA OwnersBudget ==
  ASSUME BInv, NEW r \in Runs, owner = r, pc[r] \in Working, NEW record,
         Allowed(record) = Allowed(my[r]), record.started = my[r].started, record.cost = my[r].cost
  PROVE  /\ Cardinality(Allowed(record)) <= record.started
         /\ Cardinality(Charges(Allowed(record))) <= record.cost
BY DEF BInv, StoredInv, RunInv, Copy

LEMMA SaveRunningKeeps ==
  ASSUME BInv, NEW r \in Runs, SaveRunning(r)
  PROVE  BInv'
<1> DEFINE M == WithStatus(my[r], "running")
<1>1. /\ pc[r] = "claimed" /\ UNCHANGED <<phase, cancel, at, retry, lost>>
      /\ my' = [my EXCEPT ![r] = M] /\ Save(r, my'[r], "head")
  BY DEF SaveRunning
<1>2. my[r] \in Record /\ RecordTrue(phase, my[r])
  BY DEF BInv, RunInv, TypeOK
<1>3. M \in Record /\ Allowed(M) = Allowed(my[r]) /\ M.started = my[r].started /\ M.cost = my[r].cost
  BY <1>2, WithStatusIs
<1>4. RecordTrue(phase, M)
  BY <1>2, RecordTrueWithStatus
<1> HIDE DEF M
<1>5. my'[r] = M /\ at' \in [Runs -> 1..(NSteps + 1)]
  BY <1>1 DEF BInv, TypeOK
<1> QED BY <1>1, <1>3, <1>4, <1>5, OwnersBudget, SaveKeeps DEF Working

LEMMA SaveStartedKeeps ==
  ASSUME BInv, NEW r \in Runs, SaveStarted(r)
  PROVE  BInv'
<1> DEFINE step == [Here(r) EXCEPT !.status = "running"]
           M == WithStep(my[r], at[r], step)
<1>1. /\ pc[r] = "start" /\ at[r] \in Steps /\ Here(r).job # NoAttempt
      /\ UNCHANGED <<phase, cancel, at, retry, lost>>
      /\ my' = [my EXCEPT ![r] = M] /\ Save(r, my'[r], "execute")
  BY DEF SaveStarted, BInv, RunInv, Place, WithJob
<1>2. my[r] \in Record /\ Here(r) \in Step /\ StepTrue(phase, at[r], Here(r)) /\ RecordTrue(phase, my[r])
  BY <1>1, HereIs
<1>3. step \in Step /\ StepTrue(phase, at[r], step) /\ Allowance(step) = Allowance(Here(r))
  BY <1>2 DEF Step, StepTrue, Allowance
<1>4. step.job = Here(r).job /\ ~Won(step)
  BY <1>2 DEF Step, Won, Useful
<1> HIDE DEF step
<1>5. /\ M \in Record /\ M.step[at[r]] = step /\ Allowed(M) = Allowed(my[r])
      /\ M.started = my[r].started /\ M.cost = my[r].cost
  BY <1>1, <1>2, <1>3, WithStepIs DEF Here
<1>6. RecordTrue(phase, M)
  BY <1>1, <1>2, <1>3, RecordTrueWithStep
<1> HIDE DEF M
<1>7. my'[r] = M /\ at' \in [Runs -> 1..(NSteps + 1)]
  BY <1>1 DEF BInv, TypeOK
<1> QED BY <1>1, <1>4, <1>5, <1>6, <1>7, OwnersBudget, SaveKeeps DEF Working

LEMMA SaveResultKeeps ==
  ASSUME BInv, NEW r \in Runs, SaveResult(r)
  PROVE  BInv'
<1>1. /\ pc[r] = "record" /\ at[r] \in Steps /\ at' = [at EXCEPT ![r] = @ + 1]
      /\ UNCHANGED <<phase, cancel, my, retry, lost>> /\ Save(r, my[r], "head")
  BY DEF SaveResult, BInv, RunInv, Place, WithJob
<1>2. my[r] \in Record /\ RecordTrue(phase, my[r]) /\ my' = [my EXCEPT ![r] = my[r]]
  BY <1>1 DEF BInv, RunInv, TypeOK
<1>3. at' \in [Runs -> 1..(NSteps + 1)] /\ \A q \in Runs \ {r} : at'[q] = at[q]
  BY <1>1, NextAt DEF BInv, TypeOK
<1> QED BY <1>1, <1>2, <1>3, OwnersBudget, SaveKeeps DEF Working

LEMMA SaveFinalKeeps ==
  ASSUME BInv, NEW r \in Runs, SaveFinal(r)
  PROVE  BInv'
<1> DEFINE M == WithStatus(my[r], FinalStatus(my[r]))
<1>1. /\ pc[r] = "finish" /\ UNCHANGED <<phase, cancel, at, retry, lost>>
      /\ my' = [my EXCEPT ![r] = M] /\ Save(r, my'[r], "releasing")
  BY DEF SaveFinal
<1>2. my[r] \in Record /\ RecordTrue(phase, my[r])
  BY DEF BInv, RunInv, TypeOK
<1>3. FinalStatus(my[r]) \in {"queued", "running", "cancelled", "waiting_for_job", "budget_exhausted",
                              "interrupted", "completed", "partial"}
  BY <1>2 DEF FinalStatus, Record
<1>4. FinalStatus(my[r]) = "completed" => \A s \in Steps : \E n \in Attempts : phase[<<s, n>>] = "completed"
  <2>1. CASE my[r].status # "running"
    BY <1>2, <2>1 DEF FinalStatus, RecordTrue
  <2>2. CASE my[r].status = "running" /\ FinalStatus(my[r]) = "completed"
    <3> SUFFICES ASSUME NEW s \in Steps PROVE \E n \in Attempts : phase[<<s, n>>] = "completed"
      OBVIOUS
    <3>1. my[r].step[s].status = "completed"
      BY <2>2 DEF FinalStatus
    <3>2. my[r].step[s] \in Step /\ StepTrue(phase, s, my[r].step[s])
      BY <1>2 DEF RecordTrue, Record
    <3>3. \A n \in 1..my[r].step[s].attempt : n \in Attempts
      BY <3>2 DEF Step, Attempts, MaxAttempts, NoAttempt
    <3> QED BY <3>1, <3>2, <3>3 DEF StepTrue
  <2> QED BY <2>1, <2>2
<1>5. M \in Record /\ Allowed(M) = Allowed(my[r]) /\ M.started = my[r].started /\ M.cost = my[r].cost
  BY <1>2, <1>3, WithStatusIs
<1>6. RecordTrue(phase, M)
  BY <1>2, <1>3, <1>4, RecordTrueWithStatus
<1> HIDE DEF M
<1>7. my'[r] = M /\ at' \in [Runs -> 1..(NSteps + 1)]
  BY <1>1 DEF BInv, TypeOK
<1> QED BY <1>1, <1>5, <1>6, <1>7, OwnersBudget, SaveKeeps DEF Working

LEMMA SaveInterruptedKeeps ==
  ASSUME BInv, NEW r \in Runs, SaveInterrupted(r)
  PROVE  BInv'
<1> DEFINE M == WithStatus(my[r], "interrupted")
<1>1. /\ pc[r] = "failing" /\ rec' = (IF owner = r THEN M ELSE rec)
      /\ UNCHANGED <<phase, owner, cancel, my, at, retry, lost>>
  BY DEF SaveInterrupted
<1>2. my[r] \in Record /\ RecordTrue(phase, my[r])
  BY DEF BInv, RunInv, TypeOK
<1>3. M \in Record /\ Allowed(M) = Allowed(my[r]) /\ M.started = my[r].started /\ M.cost = my[r].cost
  BY <1>2, WithStatusIs
<1>4. RecordTrue(phase, M)
  BY <1>2, RecordTrueWithStatus
<1> HIDE DEF M
<1>5. pc'[r] = "releasing" /\ \A q \in Runs \ {r} : pc'[q] = pc[q]
  BY DEF SaveInterrupted, Goto, BInv, TypeOK
<1>6. TypeOK'
  <2>1. pc' \in [Runs -> PCs] /\ expired' \in BOOLEAN
    BY DEF SaveInterrupted, Goto, BInv, TypeOK, PCs
  <2> QED BY <1>1, <1>3, <2>1 DEF BInv, TypeOK
<1>7. RunInv(r)'
  BY <1>1, <1>2, <1>5 DEF RunInv, Place, Copy, WithJob, WithoutJob, Working, RecordTrue,
     StepTrue, Over
<1>8. CASE owner = r
  <2>1. Allowed(rec) = Allowed(M) /\ rec' = M /\ M.started = rec.started /\ M.cost = rec.cost
    BY <1>1, <1>3, <1>8 DEF BInv, RunInv, Copy
  <2>2. StoredInv'
    BY <1>1, <1>4, <2>1 DEF BInv, StoredInv, Submitted, RecordTrue, StepTrue, Over, Allowed,
       Charges
  <2>3. Later(phase, phase') /\ Submitted' = Submitted
    BY <1>1 DEF Later, Submitted
  <2>4. JobsInv'
    BY <2>3, JobsStay DEF BInv
  <2>5. Allowed(rec) \subseteq Allowed(rec')
    BY <2>1
  <2> QED BY <1>1, <1>5, <1>6, <1>7, <1>8, <2>2, <2>3, <2>4, <2>5, RunSteps
<1>9. CASE owner # r
  BY <1>1, <1>5, <1>6, <1>7, <1>9, LocalStep
<1> QED BY <1>8, <1>9

-----------------------------------------------------------------------------
(* Owning the batch, and losing it. *)

\* The claim loads the record: the copy of the run, whatever it had, is true
\* because the stored one is.
LEMMA ClaimKeeps ==
  ASSUME BInv, NEW r \in Runs, NEW retries \in BOOLEAN, NEW resets \in BOOLEAN, Claim(r, retries, resets)
  PROVE  BInv'
<1>1. /\ pc[r] = "idle" /\ owner' = r /\ expired' = FALSE /\ cancel' = (cancel /\ ~resets)
      /\ my' = [my EXCEPT ![r] = rec] /\ retry' = [retry EXCEPT ![r] = retries] /\ Goto(r, "claimed")
      /\ UNCHANGED <<phase, rec, at, lost>>
  BY DEF Claim
<1>2. /\ my'[r] = rec /\ pc'[r] = "claimed"
      /\ \A q \in Runs \ {r} : my'[q] = my[q] /\ pc'[q] = pc[q]
  BY <1>1 DEF Goto, BInv, TypeOK
<1>3. TypeOK'
  <2>1. cancel' \in BOOLEAN
    BY <1>1 DEF BInv, TypeOK
  <2>2. my' \in [Runs -> Record] /\ pc' \in [Runs -> PCs] /\ retry' \in [Runs -> BOOLEAN]
    BY <1>1 DEF BInv, TypeOK, Goto, PCs, Working
  <2> QED BY <1>1, <2>1, <2>2 DEF BInv, TypeOK
<1>4. Later(phase, phase') /\ Submitted' = Submitted
  BY <1>1 DEF Later, Submitted
<1>5. StoredInv' /\ JobsInv'
  BY <1>1, <1>4, StoredStays, JobsStay DEF BInv, StoredInv, TypeOK
<1>6. RecordTrue(phase, my[r])'
  BY <1>1, <1>2 DEF BInv, StoredInv, RecordTrue, StepTrue, Over
<1>7. Place(r)' /\ Copy(r)'
  BY <1>1, <1>2 DEF Place, Copy, WithJob, WithoutJob, Allowed
<1> QED BY <1>1, <1>2, <1>3, <1>4, <1>5, <1>6, <1>7, RunSteps DEF RunInv

\* A new record, or one whose run is over, says nothing of the jobs.
LEMMA NewIsTrue ==
  ASSUME NEW ph
  PROVE  NewRecord \in Record /\ RecordTrue(ph, NewRecord) /\ Allowed(NewRecord) = {}
<1>1. NewStep \in Step
  BY DEF NewStep, Step
<1>2. NewRecord \in Record
  <2>1. 0 \in 0..MaxJobs /\ 0 \in 0..MaxCost
    BY BatchAssumption
  <2> QED BY <1>1, <2>1 DEF NewRecord, Record
<1>3. \A s \in Steps : NewRecord.step[s] = NewStep
  BY DEF NewRecord
<1>4. RecordTrue(ph, NewRecord)
  <2>1. \A s \in Steps : StepTrue(ph, s, NewStep)
    BY DEF StepTrue, NewStep, NoAttempt, MaxAttempts
  <2> QED BY <1>3, <2>1 DEF RecordTrue, NewRecord
<1>5. Allowance(NewStep) = 0
  BY DEF Allowance, NewStep, NoAttempt
<1>6. Allowed(NewRecord) = {}
  BY <1>3, <1>5 DEF Allowed, BatchJobs, Attempts, MaxAttempts
<1> QED BY <1>2, <1>4, <1>6

LEMMA ForgetKeeps ==
  ASSUME BInv, NEW r \in Runs, Release(r) \/ Crash(r)
  PROVE  BInv'
<1>1. /\ Forget(r) /\ UNCHANGED <<phase, rec, cancel>> /\ owner' \in {owner, NoRun} /\ expired' \in BOOLEAN
  BY DEF Release, Crash, BInv, TypeOK, row
<1>2. /\ my'[r] = NewRecord /\ pc'[r] = "done"
      /\ \A q \in Runs \ {r} : my'[q] = my[q] /\ at'[q] = at[q] /\ pc'[q] = pc[q]
  BY <1>1 DEF Forget, Goto, BInv, TypeOK
<1>3. TypeOK'
  <2>1. my' \in [Runs -> Record] /\ pc' \in [Runs -> PCs] /\ retry' \in [Runs -> BOOLEAN] /\ lost' \in [Runs -> BOOLEAN]
    BY <1>1, NewIsTrue DEF Forget, Goto, BInv, TypeOK, PCs
  <2>2. 1 \in 1..(NSteps + 1)
    BY BatchAssumption
  <2>3. at' \in [Runs -> 1..(NSteps + 1)]
    BY <1>1, <2>2 DEF Forget, BInv, TypeOK
  <2> QED BY <1>1, <2>1, <2>3 DEF BInv, TypeOK
<1>4. Later(phase, phase') /\ Submitted' = Submitted
  BY <1>1 DEF Later, Submitted
<1>5. StoredInv' /\ JobsInv'
  BY <1>1, <1>4, StoredStays, JobsStay DEF BInv, StoredInv, TypeOK
<1>6. RunInv(r)'
  BY <1>2, NewIsTrue DEF RunInv, Place, Copy, WithJob, WithoutJob, Working
<1>7. \A q \in Runs \ {r} : owner' = q => owner = q /\ rec' = rec
  BY <1>1, BatchAssumption
<1> QED BY <1>1, <1>2, <1>3, <1>4, <1>5, <1>6, <1>7, RunSteps

\* Deadlines, heartbeats and the cancel flag are of no record and no job.
LEMMA AsideKeeps ==
  ASSUME BInv, UNCHANGED <<phase, rec, owner, pc, my, at>>, TypeOK'
  PROVE  BInv'
<1>1. Later(phase, phase') /\ Submitted' = Submitted
  BY DEF Later, Submitted
<1>2. StoredInv' /\ JobsInv'
  BY <1>1, StoredStays, JobsStay DEF BInv, StoredInv, TypeOK
<1>3. \A q \in Runs : RunInv(q)'
  BY <1>1, OthersStay DEF BInv
<1> QED BY <1>2, <1>3 DEF BInv

-----------------------------------------------------------------------------
(* The invariant, and what it says. *)

LEMMA InitHolds ==
  ASSUME Init
  PROVE  BInv
<1>1. NewRecord \in Record /\ RecordTrue(phase, NewRecord) /\ Allowed(NewRecord) = {}
  BY NewIsTrue
<1>2. TypeOK
  <2>1. 1 \in 1..(NSteps + 1)
    BY BatchAssumption
  <2> QED BY <1>1, <2>1 DEF Init, TypeOK, Life!Phases, PCs
<1>3. Submitted = {}
  BY DEF Init, Submitted
<1>4. StoredInv
  <2>1. Cardinality({}) = 0 /\ Charges({}) = {}
    BY FS_EmptySet DEF Charges
  <2>2. NewRecord.started = 0 /\ NewRecord.cost = 0
    BY DEF NewRecord
  <2> QED BY <1>1, <1>3, <2>1, <2>2 DEF Init, StoredInv
<1>5. JobsInv
  <2>1. RetryAfterSettled
    BY DEF Init, RetryAfterSettled, BatchJobs, Attempts, MaxAttempts
  <2> QED BY <1>3, <2>1 DEF JobsInv, DependenciesFirst
<1>6. \A r \in Runs : RunInv(r)
  BY <1>1 DEF Init, RunInv, Place, Copy, WithJob, WithoutJob, Working
<1> QED BY <1>2, <1>4, <1>5, <1>6 DEF BInv

LEMMA RunStepKeeps ==
  ASSUME BInv, NEW r \in Runs, RunStep(r)
  PROVE  BInv'
<1>1. CASE SaveRunning(r) \/ SaveStarted(r) \/ SaveResult(r) \/ SaveFinal(r) \/ SaveInterrupted(r)
  BY <1>1, SaveRunningKeeps, SaveStartedKeeps, SaveResultKeeps, SaveFinalKeeps,
     SaveInterruptedKeeps
<1>2. CASE HeadStops(r) \/ HeadSkips(r) \/ HeadBlocks(r) \/ HeadEnters(r) \/ HeadEnds(r)
  BY <1>2, HeadStopsKeeps, HeadSkipsKeeps, HeadBlocksKeeps, HeadEntersKeeps, MovesKeep
<1>3. CASE Inspect(r) \/ (\E S \in SUBSET BatchJobs : Recover(r, S)) \/ Reinspect(r)
  BY <1>3, InspectKeeps, RecoverKeeps, ReinspectKeeps
<1>4. CASE PlanExhausted(r) \/ PlanReserves(r) \/ PlanReuses(r) \/ Prepare(r)
  BY <1>4, PlansKeep, PlanReservesKeeps, PrepareKeeps
<1>5. CASE \/ ExecuteReads(r) \/ ExecuteClaims(r) \/ ExecuteRefused(r)
           \/ (\E o \in Outcomes : BackendPublishes(r, o)) \/ BackendFenced(r)
  BY <1>5, ExecuteReadsKeeps, ExecuteClaimsKeeps, MovesKeep, BackendPublishesKeeps
<1>6. CASE Release(r)
  BY <1>6, ForgetKeeps
<1> QED BY <1>1, <1>2, <1>3, <1>4, <1>5, <1>6 DEF RunStep

LEMMA NextKeeps ==
  ASSUME BInv, [Next]_vars
  PROVE  BInv'
<1>1. CASE \E r \in Runs : RunStep(r) \/ ClaimRefused(r) \/ Throw(r) \/ Crash(r)
  BY <1>1, RunStepKeeps, MovesKeep, ForgetKeeps
<1>2. CASE \E r \in Runs : \E retries, resets \in BOOLEAN : Claim(r, retries, resets)
  BY <1>2, ClaimKeeps
<1>3. CASE \E r \in Runs : Heartbeat(r) \/ HeartbeatThrows(r)
  <2>1. UNCHANGED <<phase, rec, owner, pc, my, at>>
    BY <1>3 DEF Heartbeat, HeartbeatThrows, row
  <2>2. TypeOK'
    BY <1>3 DEF Heartbeat, HeartbeatThrows, row, BInv, TypeOK
  <2> QED BY <2>1, <2>2, AsideKeeps
<1>4. CASE Expire \/ Cancel
  <2>1. UNCHANGED <<phase, rec, owner, pc, my, at>>
    BY <1>4 DEF Expire, Cancel, local
  <2>2. TypeOK'
    BY <1>4 DEF Expire, Cancel, local, BInv, TypeOK
  <2> QED BY <2>1, <2>2, AsideKeeps
<1>5. CASE \E S \in SUBSET BatchJobs : RecoverElsewhere(S)
  BY <1>5, RecoverElsewhereKeeps
<1>6. CASE UNCHANGED vars
  <2>1. UNCHANGED <<phase, rec, owner, pc, my, at>> /\ TypeOK'
    BY <1>6 DEF vars, row, local, BInv, TypeOK
  <2> QED BY <2>1, AsideKeeps
<1> QED BY <1>1, <1>2, <1>3, <1>4, <1>5, <1>6 DEF Next

\* Every step of a batch, of its runs and of those around them keeps the
\* invariant: copies of the record are true of the jobs, and reservations
\* cover them (workbench_batch.cpp, run_batch).
THEOREM BatchInvariant == Spec => []BInv
<1>1. Init => BInv
  BY InitHolds
<1>2. BInv /\ [Next]_vars => BInv'
  BY NextKeeps
<1> QED BY <1>1, <1>2, PTL DEF Spec

\* Values keep their types, and what the record counts stays in its budget.
THEOREM BatchTypes == Spec => []TypeOK
<1>1. BInv => TypeOK
  BY DEF BInv
<1> QED BY <1>1, BatchInvariant, PTL

\* The budget covers the jobs: an attempt is reserved and charged before its
\* job exists, and a reservation that survived a crash is used once.
THEOREM BudgetBoundsJobs == Spec => []BudgetCoversJobs
<1>1. ASSUME BInv PROVE BudgetCoversJobs
  <2> DEFINE A == Allowed(rec)
  <2>1. /\ Submitted \subseteq A /\ A \in SUBSET BatchJobs
        /\ Cardinality(A) <= rec.started /\ Cardinality(Charges(A)) <= rec.cost
    BY <1>1 DEF BInv, StoredInv, Allowed
  <2>2. Submitted \in SUBSET BatchJobs /\ Charges(Submitted) \subseteq Charges(A)
    BY <2>1 DEF Charges
  <2>3. IsFiniteSet(A) /\ IsFiniteSet(Charges(A)) /\ IsFiniteSet(Submitted) /\ IsFiniteSet(Charges(Submitted))
    BY <2>1, <2>2, FiniteJobs
  <2> HIDE DEF A
  <2>4. Cardinality(Submitted) <= Cardinality(A) /\ Cardinality(Charges(Submitted)) <= Cardinality(Charges(A))
    BY <2>1, <2>2, <2>3, FS_Subset
  <2>5. /\ Cardinality(A) \in Nat /\ Cardinality(Charges(A)) \in Nat
        /\ Cardinality(Submitted) \in Nat /\ Cardinality(Charges(Submitted)) \in Nat
    BY <2>3, FS_CardinalityType
  <2>6. rec.started \in Nat /\ rec.cost \in Nat
    BY <1>1, BatchAssumption DEF BInv, TypeOK, Record
  <2> QED BY <2>1, <2>4, <2>5, <2>6 DEF BudgetCoversJobs
<1> QED BY <1>1, BatchInvariant, PTL

\* Nobody retries a step while a job of it is active, whoever owned the batch.
THEOREM RetriesWait == Spec => []RetryAfterSettled
<1>1. BInv => RetryAfterSettled
  BY DEF BInv, JobsInv
<1> QED BY <1>1, BatchInvariant, PTL

\* A job exists only after jobs of the steps it depends on succeeded.
THEOREM DependenciesComeFirst == Spec => []DependenciesFirst
<1>1. BInv => DependenciesFirst
  BY DEF BInv, JobsInv
<1> QED BY <1>1, BatchInvariant, PTL

\* What the record says of a step is the status of one of its jobs, though
\* stale owners and crashes come between a result and its record.
THEOREM RecordsAreTrue == Spec => []RecordIsTrue
<1>1. BInv => RecordIsTrue
  BY DEF BInv, StoredInv, RecordIsTrue, RecordTrue, StepTrue
<1> QED BY <1>1, BatchInvariant, PTL

-----------------------------------------------------------------------------
(* A success that is stored stays. *)

\* Only the owner writes the record, and its copy has every success as it is
\* stored and is never at a step that has one.
LEMMA WonStays ==
  ASSUME BInv, Next, NEW s \in Steps, Won(rec.step[s])
  PROVE  rec'.step[s] = rec.step[s]
<1>1. CASE UNCHANGED rec
  BY <1>1
<1>2. ASSUME NEW r \in Runs, owner = r, pc[r] \in Working \cup {"failing"}
      PROVE  /\ my[r].step[s] = rec.step[s] /\ my[r] \in Record
             /\ pc[r] \in WithJob \cup WithoutJob => s # at[r] /\ at[r] \in Steps
  BY <1>2 DEF BInv, RunInv, Copy, Place, TypeOK
<1>3. ASSUME NEW r \in Runs, SaveRunning(r) \/ SaveFinal(r) \/ SaveInterrupted(r), owner = r
      PROVE  rec'.step[s] = rec.step[s]
  <2>1. PICK status : rec' = WithStatus(my[r], status)
    BY <1>3 DEF SaveRunning, SaveFinal, SaveInterrupted, Save, BInv, TypeOK
  <2>2. pc[r] \in Working \cup {"failing"}
    BY <1>3 DEF SaveRunning, SaveFinal, SaveInterrupted, Working
  <2> QED BY <1>2, <1>3, <2>1, <2>2 DEF WithStatus, Record
<1>4. ASSUME NEW r \in Runs, SaveResult(r), owner = r
      PROVE  rec'.step[s] = rec.step[s]
  BY <1>2, <1>4 DEF SaveResult, Save, Working
<1>5. ASSUME NEW r \in Runs, SaveStarted(r), owner = r
      PROVE  rec'.step[s] = rec.step[s]
  <2>1. rec' = WithStep(my[r], at[r], [Here(r) EXCEPT !.status = "running"]) /\ pc[r] = "start"
    BY <1>5 DEF SaveStarted, Save, BInv, TypeOK
  <2> QED BY <1>2, <1>5, <2>1 DEF WithStep, Record, Working, WithJob
<1>6. ASSUME NEW r \in Runs, PlanReserves(r), owner = r
      PROVE  rec'.step[s] = rec.step[s]
  <2>1. rec' = Reserved(my[r], at[r]) /\ pc[r] = "plan"
    BY <1>6 DEF PlanReserves, Save, BInv, TypeOK
  <2> QED BY <1>2, <1>6, <2>1 DEF Reserved, Record, Working, WithoutJob
<1>7. \/ UNCHANGED rec
      \/ \E r \in Runs :
           /\ owner = r
           /\ \/ SaveRunning(r) \/ SaveFinal(r) \/ SaveInterrupted(r)
              \/ SaveResult(r) \/ SaveStarted(r) \/ PlanReserves(r)
  <2>1. CASE \E r \in Runs : SaveRunning(r) \/ SaveFinal(r) \/ SaveInterrupted(r)
                             \/ SaveResult(r) \/ SaveStarted(r) \/ PlanReserves(r)
    BY <2>1 DEF SaveRunning, SaveFinal, SaveInterrupted, SaveResult, SaveStarted, PlanReserves,
       Save
  <2>2. CASE \E r \in Runs :
               HeadStops(r) \/ HeadSkips(r) \/ HeadBlocks(r) \/ HeadEnters(r) \/ HeadEnds(r)
               \/ Inspect(r) \/ (\E S \in SUBSET BatchJobs : Recover(r, S)) \/ Reinspect(r)
               \/ PlanExhausted(r) \/ PlanReuses(r) \/ Prepare(r)
    BY <2>2 DEF HeadStops, HeadSkips, HeadBlocks, HeadEnters, HeadEnds, Inspect, Recover,
       Reinspect, PlanExhausted, PlanReuses, Prepare, row
  <2>3. CASE \E r \in Runs :
               ExecuteReads(r) \/ ExecuteClaims(r) \/ ExecuteRefused(r)
               \/ (\E o \in Outcomes : BackendPublishes(r, o)) \/ BackendFenced(r)
               \/ Release(r) \/ ClaimRefused(r) \/ Heartbeat(r) \/ HeartbeatThrows(r)
               \/ Throw(r) \/ Crash(r) \/ \E retries, resets \in BOOLEAN : Claim(r, retries, resets)
    BY <2>3 DEF ExecuteReads, ExecuteClaims, ExecuteRefused, BackendPublishes, BackendFenced,
       Release, ClaimRefused, Heartbeat, HeartbeatThrows, Throw, Crash, Claim, row
  <2>4. CASE Expire \/ Cancel \/ \E S \in SUBSET BatchJobs : RecoverElsewhere(S)
    BY <2>4 DEF Expire, Cancel, RecoverElsewhere, row
  <2> QED BY <2>1, <2>2, <2>3, <2>4 DEF Next, RunStep
<1> QED BY <1>1, <1>3, <1>4, <1>5, <1>6, <1>7

\* A run prepares only a job the stored record allows, and the record allows no
\* job to come at a step that succeeded.
LEMMA WonGetsNoJob ==
  ASSUME BInv, Next, NEW s \in Steps, Won(rec.step[s]), NEW n \in Attempts, phase[<<s, n>>] = "absent"
  PROVE  phase'[<<s, n>>] = "absent"
<1>0. <<s, n>> \in BatchJobs
  BY DEF BatchJobs
<1>1. CASE UNCHANGED phase
  BY <1>1
<1>2. CASE \E S \in SUBSET BatchJobs : Life!Interrupt(S)
  BY <1>0, <1>2 DEF Life!Interrupt
<1>3. CASE \E r \in Runs : ExecuteClaims(r) \/ \E o \in Outcomes : BackendPublishes(r, o)
  BY <1>0, <1>3 DEF ExecuteClaims, BackendPublishes, Life!Start, Life!Publish, BInv, TypeOK
<1>4. ASSUME NEW r \in Runs, Prepare(r)
      PROVE  phase'[<<s, n>>] = "absent"
  <2> DEFINE j == <<at[r], Here(r).attempt + 1>>
  <2>1. /\ pc[r] = "prepare" /\ at[r] \in Steps /\ Here(r).job = NoAttempt /\ Here(r).reserved
        /\ phase' = phase \/ Life!Submit(j)
    BY <1>4 DEF Prepare, BInv, RunInv, Place, WithoutJob
  <2>2. Here(r) \in Step /\ StepTrue(phase, at[r], Here(r))
    BY <2>1, HereIs
  <2>3. j \in BatchJobs /\ j \in Allowed(my[r])
    BY <2>1, <2>2 DEF StepTrue, Step, Attempts, MaxAttempts, NoAttempt, BatchJobs, Allowed,
       Allowance, Here
  <2>4. j \in Allowed(rec)
    BY <2>1, <2>3 DEF BInv, RunInv, Copy, Working
  <2>5. CASE j = <<s, n>>
    <3>1. n \in 1..rec.step[s].attempt
      BY <2>4, <2>5 DEF Allowed, Allowance, Won, Attempts, BInv, TypeOK, Record, Step, NoAttempt
    <3>2. StepTrue(phase, s, rec.step[s])
      BY DEF BInv, StoredInv, RecordTrue
    <3> QED BY <3>1, <3>2 DEF StepTrue
  <2>6. CASE j # <<s, n>>
    BY <1>0, <2>1, <2>3, <2>6 DEF Life!Submit, BInv, TypeOK
  <2> QED BY <2>5, <2>6
<1>5. CASE \E r \in Runs :
             HeadStops(r) \/ HeadSkips(r) \/ HeadBlocks(r) \/ HeadEnters(r) \/ HeadEnds(r)
             \/ Inspect(r) \/ (\E S \in SUBSET BatchJobs : Recover(r, S)) \/ Reinspect(r)
             \/ PlanExhausted(r) \/ PlanReserves(r) \/ PlanReuses(r) \/ SaveStarted(r)
  BY <1>1, <1>2, <1>5 DEF HeadStops, HeadSkips, HeadBlocks, HeadEnters, HeadEnds, Inspect,
     Recover, Reinspect, PlanExhausted, PlanReserves, PlanReuses, SaveStarted
<1>6. CASE \E r \in Runs :
             SaveRunning(r) \/ SaveResult(r) \/ SaveFinal(r) \/ SaveInterrupted(r)
             \/ ExecuteReads(r) \/ ExecuteRefused(r) \/ BackendFenced(r)
             \/ Release(r) \/ ClaimRefused(r) \/ Heartbeat(r) \/ HeartbeatThrows(r)
             \/ Throw(r) \/ Crash(r) \/ \E retries, resets \in BOOLEAN : Claim(r, retries, resets)
  BY <1>1, <1>6 DEF SaveRunning, SaveResult, SaveFinal, SaveInterrupted, ExecuteReads,
     ExecuteRefused, BackendFenced, Release, ClaimRefused, Heartbeat, HeartbeatThrows, Throw,
     Crash, Claim
<1>7. CASE Expire \/ Cancel \/ \E S \in SUBSET BatchJobs : RecoverElsewhere(S)
  BY <1>1, <1>2, <1>7 DEF Expire, Cancel, RecoverElsewhere
<1> QED BY <1>3, <1>4, <1>5, <1>6, <1>7 DEF Next, RunStep

\* A success that reached the record stays there, and its step gets no other
\* job: stale owners cannot save, and plan no more than is stored.
THEOREM SuccessStays == Spec => RecordedSuccessSticks
<1> DEFINE Sticks == \A s \in Steps :
                       rec.step[s].status \in Useful /\ ~rec.step[s].reserved =>
                         /\ rec'.step[s] = rec.step[s]
                         /\ \A n \in Attempts : phase[<<s, n>>] = "absent" => phase'[<<s, n>>] = "absent"
<1>1. BInv /\ [Next]_vars => [Sticks]_vars
  <2> SUFFICES ASSUME BInv, Next PROVE Sticks
    OBVIOUS
  <2> QED BY WonStays, WonGetsNoJob DEF Won
<1> QED BY <1>1, BatchInvariant, PTL DEF Spec, RecordedSuccessSticks
=============================================================================
