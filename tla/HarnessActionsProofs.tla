------------------------ MODULE HarnessActionsProofs ------------------------
(***************************************************************************)
(* What the harness says of a mutation is true of the knowledge store, and *)
(* no mutation is dispatched twice: for any number of runs and actions,    *)
(* however the runs stall, die and take each other's actions over.  The    *)
(* invariant says why: of all the runs that hold a copy of a mutation's    *)
(* record, only the one its row names may write the record, and the copy   *)
(* of that run knows of every dispatch.                                    *)
(***************************************************************************)
EXTENDS HarnessActions, TLAPS

ReadLabels == {"prepare", "savejob", "execute", "claimjob", "backend"}
MutationLabels == {"dispatch", "spawn", "waiting", "recover"}
Alive == {"started", "working", "published"}

(* A run is where the kind of its action takes it, and a child lives on    *)
(* only while its run waits for it or is gone.                             *)
RunsInPlace ==
  \A r \in Runs :
    /\ pc[r] # "idle" => at[r] \in Actions
    /\ pc[r] \in ReadLabels => at[r] \in Reads
    /\ pc[r] \in MutationLabels => at[r] \in Mutations
    /\ child[r] \in Alive => pc[r] \in {"waiting", "done"} /\ at[r] \in Mutations

(* Who is named in an action's row took it, which left it unsettled, and   *)
(* the report is not written while anyone is named.                        *)
RunnersInPlace ==
  \A a \in Actions : runner[a] # NoRun =>
    /\ pc[runner[a]] # "idle" /\ at[runner[a]] = a
    /\ act[a].status \in Unsettled
    /\ inv # "finished"

(* A read has nothing to dispatch or publish, and a copy of its record     *)
(* that is written back holds no result.                                   *)
ReadsUndispatched ==
  /\ \A a \in Reads : ~act[a].dispatched /\ ~act[a].published
  /\ \A r \in Runs : at[r] \in Reads =>
       ~my[r].dispatched /\ ~my[r].published /\ my[r].result = None

(* What a run copied was so, and stays so.                                 *)
CopiesWereTrue ==
  /\ \A a \in Actions : act[a].published => act[a].dispatched
  /\ \A r \in Runs :
       /\ at[r] \in Actions => my[r].status = "running"
       /\ my[r].published => at[r] \in Actions /\ act[at[r]].published
       /\ my[r].dispatched \/ my[r].result = None

(* The run that a mutation's row names knows whether it was dispatched,    *)
(* and replaces a result only where it recovers a publication.             *)
RunnersKnow ==
  \A r \in Runs : at[r] \in Mutations /\ runner[at[r]] = r =>
    /\ act[at[r]].result # None => Recoverable(at[r])
    /\ ~my[r].dispatched => ~act[at[r]].dispatched
    /\ pc[r] = "dispatch" => ~my[r].dispatched
    /\ pc[r] = "settle" /\ outcome[r] # "published" /\ outcome[r] # "unknown" =>
         ~my[r].dispatched

(* A run settles a mutation with a publication that was committed, and a   *)
(* read with a status its job has.                                         *)
OutcomesAreTrue ==
  \A r \in Runs :
    /\ pc[r] = "settle" /\ at[r] \in Mutations =>
         /\ outcome[r] \in {"published", "unknown", "cancelled", "failed"}
         /\ outcome[r] = "published" => act[at[r]].published
    /\ pc[r] = "settle" /\ at[r] \in Reads /\ outcome[r] \in Useful =>
         phase[at[r]] = outcome[r]
    /\ pc[r] = "savejob" => seen[r] # "absent"
    /\ pc[r] = "savejob" /\ seen[r] \in Useful => phase[at[r]] = seen[r]

HInv ==
  /\ TypeOK
  /\ RunsInPlace
  /\ RunnersInPlace
  /\ ReadsUndispatched
  /\ CopiesWereTrue
  /\ RunnersKnow
  /\ OutcomesAreTrue
  /\ MutationResultIsTrue
  /\ ReadResultIsTheJobs

-----------------------------------------------------------------------------
(* The next-state relation, sorted by what a step can disturb. *)

(* Time and the owner: the deadlines, the lease and the investigation. *)
QuietStep ==
  \/ Finish \/ Cancel \/ ReleaseOwner \/ ClaimOwner \/ OwnerExpires
  \/ \E a \in Actions : RunnerExpires(a)
  \/ \E r \in Runs : Heartbeat(r)

(* Steps of one run that leave every table alone. *)
LocalStep(r) ==
  \/ (\E readable \in BOOLEAN : Catch(r, readable)) \/ Throw(r) \/ Abandon(r)
  \/ ExecuteReads(r) \/ ExecuteRefused(r) \/ BackendFenced(r)
  \/ Recover(r) \/ DispatchCancelled(r) \/ DispatchFails(r)
  \/ Spawn(r) \/ ChildEnters(r) \/ ChildEnds(r) \/ ParentReads(r)

(* Steps of one run that change only the job of its read. *)
JobStep(r) ==
  Prepare(r) \/ ExecuteClaims(r) \/ (\E o \in Outcomes : BackendPublishes(r, o))

LEMMA StepCases ==
  ASSUME Next
  PROVE  \/ QuietStep
         \/ \E a \in Actions : Propose(a)
         \/ \E S \in SUBSET Reads : RecoverJobs(S)
         \/ \E r \in Runs :
              \/ LocalStep(r) \/ JobStep(r)
              \/ \E a \in Actions : RunClaim(r, a)
              \/ Settle(r) \/ SaveJob(r) \/ Dispatch(r) \/ ChildPublishes(r)
BY Zenon DEF Next, OwnerStep, TimeStep, RunStep, ReadStep, MutationStep, QuietStep, LocalStep,
   JobStep

LEMMA QuietFrame ==
  ASSUME QuietStep
  PROVE  /\ UNCHANGED <<phase, act, runner, local>>
         /\ inv' = "finished" /\ inv # "finished" => ~AnyUnsettled
BY DEF QuietStep, Finish, Cancel, ReleaseOwner, ClaimOwner, OwnerExpires, RunnerExpires,
   Heartbeat, local

LEMMA LocalFrame ==
  ASSUME TypeOK, NEW r \in Runs, LocalStep(r)
  PROVE  /\ phase' = phase /\ act' = act /\ runner' = runner /\ inv' = inv /\ late' = late
         /\ leased' = leased /\ held' = held /\ at' = at /\ seen' = seen
         /\ \/ my' = my
            \/ pc[r] = "dispatch" /\ my' = [my EXCEPT ![r].dispatched = TRUE]
         /\ pc[r] = "dispatch" => pc'[r] # "spawn"
         /\ \A s \in Runs \ {r} :
              pc[s]' = pc[s] /\ my[s]' = my[s] /\ outcome[s]' = outcome[s] /\ child[s]' = child[s]
BY SMTT(30) DEF HInv, TypeOK, table, LocalStep, Catch, Decide, Goto, Throw, Abandon,
   ExecuteReads, ExecuteRefused, BackendFenced, Recover, DispatchCancelled, DispatchFails,
   Spawn, ChildEnters, ChildEnds, ParentReads

-----------------------------------------------------------------------------
(* Types. *)

LEMMA Records ==
  ASSUME NEW rec \in ActionRecord
  PROVE  /\ \A s \in Unsettled : [rec EXCEPT !.status = s] \in ActionRecord
         /\ \A o \in Results \cup {None} :
              [rec EXCEPT !.status = "settled", !.result = o] \in ActionRecord
         /\ [rec EXCEPT !.dispatched = TRUE] \in ActionRecord
         /\ [rec EXCEPT !.published = TRUE] \in ActionRecord
BY DEF ActionRecord

LEMMA HInvInit ==
  ASSUME Init PROVE HInv
<1>1. TypeOK
  <2>1. NewAction \in ActionRecord
    BY DEF NewAction, ActionRecord, Results
  <2> QED
    BY <2>1, HarnessAssumption DEF Init, TypeOK, Life!Phases, PCs, Working, Terminal, Results
<1>2. RunsInPlace /\ RunnersInPlace
  BY HarnessAssumption DEF Init, RunsInPlace, RunnersInPlace, ReadLabels, MutationLabels, Alive
<1>3. ReadsUndispatched /\ CopiesWereTrue
  BY HarnessAssumption DEF Init, ReadsUndispatched, CopiesWereTrue, NewAction, Actions
<1>4. RunnersKnow /\ OutcomesAreTrue
  BY HarnessAssumption DEF Init, RunnersKnow, OutcomesAreTrue, Actions
<1>5. MutationResultIsTrue /\ ReadResultIsTheJobs
  BY HarnessAssumption DEF Init, MutationResultIsTrue, ReadResultIsTheJobs, NewAction, Actions,
     Useful
<1> QED
  BY <1>1, <1>2, <1>3, <1>4, <1>5 DEF HInv

(* Every outcome a run decides on is one that its action may be given. *)
LEMMA OutcomesTyped ==
  ASSUME TypeOK, NEW r \in Runs, NEW o \in Results \cup {None, "waiting_for_job"}, Decide(r, o)
  PROVE  /\ outcome' \in [Runs -> Results \cup {None, "waiting_for_job"}]
         /\ pc' \in [Runs -> PCs]
BY DEF TypeOK, Decide, Goto, PCs

LEMMA TypeKept == ASSUME HInv, Next PROVE TypeOK'
<1>1. CASE QuietStep
  <2>1. /\ late' \in SUBSET Actions
        /\ inv' \in {"ready", "running", "waiting_for_job"} \cup Terminal
        /\ leased' \in BOOLEAN
        /\ held' \in SUBSET Runs
    <3>1. \A r \in Runs : Heartbeat(r) => late' \subseteq late /\ inv' = inv /\ leased' \in BOOLEAN /\ held' = held
      BY DEF Heartbeat, HInv, TypeOK
    <3>2. \A a \in Actions : RunnerExpires(a) => late' \in SUBSET Actions /\ UNCHANGED <<inv, leased, held>>
      BY DEF RunnerExpires, HInv, TypeOK
    <3>3. CASE Finish \/ Cancel \/ ReleaseOwner \/ ClaimOwner \/ OwnerExpires
      BY <3>3 DEF Finish, Cancel, ReleaseOwner, ClaimOwner, OwnerExpires, HInv, TypeOK, Terminal
    <3> QED
      BY <1>1, <3>1, <3>2, <3>3 DEF QuietStep, HInv, TypeOK
  <2> QED
    BY <1>1, <2>1, QuietFrame DEF HInv, TypeOK, local
<1>2. ASSUME NEW a \in Actions, Propose(a) PROVE TypeOK'
  <2>1. act' \in [Actions -> ActionRecord]
    BY <1>2, Records DEF Propose, HInv, TypeOK, Unsettled
  <2> QED
    BY <1>2, <2>1 DEF Propose, HInv, TypeOK, local
<1>3. ASSUME NEW S \in SUBSET Reads, RecoverJobs(S) PROVE TypeOK'
  BY <1>3 DEF RecoverJobs, Life!Interrupt, Life!Phases, HInv, TypeOK, table, local
<1>4. ASSUME NEW r \in Runs, LocalStep(r) PROVE TypeOK'
  <2>1. my' \in [Runs -> ActionRecord]
    <3>1. my' = my \/ my' = [my EXCEPT ![r].dispatched = TRUE]
      BY <1>4 DEF LocalStep, Catch, Throw, Abandon, ExecuteReads, ExecuteRefused, BackendFenced,
         Recover, DispatchCancelled, DispatchFails, Spawn, ChildEnters, ChildEnds, ParentReads
    <3>2. my \in [Runs -> ActionRecord] /\ [my[r] EXCEPT !.dispatched = TRUE] \in ActionRecord
      BY Records DEF HInv, TypeOK
    <3> QED
      BY <3>1, <3>2
  <2>2. /\ outcome' \in [Runs -> Results \cup {None, "waiting_for_job"}]
        /\ pc' \in [Runs -> PCs]
    <3>1. CASE \E o \in Results \cup {None, "waiting_for_job"} : Decide(r, o)
      BY <3>1, OutcomesTyped DEF HInv
    <3>2. CASE outcome' = outcome /\ (pc' = pc \/ \E label \in PCs : Goto(r, label))
      BY <3>2 DEF HInv, TypeOK, Goto
    <3>3. \/ \E o \in Results \cup {None, "waiting_for_job"} : Decide(r, o)
          \/ outcome' = outcome /\ (pc' = pc \/ \E label \in PCs : Goto(r, label))
      BY <1>4, HarnessAssumption, SMTT(30) DEF LocalStep, Catch, Throw, Abandon, ExecuteReads,
         ExecuteRefused, BackendFenced, Recover, DispatchCancelled, DispatchFails, Spawn,
         ChildEnters, ChildEnds, ParentReads, HInv, TypeOK, RunsInPlace, ReadLabels,
         Life!Phases, Results, PCs, Working
    <3> QED
      BY <3>1, <3>2, <3>3
  <2>3. child' \in [Runs -> {"none", "started", "working", "published", "done"}]
    BY <1>4 DEF LocalStep, Catch, Throw, Abandon, ExecuteReads, ExecuteRefused, BackendFenced,
       Recover, DispatchCancelled, DispatchFails, Spawn, ChildEnters, ChildEnds, ParentReads,
       HInv, TypeOK
  <2> QED
    BY <1>4, <2>1, <2>2, <2>3, LocalFrame DEF HInv, TypeOK
<1>5. ASSUME NEW r \in Runs, JobStep(r) PROVE TypeOK'
  <2>1. CASE Prepare(r)
    <3>1. at[r] \in Reads
      BY <2>1 DEF Prepare, HInv, RunsInPlace, ReadLabels
    <3>2. phase' \in [Reads -> Life!Phases]
      BY <2>1, <3>1 DEF Prepare, Life!Submit, Life!Phases, HInv, TypeOK
    <3>3. seen' \in [Runs -> Life!Phases \cup {None}]
      BY <2>1, <3>1, <3>2 DEF Prepare, HInv, TypeOK
    <3> QED
      BY <2>1, <3>2, <3>3 DEF Prepare, Goto, HInv, TypeOK, table, PCs, Working
  <2>2. CASE ExecuteClaims(r)
    BY <2>2 DEF ExecuteClaims, Life!Start, Life!Phases, Goto, HInv, TypeOK, table, PCs, Working,
       RunsInPlace, ReadLabels
  <2>3. ASSUME NEW o \in Outcomes, BackendPublishes(r, o) PROVE TypeOK'
    BY <2>3 DEF BackendPublishes, Life!Publish, Life!Phases, Decide, Goto, HInv, TypeOK, table,
       PCs, Working, Results, RunsInPlace, ReadLabels
  <2> QED
    BY <1>5, <2>1, <2>2, <2>3 DEF JobStep
<1>6. ASSUME NEW r \in Runs, NEW a \in Actions, RunClaim(r, a) PROVE TypeOK'
  <2>1. act' \in [Actions -> ActionRecord]
    BY <1>6, Records DEF RunClaim, HInv, TypeOK, Unsettled
  <2>2. my' \in [Runs -> ActionRecord]
    BY <1>6, <2>1 DEF RunClaim, HInv, TypeOK
  <2> QED
    BY <1>6, <2>1, <2>2 DEF RunClaim, Goto, FirstLabel, HInv, TypeOK, PCs, Working
<1>7. ASSUME NEW r \in Runs, Settle(r) PROVE TypeOK'
  <2>1. at[r] \in Actions
    BY <1>7 DEF Settle, HInv, RunsInPlace
  <2>2. Settled(act[at[r]], outcome[r]) \in ActionRecord
    BY <2>1, Records DEF Settled, HInv, TypeOK, Unsettled
  <2>3. act' \in [Actions -> ActionRecord]
    BY <1>7, <2>1, <2>2 DEF Settle, HInv, TypeOK
  <2> QED
    BY <1>7, <2>1, <2>3 DEF Settle, AfterRun, Goto, HInv, TypeOK, PCs, Terminal
<1>8. ASSUME NEW r \in Runs, SaveJob(r) PROVE TypeOK'
  <2>1. at[r] \in Reads
    BY <1>8 DEF SaveJob, HInv, RunsInPlace, ReadLabels
  <2>2. act' \in [Actions -> ActionRecord]
    BY <1>8 DEF SaveJob, HInv, TypeOK
  <2>3. /\ outcome' \in [Runs -> Results \cup {None, "waiting_for_job"}]
        /\ pc' \in [Runs -> PCs]
    <3>1. \/ Goto(r, "execute") /\ outcome' = outcome
          \/ \E o \in Results \cup {None, "waiting_for_job"} : Decide(r, o)
      <4>1. seen[r] \in Life!Phases \cup {None} /\ seen[r] # "absent"
        BY <1>8 DEF SaveJob, HInv, TypeOK, OutcomesAreTrue
      <4>2. seen[r] # "queued" /\ seen[r] # "running" => seen[r] \in Results \cup {None}
        BY <4>1 DEF Life!Phases, Results
      <4> QED
        BY <1>8, <4>2 DEF SaveJob
    <3>2. CASE Goto(r, "execute") /\ outcome' = outcome
      BY <3>2 DEF Goto, HInv, TypeOK, PCs, Working
    <3> QED
      BY <3>1, <3>2, OutcomesTyped DEF HInv
  <2> QED
    BY <1>8, <2>2, <2>3 DEF SaveJob, HInv, TypeOK
<1>9. ASSUME NEW r \in Runs, Dispatch(r) PROVE TypeOK'
  <2>1. my' \in [Runs -> ActionRecord] /\ my'[r] \in ActionRecord
    BY <1>9, Records DEF Dispatch, HInv, TypeOK
  <2>2. act' \in [Actions -> ActionRecord]
    BY <1>9, <2>1 DEF Dispatch, HInv, TypeOK
  <2> QED
    BY <1>9, <2>1, <2>2 DEF Dispatch, Goto, HInv, TypeOK, PCs, Working
<1>10. ASSUME NEW r \in Runs, ChildPublishes(r) PROVE TypeOK'
  <2>1. act' \in [Actions -> ActionRecord]
    BY <1>10, Records DEF ChildPublishes, HInv, TypeOK, RunsInPlace, Alive, Actions
  <2> QED
    BY <1>10, <2>1 DEF ChildPublishes, HInv, TypeOK
<1> QED
  BY <1>1, <1>2, <1>3, <1>4, <1>5, <1>6, <1>7, <1>8, <1>9, <1>10, StepCases

-----------------------------------------------------------------------------
(* The other parts of the invariant, step by step. *)

(* A run changes its label only as its own action allows.                  *)
LEMMA RunsInPlaceKept == ASSUME HInv, Next PROVE RunsInPlace'
<1>1. CASE QuietStep
  BY <1>1, QuietFrame DEF HInv, local, RunsInPlace
<1>2. ASSUME NEW a \in Actions, Propose(a) PROVE RunsInPlace'
  BY <1>2, HarnessAssumption DEF Propose, HInv, RunsInPlace, ReadLabels, MutationLabels, Alive,
     Working, TypeOK, ActionRecord, table, local, Actions, Life!Phases
<1>3. ASSUME NEW S \in SUBSET Reads, RecoverJobs(S) PROVE RunsInPlace'
  BY <1>3, HarnessAssumption DEF RecoverJobs, Life!Interrupt, HInv, RunsInPlace, ReadLabels,
     MutationLabels, Alive, Working, TypeOK, ActionRecord, table, local, Actions, Life!Phases
<1>4. ASSUME NEW r \in Runs, LocalStep(r) PROVE RunsInPlace'
  BY <1>4, HarnessAssumption, SMTT(30) DEF LocalStep, Catch, Decide, Goto, Throw, Abandon,
     ExecuteReads, ExecuteRefused, BackendFenced, Recover, DispatchCancelled, DispatchFails,
     Spawn, ChildEnters, ChildEnds, ParentReads, HInv, RunsInPlace, ReadLabels, MutationLabels,
     Alive, Working, TypeOK, ActionRecord, table, local, Actions, Life!Phases
<1>5. ASSUME NEW r \in Runs, JobStep(r) PROVE RunsInPlace'
  BY <1>5, HarnessAssumption, SMTT(30) DEF JobStep, Prepare, Goto, Life!Submit, ExecuteClaims,
     Life!Start, BackendPublishes, Decide, Life!Publish, HInv, RunsInPlace, ReadLabels,
     MutationLabels, Alive, Working, TypeOK, ActionRecord, table, local, Actions, Life!Phases
<1>6. ASSUME NEW r \in Runs, NEW a \in Actions, RunClaim(r, a) PROVE RunsInPlace'
  BY <1>6, HarnessAssumption DEF RunClaim, Goto, FirstLabel, Recoverable, HInv, RunsInPlace,
     ReadLabels, MutationLabels, Alive, Working, TypeOK, ActionRecord, table, local, Actions,
     Life!Phases
<1>7. ASSUME NEW r \in Runs, Settle(r) PROVE RunsInPlace'
  BY <1>7, HarnessAssumption DEF Settle, Settled, AfterRun, Goto, HInv, RunsInPlace, ReadLabels,
     MutationLabels, Alive, Working, TypeOK, ActionRecord, table, local, Actions, Life!Phases
<1>8. ASSUME NEW r \in Runs, SaveJob(r) PROVE RunsInPlace'
  BY <1>8, HarnessAssumption DEF SaveJob, Goto, Decide, HInv, RunsInPlace, ReadLabels,
     MutationLabels, Alive, Working, TypeOK, ActionRecord, table, local, Actions, Life!Phases
<1>9. ASSUME NEW r \in Runs, Dispatch(r) PROVE RunsInPlace'
  BY <1>9, HarnessAssumption DEF Dispatch, Goto, HInv, RunsInPlace, ReadLabels, MutationLabels,
     Alive, Working, TypeOK, ActionRecord, table, local, Actions, Life!Phases
<1>10. ASSUME NEW r \in Runs, ChildPublishes(r) PROVE RunsInPlace'
  BY <1>10, HarnessAssumption DEF ChildPublishes, MayLink, HInv, RunsInPlace, ReadLabels,
     MutationLabels, Alive, Working, TypeOK, ActionRecord, table, local, Actions, Life!Phases
<1> QED
  BY <1>1, <1>2, <1>3, <1>4, <1>5, <1>6, <1>7, <1>8, <1>9, <1>10, StepCases

(* A row names a run from its claim until it settles; a stale SaveJob      *)
(* writes only an unsettled record.                                        *)
LEMMA RunnersInPlaceKept == ASSUME HInv, Next PROVE RunnersInPlace'
<1>1. CASE QuietStep
  BY <1>1, QuietFrame DEF HInv, local, RunnersInPlace, AnyUnsettled
<1>2. ASSUME NEW a \in Actions, Propose(a) PROVE RunnersInPlace'
  BY <1>2, HarnessAssumption DEF Propose, HInv, RunnersInPlace, RunsInPlace, Working, Running,
     AnyUnsettled, Unsettled, Terminal, TypeOK, ActionRecord, table, local, Actions, Life!Phases
<1>3. ASSUME NEW S \in SUBSET Reads, RecoverJobs(S) PROVE RunnersInPlace'
  BY <1>3, HarnessAssumption DEF RecoverJobs, Life!Interrupt, HInv, RunnersInPlace, RunsInPlace,
     Working, Running, AnyUnsettled, Unsettled, Terminal, TypeOK, ActionRecord, table, local,
     Actions, Life!Phases
<1>4. ASSUME NEW r \in Runs, LocalStep(r) PROVE RunnersInPlace'
  BY <1>4, HarnessAssumption, SMTT(30) DEF LocalStep, Catch, Decide, Goto, Throw, Abandon,
     ExecuteReads, ExecuteRefused, BackendFenced, Recover, DispatchCancelled, DispatchFails,
     Spawn, ChildEnters, ChildEnds, ParentReads, HInv, RunnersInPlace, RunsInPlace, Working,
     Running, AnyUnsettled, Unsettled, Terminal, TypeOK, ActionRecord, table, local, Actions,
     Life!Phases
<1>5. ASSUME NEW r \in Runs, JobStep(r) PROVE RunnersInPlace'
  BY <1>5, HarnessAssumption, SMTT(30) DEF JobStep, Prepare, Goto, Life!Submit, ExecuteClaims,
     Life!Start, BackendPublishes, Decide, Life!Publish, HInv, RunnersInPlace, RunsInPlace,
     Working, Running, AnyUnsettled, Unsettled, Terminal, TypeOK, ActionRecord, table, local,
     Actions, Life!Phases
<1>6. ASSUME NEW r \in Runs, NEW a \in Actions, RunClaim(r, a) PROVE RunnersInPlace'
  BY <1>6, HarnessAssumption DEF RunClaim, Goto, FirstLabel, Recoverable, HInv, RunnersInPlace,
     RunsInPlace, Working, Running, AnyUnsettled, Unsettled, Terminal, TypeOK, ActionRecord,
     table, local, Actions, Life!Phases
<1>7. ASSUME NEW r \in Runs, Settle(r) PROVE RunnersInPlace'
  BY <1>7, HarnessAssumption DEF Settle, Settled, AfterRun, Goto, HInv, RunnersInPlace,
     RunsInPlace, Working, Running, AnyUnsettled, Unsettled, Terminal, TypeOK, ActionRecord,
     table, local, Actions, Life!Phases
<1>8. ASSUME NEW r \in Runs, SaveJob(r) PROVE RunnersInPlace'
  BY <1>8, HarnessAssumption DEF SaveJob, Goto, Decide, CopiesWereTrue, ReadLabels, HInv,
     RunnersInPlace, RunsInPlace, Working, Running, AnyUnsettled, Unsettled, Terminal, TypeOK,
     ActionRecord, table, local, Actions, Life!Phases
<1>9. ASSUME NEW r \in Runs, Dispatch(r) PROVE RunnersInPlace'
  BY <1>9, HarnessAssumption DEF Dispatch, Goto, CopiesWereTrue, MutationLabels, HInv,
     RunnersInPlace, RunsInPlace, Working, Running, AnyUnsettled, Unsettled, Terminal, TypeOK,
     ActionRecord, table, local, Actions, Life!Phases
<1>10. ASSUME NEW r \in Runs, ChildPublishes(r) PROVE RunnersInPlace'
  BY <1>10, HarnessAssumption DEF ChildPublishes, MayLink, HInv, RunnersInPlace, RunsInPlace,
     Working, Running, AnyUnsettled, Unsettled, Terminal, TypeOK, ActionRecord, table, local,
     Actions, Life!Phases
<1> QED
  BY <1>1, <1>2, <1>3, <1>4, <1>5, <1>6, <1>7, <1>8, <1>9, <1>10, StepCases

(* Nothing marks or publishes a read.                                      *)
LEMMA ReadsUndispatchedKept == ASSUME HInv, Next PROVE ReadsUndispatched'
<1>1. CASE QuietStep
  BY <1>1, QuietFrame DEF HInv, local, ReadsUndispatched
<1>2. ASSUME NEW a \in Actions, Propose(a) PROVE ReadsUndispatched'
  BY <1>2, HarnessAssumption DEF Propose, HInv, ReadsUndispatched, RunsInPlace, ReadLabels,
     MutationLabels, Alive, TypeOK, ActionRecord, table, local, Actions, Life!Phases
<1>3. ASSUME NEW S \in SUBSET Reads, RecoverJobs(S) PROVE ReadsUndispatched'
  BY <1>3, HarnessAssumption DEF RecoverJobs, Life!Interrupt, HInv, ReadsUndispatched,
     RunsInPlace, ReadLabels, MutationLabels, Alive, TypeOK, ActionRecord, table, local,
     Actions, Life!Phases
<1>4. ASSUME NEW r \in Runs, LocalStep(r) PROVE ReadsUndispatched'
  BY <1>4, LocalFrame, HarnessAssumption DEF HInv, ReadsUndispatched, RunsInPlace, ReadLabels,
     MutationLabels, Alive, TypeOK, ActionRecord, table, local, Actions, Life!Phases
<1>5. ASSUME NEW r \in Runs, JobStep(r) PROVE ReadsUndispatched'
  BY <1>5, HarnessAssumption, SMTT(30) DEF JobStep, Prepare, Goto, Life!Submit, ExecuteClaims,
     Life!Start, BackendPublishes, Decide, Life!Publish, HInv, ReadsUndispatched, RunsInPlace,
     ReadLabels, MutationLabels, Alive, TypeOK, ActionRecord, table, local, Actions, Life!Phases
<1>6. ASSUME NEW r \in Runs, NEW a \in Actions, RunClaim(r, a) PROVE ReadsUndispatched'
  BY <1>6, HarnessAssumption DEF RunClaim, Goto, FirstLabel, Recoverable, HInv,
     ReadsUndispatched, RunsInPlace, ReadLabels, MutationLabels, Alive, TypeOK, ActionRecord,
     table, local, Actions, Life!Phases
<1>7. ASSUME NEW r \in Runs, Settle(r) PROVE ReadsUndispatched'
  BY <1>7, HarnessAssumption DEF Settle, Settled, AfterRun, Goto, HInv, ReadsUndispatched,
     RunsInPlace, ReadLabels, MutationLabels, Alive, TypeOK, ActionRecord, table, local,
     Actions, Life!Phases
<1>8. ASSUME NEW r \in Runs, SaveJob(r) PROVE ReadsUndispatched'
  BY <1>8, HarnessAssumption DEF SaveJob, Goto, Decide, HInv, ReadsUndispatched, RunsInPlace,
     ReadLabels, MutationLabels, Alive, TypeOK, ActionRecord, table, local, Actions, Life!Phases
<1>9. ASSUME NEW r \in Runs, Dispatch(r) PROVE ReadsUndispatched'
  BY <1>9, HarnessAssumption DEF Dispatch, Goto, HInv, ReadsUndispatched, RunsInPlace,
     ReadLabels, MutationLabels, Alive, TypeOK, ActionRecord, table, local, Actions, Life!Phases
<1>10. ASSUME NEW r \in Runs, ChildPublishes(r) PROVE ReadsUndispatched'
  BY <1>10, HarnessAssumption DEF ChildPublishes, MayLink, HInv, ReadsUndispatched, RunsInPlace,
     ReadLabels, MutationLabels, Alive, TypeOK, ActionRecord, table, local, Actions, Life!Phases
<1> QED
  BY <1>1, <1>2, <1>3, <1>4, <1>5, <1>6, <1>7, <1>8, <1>9, <1>10, StepCases

(* Only Dispatch writes a copy of a mutation back, and then no commit can  *)
(* have happened since the copy was made.                                  *)
LEMMA CopiesWereTrueKept == ASSUME HInv, Next PROVE CopiesWereTrue'
<1>1. CASE QuietStep
  BY <1>1, QuietFrame DEF HInv, local, CopiesWereTrue
<1>2. ASSUME NEW a \in Actions, Propose(a) PROVE CopiesWereTrue'
  BY <1>2, HarnessAssumption DEF Propose, HInv, CopiesWereTrue, RunnersKnow, RunsInPlace,
     ReadsUndispatched, ReadLabels, MutationLabels, Alive, Recoverable, TypeOK, ActionRecord,
     table, local, Actions, Life!Phases
<1>3. ASSUME NEW S \in SUBSET Reads, RecoverJobs(S) PROVE CopiesWereTrue'
  BY <1>3, HarnessAssumption DEF RecoverJobs, Life!Interrupt, HInv, CopiesWereTrue, RunnersKnow,
     RunsInPlace, ReadsUndispatched, ReadLabels, MutationLabels, Alive, Recoverable, TypeOK,
     ActionRecord, table, local, Actions, Life!Phases
<1>4. ASSUME NEW r \in Runs, LocalStep(r) PROVE CopiesWereTrue'
  <2>1. act' = act /\ at' = at
    BY <1>4, LocalFrame DEF HInv
  <2>2. \A s \in Runs :
                     /\ my'[s].status = my[s].status /\ my'[s].published = my[s].published
                     /\ my'[s].result = my[s].result
                     /\ my[s].dispatched => my'[s].dispatched
    <3>1. CASE my' = my
      BY <3>1
    <3>2. CASE my' = [my EXCEPT ![r].dispatched = TRUE]
      BY <3>2 DEF HInv, TypeOK, ActionRecord
    <3> QED
      BY <1>4, <3>1, <3>2, LocalFrame DEF HInv
  <2>3. \A s \in Runs : my'[s].dispatched \/ my'[s].result = None
    BY <2>2 DEF HInv, CopiesWereTrue
  <2> QED
    BY <2>1, <2>2, <2>3 DEF HInv, CopiesWereTrue
<1>5. ASSUME NEW r \in Runs, JobStep(r) PROVE CopiesWereTrue'
  BY <1>5, HarnessAssumption, SMTT(30) DEF JobStep, Prepare, Goto, Life!Submit, ExecuteClaims,
     Life!Start, BackendPublishes, Decide, Life!Publish, HInv, CopiesWereTrue, RunnersKnow,
     RunsInPlace, ReadsUndispatched, ReadLabels, MutationLabels, Alive, Recoverable, TypeOK,
     ActionRecord, table, local, Actions, Life!Phases
<1>6. ASSUME NEW r \in Runs, NEW a \in Actions, RunClaim(r, a) PROVE CopiesWereTrue'
  BY <1>6, HarnessAssumption DEF RunClaim, Goto, FirstLabel, Recoverable, HInv, CopiesWereTrue,
     RunnersKnow, RunsInPlace, ReadsUndispatched, ReadLabels, MutationLabels, Alive, TypeOK,
     ActionRecord, table, local, Actions, Life!Phases
<1>7. ASSUME NEW r \in Runs, Settle(r) PROVE CopiesWereTrue'
  BY <1>7, HarnessAssumption DEF Settle, Settled, AfterRun, Goto, HInv, CopiesWereTrue,
     RunnersKnow, RunsInPlace, ReadsUndispatched, ReadLabels, MutationLabels, Alive,
     Recoverable, TypeOK, ActionRecord, table, local, Actions, Life!Phases
<1>8. ASSUME NEW r \in Runs, SaveJob(r) PROVE CopiesWereTrue'
  BY <1>8, HarnessAssumption DEF SaveJob, Goto, Decide, HInv, CopiesWereTrue, RunnersKnow,
     RunsInPlace, ReadsUndispatched, ReadLabels, MutationLabels, Alive, Recoverable, TypeOK,
     ActionRecord, table, local, Actions, Life!Phases
<1>9. ASSUME NEW r \in Runs, Dispatch(r) PROVE CopiesWereTrue'
  BY <1>9, HarnessAssumption DEF Dispatch, Goto, HInv, CopiesWereTrue, RunnersKnow, RunsInPlace,
     ReadsUndispatched, ReadLabels, MutationLabels, Alive, Recoverable, TypeOK, ActionRecord,
     table, local, Actions, Life!Phases
<1>10. ASSUME NEW r \in Runs, ChildPublishes(r) PROVE CopiesWereTrue'
  BY <1>10, HarnessAssumption DEF ChildPublishes, MayLink, HInv, CopiesWereTrue, RunnersKnow,
     RunsInPlace, ReadsUndispatched, ReadLabels, MutationLabels, Alive, Recoverable, TypeOK,
     ActionRecord, table, local, Actions, Life!Phases
<1> QED
  BY <1>1, <1>2, <1>3, <1>4, <1>5, <1>6, <1>7, <1>8, <1>9, <1>10, StepCases

(* The claim copies the record; until another run claims the action, only  *)
(* this run and its child change it.                                       *)
LEMMA RunnersKnowKept == ASSUME HInv, Next PROVE RunnersKnow'
<1>1. CASE QuietStep
  BY <1>1, QuietFrame DEF HInv, local, RunnersKnow, Recoverable
<1>2. ASSUME NEW a \in Actions, Propose(a) PROVE RunnersKnow'
  BY <1>2, HarnessAssumption DEF Propose, HInv, RunnersKnow, RunnersInPlace, RunsInPlace,
     CopiesWereTrue, Recoverable, ReadLabels, MutationLabels, Alive, TypeOK, ActionRecord,
     table, local, Actions, Life!Phases
<1>3. ASSUME NEW S \in SUBSET Reads, RecoverJobs(S) PROVE RunnersKnow'
  BY <1>3, HarnessAssumption DEF RecoverJobs, Life!Interrupt, HInv, RunnersKnow, RunnersInPlace,
     RunsInPlace, CopiesWereTrue, Recoverable, ReadLabels, MutationLabels, Alive, TypeOK,
     ActionRecord, table, local, Actions, Life!Phases
<1>4. ASSUME NEW r \in Runs, LocalStep(r) PROVE RunnersKnow'
  BY <1>4, HarnessAssumption, SMTT(30) DEF LocalStep, Catch, Decide, Goto, Throw, Abandon,
     ExecuteReads, ExecuteRefused, BackendFenced, Recover, DispatchCancelled, DispatchFails,
     Spawn, ChildEnters, ChildEnds, ParentReads, HInv, RunnersKnow, RunnersInPlace, RunsInPlace,
     CopiesWereTrue, Recoverable, ReadLabels, MutationLabels, Alive, TypeOK, ActionRecord,
     table, local, Actions, Life!Phases
<1>5. ASSUME NEW r \in Runs, JobStep(r) PROVE RunnersKnow'
  BY <1>5, HarnessAssumption, SMTT(30) DEF JobStep, Prepare, Goto, Life!Submit, ExecuteClaims,
     Life!Start, BackendPublishes, Decide, Life!Publish, HInv, RunnersKnow, RunnersInPlace,
     RunsInPlace, CopiesWereTrue, Recoverable, ReadLabels, MutationLabels, Alive, TypeOK,
     ActionRecord, table, local, Actions, Life!Phases
<1>6. ASSUME NEW r \in Runs, NEW a \in Actions, RunClaim(r, a) PROVE RunnersKnow'
  BY <1>6, HarnessAssumption DEF RunClaim, Goto, FirstLabel, Recoverable, HInv, RunnersKnow,
     RunnersInPlace, RunsInPlace, CopiesWereTrue, ReadLabels, MutationLabels, Alive, TypeOK,
     ActionRecord, table, local, Actions, Life!Phases
<1>7. ASSUME NEW r \in Runs, Settle(r) PROVE RunnersKnow'
  BY <1>7, HarnessAssumption DEF Settle, Settled, AfterRun, Goto, HInv, RunnersKnow,
     RunnersInPlace, RunsInPlace, CopiesWereTrue, Recoverable, ReadLabels, MutationLabels,
     Alive, TypeOK, ActionRecord, table, local, Actions, Life!Phases
<1>8. ASSUME NEW r \in Runs, SaveJob(r) PROVE RunnersKnow'
  BY <1>8, HarnessAssumption DEF SaveJob, Goto, Decide, HInv, RunnersKnow, RunnersInPlace,
     RunsInPlace, CopiesWereTrue, Recoverable, ReadLabels, MutationLabels, Alive, TypeOK,
     ActionRecord, table, local, Actions, Life!Phases
<1>9. ASSUME NEW r \in Runs, Dispatch(r) PROVE RunnersKnow'
  BY <1>9, HarnessAssumption DEF Dispatch, Goto, HInv, RunnersKnow, RunnersInPlace, RunsInPlace,
     CopiesWereTrue, Recoverable, ReadLabels, MutationLabels, Alive, TypeOK, ActionRecord,
     table, local, Actions, Life!Phases
<1>10. ASSUME NEW r \in Runs, ChildPublishes(r) PROVE RunnersKnow'
  BY <1>10, HarnessAssumption DEF ChildPublishes, MayLink, HInv, RunnersKnow, RunnersInPlace,
     RunsInPlace, CopiesWereTrue, Recoverable, ReadLabels, MutationLabels, Alive, TypeOK,
     ActionRecord, table, local, Actions, Life!Phases
<1> QED
  BY <1>1, <1>2, <1>3, <1>4, <1>5, <1>6, <1>7, <1>8, <1>9, <1>10, StepCases

(* A commit is read before it is reported, and a job keeps the status it   *)
(* ended with.                                                             *)
LEMMA OutcomesAreTrueKept == ASSUME HInv, Next PROVE OutcomesAreTrue'
<1>1. CASE QuietStep
  BY <1>1, QuietFrame DEF HInv, local, OutcomesAreTrue
<1>2. ASSUME NEW a \in Actions, Propose(a) PROVE OutcomesAreTrue'
  BY <1>2, HarnessAssumption DEF Propose, HInv, OutcomesAreTrue, RunsInPlace, RunnersInPlace,
     ReadsUndispatched, CopiesWereTrue, ReadLabels, MutationLabels, Alive, Useful, Recoverable,
     TypeOK, ActionRecord, table, local, Actions, Life!Phases
<1>3. ASSUME NEW S \in SUBSET Reads, RecoverJobs(S) PROVE OutcomesAreTrue'
  BY <1>3, HarnessAssumption DEF RecoverJobs, Life!Interrupt, HInv, OutcomesAreTrue,
     RunsInPlace, RunnersInPlace, ReadsUndispatched, CopiesWereTrue, ReadLabels, MutationLabels,
     Alive, Useful, Recoverable, TypeOK, ActionRecord, table, local, Actions, Life!Phases
<1>4. ASSUME NEW r \in Runs, LocalStep(r) PROVE OutcomesAreTrue'
  BY <1>4, HarnessAssumption, SMTT(30) DEF LocalStep, Catch, Decide, Goto, Throw, Abandon,
     ExecuteReads, ExecuteRefused, BackendFenced, Recover, DispatchCancelled, DispatchFails,
     Spawn, ChildEnters, ChildEnds, ParentReads, HInv, OutcomesAreTrue, RunsInPlace,
     RunnersInPlace, ReadsUndispatched, CopiesWereTrue, ReadLabels, MutationLabels, Alive,
     Useful, Recoverable, TypeOK, ActionRecord, table, local, Actions, Life!Phases
<1>5. ASSUME NEW r \in Runs, JobStep(r) PROVE OutcomesAreTrue'
  BY <1>5, HarnessAssumption, SMTT(30) DEF JobStep, Prepare, Goto, Life!Submit, ExecuteClaims,
     Life!Start, BackendPublishes, Decide, Life!Publish, HInv, OutcomesAreTrue, RunsInPlace,
     RunnersInPlace, ReadsUndispatched, CopiesWereTrue, ReadLabels, MutationLabels, Alive,
     Useful, Recoverable, TypeOK, ActionRecord, table, local, Actions, Life!Phases
<1>6. ASSUME NEW r \in Runs, NEW a \in Actions, RunClaim(r, a) PROVE OutcomesAreTrue'
  BY <1>6, HarnessAssumption DEF RunClaim, Goto, FirstLabel, Recoverable, HInv, OutcomesAreTrue,
     RunsInPlace, RunnersInPlace, ReadsUndispatched, CopiesWereTrue, ReadLabels, MutationLabels,
     Alive, Useful, TypeOK, ActionRecord, table, local, Actions, Life!Phases
<1>7. ASSUME NEW r \in Runs, Settle(r) PROVE OutcomesAreTrue'
  BY <1>7, HarnessAssumption DEF Settle, Settled, AfterRun, Goto, HInv, OutcomesAreTrue,
     RunsInPlace, RunnersInPlace, ReadsUndispatched, CopiesWereTrue, ReadLabels, MutationLabels,
     Alive, Useful, Recoverable, TypeOK, ActionRecord, table, local, Actions, Life!Phases
<1>8. ASSUME NEW r \in Runs, SaveJob(r) PROVE OutcomesAreTrue'
  BY <1>8, HarnessAssumption DEF SaveJob, Goto, Decide, HInv, OutcomesAreTrue, RunsInPlace,
     RunnersInPlace, ReadsUndispatched, CopiesWereTrue, ReadLabels, MutationLabels, Alive,
     Useful, Recoverable, TypeOK, ActionRecord, table, local, Actions, Life!Phases
<1>9. ASSUME NEW r \in Runs, Dispatch(r) PROVE OutcomesAreTrue'
  BY <1>9, HarnessAssumption DEF Dispatch, Goto, RunnersKnow, HInv, OutcomesAreTrue,
     RunsInPlace, RunnersInPlace, ReadsUndispatched, CopiesWereTrue, ReadLabels, MutationLabels,
     Alive, Useful, Recoverable, TypeOK, ActionRecord, table, local, Actions, Life!Phases
<1>10. ASSUME NEW r \in Runs, ChildPublishes(r) PROVE OutcomesAreTrue'
  BY <1>10, HarnessAssumption DEF ChildPublishes, MayLink, HInv, OutcomesAreTrue, RunsInPlace,
     RunnersInPlace, ReadsUndispatched, CopiesWereTrue, ReadLabels, MutationLabels, Alive,
     Useful, Recoverable, TypeOK, ActionRecord, table, local, Actions, Life!Phases
<1> QED
  BY <1>1, <1>2, <1>3, <1>4, <1>5, <1>6, <1>7, <1>8, <1>9, <1>10, StepCases

(* Only Settle gives a result, and a commit is refused where there is      *)
(* one.                                                                    *)
LEMMA MutationResultIsTrueKept == ASSUME HInv, Next PROVE MutationResultIsTrue'
<1>1. CASE QuietStep
  BY <1>1, QuietFrame DEF HInv, local, MutationResultIsTrue
<1>2. ASSUME NEW a \in Actions, Propose(a) PROVE MutationResultIsTrue'
  BY <1>2, HarnessAssumption DEF Propose, HInv, MutationResultIsTrue, CopiesWereTrue,
     RunnersKnow, RunsInPlace, OutcomesAreTrue, ReadLabels, MutationLabels, Alive, Recoverable,
     TypeOK, ActionRecord, table, local, Actions, Life!Phases
<1>3. ASSUME NEW S \in SUBSET Reads, RecoverJobs(S) PROVE MutationResultIsTrue'
  BY <1>3, HarnessAssumption DEF RecoverJobs, Life!Interrupt, HInv, MutationResultIsTrue,
     CopiesWereTrue, RunnersKnow, RunsInPlace, OutcomesAreTrue, ReadLabels, MutationLabels,
     Alive, Recoverable, TypeOK, ActionRecord, table, local, Actions, Life!Phases
<1>4. ASSUME NEW r \in Runs, LocalStep(r) PROVE MutationResultIsTrue'
  BY <1>4, LocalFrame, HarnessAssumption DEF HInv, MutationResultIsTrue, CopiesWereTrue,
     RunnersKnow, RunsInPlace, OutcomesAreTrue, ReadLabels, MutationLabels, Alive, Recoverable,
     TypeOK, ActionRecord, table, local, Actions, Life!Phases
<1>5. ASSUME NEW r \in Runs, JobStep(r) PROVE MutationResultIsTrue'
  BY <1>5, HarnessAssumption, SMTT(30) DEF JobStep, Prepare, Goto, Life!Submit, ExecuteClaims,
     Life!Start, BackendPublishes, Decide, Life!Publish, HInv, MutationResultIsTrue,
     CopiesWereTrue, RunnersKnow, RunsInPlace, OutcomesAreTrue, ReadLabels, MutationLabels,
     Alive, Recoverable, TypeOK, ActionRecord, table, local, Actions, Life!Phases
<1>6. ASSUME NEW r \in Runs, NEW a \in Actions, RunClaim(r, a) PROVE MutationResultIsTrue'
  BY <1>6, HarnessAssumption DEF RunClaim, Goto, FirstLabel, Recoverable, HInv,
     MutationResultIsTrue, CopiesWereTrue, RunnersKnow, RunsInPlace, OutcomesAreTrue,
     ReadLabels, MutationLabels, Alive, TypeOK, ActionRecord, table, local, Actions, Life!Phases
<1>7. ASSUME NEW r \in Runs, Settle(r) PROVE MutationResultIsTrue'
  BY <1>7, HarnessAssumption DEF Settle, Settled, AfterRun, Goto, HInv, MutationResultIsTrue,
     CopiesWereTrue, RunnersKnow, RunsInPlace, OutcomesAreTrue, ReadLabels, MutationLabels,
     Alive, Recoverable, TypeOK, ActionRecord, table, local, Actions, Life!Phases
<1>8. ASSUME NEW r \in Runs, SaveJob(r) PROVE MutationResultIsTrue'
  BY <1>8, HarnessAssumption DEF SaveJob, Goto, Decide, HInv, MutationResultIsTrue,
     CopiesWereTrue, RunnersKnow, RunsInPlace, OutcomesAreTrue, ReadLabels, MutationLabels,
     Alive, Recoverable, TypeOK, ActionRecord, table, local, Actions, Life!Phases
<1>9. ASSUME NEW r \in Runs, Dispatch(r) PROVE MutationResultIsTrue'
  BY <1>9, HarnessAssumption DEF Dispatch, Goto, HInv, MutationResultIsTrue, CopiesWereTrue,
     RunnersKnow, RunsInPlace, OutcomesAreTrue, ReadLabels, MutationLabels, Alive, Recoverable,
     TypeOK, ActionRecord, table, local, Actions, Life!Phases
<1>10. ASSUME NEW r \in Runs, ChildPublishes(r) PROVE MutationResultIsTrue'
  BY <1>10, HarnessAssumption DEF ChildPublishes, MayLink, HInv, MutationResultIsTrue,
     CopiesWereTrue, RunnersKnow, RunsInPlace, OutcomesAreTrue, ReadLabels, MutationLabels,
     Alive, Recoverable, TypeOK, ActionRecord, table, local, Actions, Life!Phases
<1> QED
  BY <1>1, <1>2, <1>3, <1>4, <1>5, <1>6, <1>7, <1>8, <1>9, <1>10, StepCases

(* Only Settle gives a read a useful result, and SaveJob takes it away at  *)
(* most.                                                                   *)
LEMMA ReadResultIsTheJobsKept == ASSUME HInv, Next PROVE ReadResultIsTheJobs'
<1>1. CASE QuietStep
  BY <1>1, QuietFrame DEF HInv, local, ReadResultIsTheJobs
<1>2. ASSUME NEW a \in Actions, Propose(a) PROVE ReadResultIsTheJobs'
  BY <1>2, HarnessAssumption DEF Propose, HInv, ReadResultIsTheJobs, ReadsUndispatched,
     RunsInPlace, OutcomesAreTrue, ReadLabels, MutationLabels, Useful, TypeOK, ActionRecord,
     table, local, Actions, Life!Phases
<1>3. ASSUME NEW S \in SUBSET Reads, RecoverJobs(S) PROVE ReadResultIsTheJobs'
  BY <1>3, HarnessAssumption DEF RecoverJobs, Life!Interrupt, HInv, ReadResultIsTheJobs,
     ReadsUndispatched, RunsInPlace, OutcomesAreTrue, ReadLabels, MutationLabels, Useful,
     TypeOK, ActionRecord, table, local, Actions, Life!Phases
<1>4. ASSUME NEW r \in Runs, LocalStep(r) PROVE ReadResultIsTheJobs'
  BY <1>4, LocalFrame, HarnessAssumption DEF HInv, ReadResultIsTheJobs, ReadsUndispatched,
     RunsInPlace, OutcomesAreTrue, ReadLabels, MutationLabels, Useful, TypeOK, ActionRecord,
     table, local, Actions, Life!Phases
<1>5. ASSUME NEW r \in Runs, JobStep(r) PROVE ReadResultIsTheJobs'
  BY <1>5, HarnessAssumption, SMTT(30) DEF JobStep, Prepare, Goto, Life!Submit, ExecuteClaims,
     Life!Start, BackendPublishes, Decide, Life!Publish, HInv, ReadResultIsTheJobs,
     ReadsUndispatched, RunsInPlace, OutcomesAreTrue, ReadLabels, MutationLabels, Useful,
     TypeOK, ActionRecord, table, local, Actions, Life!Phases
<1>6. ASSUME NEW r \in Runs, NEW a \in Actions, RunClaim(r, a) PROVE ReadResultIsTheJobs'
  BY <1>6, HarnessAssumption DEF RunClaim, Goto, FirstLabel, Recoverable, HInv,
     ReadResultIsTheJobs, ReadsUndispatched, RunsInPlace, OutcomesAreTrue, ReadLabels,
     MutationLabels, Useful, TypeOK, ActionRecord, table, local, Actions, Life!Phases
<1>7. ASSUME NEW r \in Runs, Settle(r) PROVE ReadResultIsTheJobs'
  BY <1>7, HarnessAssumption DEF Settle, Settled, AfterRun, Goto, HInv, ReadResultIsTheJobs,
     ReadsUndispatched, RunsInPlace, OutcomesAreTrue, ReadLabels, MutationLabels, Useful,
     TypeOK, ActionRecord, table, local, Actions, Life!Phases
<1>8. ASSUME NEW r \in Runs, SaveJob(r) PROVE ReadResultIsTheJobs'
  BY <1>8, HarnessAssumption DEF SaveJob, Goto, Decide, HInv, ReadResultIsTheJobs,
     ReadsUndispatched, RunsInPlace, OutcomesAreTrue, ReadLabels, MutationLabels, Useful,
     TypeOK, ActionRecord, table, local, Actions, Life!Phases
<1>9. ASSUME NEW r \in Runs, Dispatch(r) PROVE ReadResultIsTheJobs'
  BY <1>9, HarnessAssumption DEF Dispatch, Goto, HInv, ReadResultIsTheJobs, ReadsUndispatched,
     RunsInPlace, OutcomesAreTrue, ReadLabels, MutationLabels, Useful, TypeOK, ActionRecord,
     table, local, Actions, Life!Phases
<1>10. ASSUME NEW r \in Runs, ChildPublishes(r) PROVE ReadResultIsTheJobs'
  BY <1>10, HarnessAssumption DEF ChildPublishes, MayLink, HInv, ReadResultIsTheJobs,
     ReadsUndispatched, RunsInPlace, OutcomesAreTrue, ReadLabels, MutationLabels, Useful,
     TypeOK, ActionRecord, table, local, Actions, Life!Phases
<1> QED
  BY <1>1, <1>2, <1>3, <1>4, <1>5, <1>6, <1>7, <1>8, <1>9, <1>10, StepCases

-----------------------------------------------------------------------------
(* The invariant and what follows from it. *)

LEMMA HInvKept ==
  ASSUME HInv, [Next]_vars
  PROVE  HInv'
<1>1. CASE Next
  BY <1>1, TypeKept, RunsInPlaceKept, RunnersInPlaceKept, ReadsUndispatchedKept,
     CopiesWereTrueKept, RunnersKnowKept, OutcomesAreTrueKept, MutationResultIsTrueKept,
     ReadResultIsTheJobsKept DEF HInv
<1>2. CASE UNCHANGED vars
  BY <1>2 DEF vars, table, local, HInv, TypeOK, RunsInPlace, RunnersInPlace, ReadsUndispatched,
     CopiesWereTrue, RunnersKnow, OutcomesAreTrue, Recoverable, MutationResultIsTrue,
     ReadResultIsTheJobs
<1> QED
  BY <1>1, <1>2

(* Whatever the runs, their children, the owner and the clock do, the      *)
(* invariant holds.                                                        *)
THEOREM HarnessInvariant == Spec => []HInv
<1>1. Init => HInv
  BY HInvInit
<1>2. HInv /\ [Next]_vars => HInv'
  BY HInvKept
<1> QED
  BY <1>1, <1>2, PTL DEF Spec

(* Every variable keeps its type: in particular no action is settled with  *)
(* the status of a job that is still waited for.                           *)
THEOREM HarnessTypes == Spec => []TypeOK
<1>1. HInv => TypeOK
  BY DEF HInv
<1> QED
  BY <1>1, HarnessInvariant, PTL

(* What a settled mutation says of its publication is true of the          *)
(* knowledge store.                                                        *)
THEOREM MutationResultsAreTrue == Spec => []MutationResultIsTrue
<1>1. HInv => MutationResultIsTrue
  BY DEF HInv
<1> QED
  BY <1>1, HarnessInvariant, PTL

(* A read that reports useful evidence reports what its job ended with.    *)
THEOREM ReadResultsAreTheJobs == Spec => []ReadResultIsTheJobs
<1>1. HInv => ReadResultIsTheJobs
  BY DEF HInv
<1> QED
  BY <1>1, HarnessInvariant, PTL

(* The record of an action is written by six kinds of step.                *)
LEMMA WhoWrites ==
  ASSUME Next
  PROVE  \/ act' = act
         \/ \E a \in Actions : Propose(a)
         \/ \E r \in Runs, a \in Actions : RunClaim(r, a)
         \/ \E r \in Runs : Settle(r) \/ SaveJob(r) \/ Dispatch(r) \/ ChildPublishes(r)
<1>1. QuietStep => act' = act
  BY QuietFrame
<1>2. \A r \in Runs : LocalStep(r) => act' = act
  BY DEF LocalStep, Catch, Throw, Abandon, ExecuteReads, ExecuteRefused, BackendFenced, Recover,
     DispatchCancelled, DispatchFails, Spawn, ChildEnters, ChildEnds, ParentReads, table
<1>3. \A r \in Runs : JobStep(r) => act' = act
  BY DEF JobStep, Prepare, ExecuteClaims, BackendPublishes, table
<1>4. \A S \in SUBSET Reads : RecoverJobs(S) => act' = act
  BY DEF RecoverJobs, table
<1> QED
  BY <1>1, <1>2, <1>3, <1>4, StepCases

(* Only the transaction that marks a mutation leads to its child.          *)
LEMMA OnlyDispatchSpawns ==
  ASSUME HInv, Next, NEW r \in Runs, pc[r] = "dispatch", pc'[r] = "spawn"
  PROVE  Dispatch(r)
<1>1. TypeOK
  BY DEF HInv
<1>2. ~QuietStep
  BY QuietFrame DEF local
<1>3. \A a \in Actions : ~Propose(a)
  BY DEF Propose, local
<1>4. \A S \in SUBSET Reads : ~RecoverJobs(S)
  BY DEF RecoverJobs, local
<1>5. \A q \in Runs : ~LocalStep(q)
  BY <1>1, LocalFrame
<1>6. \A q \in Runs : ~JobStep(q)
  BY <1>1 DEF JobStep, Prepare, ExecuteClaims, BackendPublishes, Decide, Goto, TypeOK
<1>7. \A q \in Runs, a \in Actions : ~RunClaim(q, a)
  BY <1>1 DEF RunClaim, Goto, TypeOK
<1>8. \A q \in Runs : ~Settle(q) /\ ~SaveJob(q) /\ ~ChildPublishes(q)
  BY <1>1 DEF Settle, SaveJob, ChildPublishes, Decide, Goto, TypeOK
<1>9. \A q \in Runs : Dispatch(q) => q = r
  BY <1>1 DEF Dispatch, Goto, TypeOK
<1> QED
  BY <1>2, <1>3, <1>4, <1>5, <1>6, <1>7, <1>8, <1>9, StepCases

(* No mutation is dispatched twice, by whichever runs: the one that its    *)
(* row names knows that it was dispatched, and recovers it.                *)
THEOREM MutationsAreDispatchedOnce == Spec => DispatchedOnce
<1> DEFINE Once == \A r \in Runs : pc[r] = "dispatch" /\ pc'[r] = "spawn" => ~act[at[r]].dispatched
<1>1. HInv /\ [Next]_vars => [Once]_vars
  <2> SUFFICES ASSUME HInv, Next, NEW r \in Runs, pc[r] = "dispatch", pc'[r] = "spawn"
               PROVE  ~act[at[r]].dispatched
    OBVIOUS
  <2>1. Dispatch(r)
    BY OnlyDispatchSpawns
  <2> QED
    BY <2>1 DEF Dispatch, HInv, RunnersKnow, RunsInPlace, MutationLabels
<1> QED
  BY <1>1, HarnessInvariant, PTL DEF Spec, DispatchedOnce

(* A committed publication stays in the record, although runs write whole  *)
(* records back; and none is committed once the action has a result.       *)
THEOREM PublicationsStick == Spec => PublicationSticks
<1> DEFINE Sticks == \A a \in Actions :
                       act[a].published \/ act[a].result # None => act'[a].published = act[a].published
<1>1. HInv /\ [Next]_vars => [Sticks]_vars
  <2> SUFFICES ASSUME HInv, Next, NEW a \in Actions, act[a].published \/ act[a].result # None
               PROVE  act'[a].published = act[a].published
    OBVIOUS
  <2>1. ASSUME NEW b \in Actions, Propose(b) PROVE act'[a].published = act[a].published
    BY <2>1 DEF Propose, HInv, TypeOK, ActionRecord
  <2>2. ASSUME NEW r \in Runs, NEW b \in Actions, RunClaim(r, b) PROVE act'[a].published = act[a].published
    BY <2>2 DEF RunClaim, HInv, TypeOK, ActionRecord
  <2>3. ASSUME NEW r \in Runs, Settle(r) PROVE act'[a].published = act[a].published
    BY <2>3 DEF Settle, Settled, HInv, TypeOK, ActionRecord
  <2>4. ASSUME NEW r \in Runs, SaveJob(r) PROVE act'[a].published = act[a].published
    BY <2>4 DEF SaveJob, HInv, TypeOK, ActionRecord, ReadsUndispatched, RunsInPlace, ReadLabels
  <2>5. ASSUME NEW r \in Runs, Dispatch(r) PROVE act'[a].published = act[a].published
    BY <2>5 DEF Dispatch, HInv, TypeOK, ActionRecord, RunnersKnow, CopiesWereTrue, Recoverable,
       RunsInPlace, MutationLabels
  <2>6. ASSUME NEW r \in Runs, ChildPublishes(r) PROVE act'[a].published = act[a].published
    BY <2>6 DEF ChildPublishes, MayLink, HInv, TypeOK, ActionRecord, RunnersKnow, Recoverable,
       RunsInPlace, Alive
  <2> QED
    BY <2>1, <2>2, <2>3, <2>4, <2>5, <2>6, WhoWrites
<1> QED
  BY <1>1, HarnessInvariant, PTL DEF Spec, PublicationSticks

(* A mutation's result changes only from unknown to the publication that a *)
(* later run found.                                                        *)
THEOREM MutationResultsStick == Spec => MutationResultSticks
<1> DEFINE Sticks == \A a \in Mutations :
                       act[a].result # None /\ act'[a].result # act[a].result =>
                         act[a].result = "unknown" /\ act'[a].result = "published"
<1>1. HInv /\ [Next]_vars => [Sticks]_vars
  <2> SUFFICES ASSUME HInv, Next, NEW a \in Mutations, act[a].result # None, act'[a].result # act[a].result
               PROVE  act[a].result = "unknown" /\ act'[a].result = "published"
    OBVIOUS
  <2>1. a \in Actions /\ a \notin Reads
    BY HarnessAssumption DEF Actions
  <2>2. \A b \in Actions : ~Propose(b)
    BY <2>1 DEF Propose, HInv, TypeOK, ActionRecord
  <2>3. \A r \in Runs, b \in Actions : ~RunClaim(r, b)
    BY <2>1 DEF RunClaim, HInv, TypeOK, ActionRecord
  <2>4. ASSUME NEW r \in Runs, Settle(r) PROVE act[a].result = "unknown" /\ act'[a].result = "published"
    <3>1. at[r] = a /\ runner[a] = r /\ pc[r] = "settle"
      BY <2>1, <2>4 DEF Settle, Settled, HInv, TypeOK, ActionRecord
    <3>2. act[a].result = "unknown" /\ act[a].published /\ act[a].dispatched
      BY <2>1, <3>1 DEF HInv, RunnersKnow, Recoverable, CopiesWereTrue
    <3>3. outcome[r] = "published" \/ outcome[r] = "unknown"
      BY <3>1, <3>2 DEF HInv, RunnersKnow
    <3> QED
      BY <2>1, <2>4, <3>1, <3>2, <3>3 DEF Settle, Settled, HInv, TypeOK, ActionRecord
  <2>5. \A r \in Runs : ~SaveJob(r)
    BY <2>1 DEF SaveJob, HInv, TypeOK, ActionRecord, RunsInPlace, ReadLabels
  <2>6. \A r \in Runs : ~Dispatch(r)
    BY <2>1 DEF Dispatch, HInv, TypeOK, ActionRecord, RunnersKnow, CopiesWereTrue, Recoverable,
       RunsInPlace, MutationLabels
  <2>7. \A r \in Runs : ~ChildPublishes(r)
    BY <2>1 DEF ChildPublishes, HInv, TypeOK, ActionRecord
  <2> QED
    BY <2>2, <2>3, <2>4, <2>5, <2>6, <2>7, WhoWrites
<1> QED
  BY <1>1, HarnessInvariant, PTL DEF Spec, MutationResultSticks

(* A finished or cancelled investigation stays so: runs that settle after  *)
(* a cancellation leave it, and none are left when the report is written.  *)
THEOREM ReportsAreFinal == Spec => TerminalSticks
<1>1. HInv /\ [Next]_vars => [(inv \in Terminal) => (inv' = inv)]_vars
  <2> SUFFICES ASSUME HInv, Next, inv \in Terminal
               PROVE  inv' = inv
    OBVIOUS
  <2>1. CASE QuietStep
    BY <2>1 DEF QuietStep, Finish, Cancel, ReleaseOwner, ClaimOwner, OwnerExpires,
       RunnerExpires, Heartbeat
  <2>2. ASSUME NEW a \in Actions, Propose(a) PROVE inv' = inv
    BY <2>2 DEF Propose
  <2>3. ASSUME NEW S \in SUBSET Reads, RecoverJobs(S) PROVE inv' = inv
    BY <2>3 DEF RecoverJobs, table
  <2>4. ASSUME NEW r \in Runs, LocalStep(r) PROVE inv' = inv
    BY <2>4, LocalFrame DEF HInv
  <2>5. ASSUME NEW r \in Runs, JobStep(r) PROVE inv' = inv
    BY <2>5 DEF JobStep, Prepare, ExecuteClaims, BackendPublishes, table
  <2>6. ASSUME NEW r \in Runs, NEW a \in Actions, RunClaim(r, a) PROVE inv' = inv
    BY <2>6 DEF RunClaim
  <2>7. ASSUME NEW r \in Runs, Settle(r) PROVE inv' = inv
    <3>1. at[r] \in Actions /\ runner[at[r]] # NoRun
      BY <2>7, HarnessAssumption DEF Settle, HInv, RunsInPlace
    <3>2. inv = "cancelled"
      BY <3>1 DEF HInv, RunnersInPlace, Terminal
    <3> QED
      BY <2>7, <3>2 DEF Settle, AfterRun
  <2>8. ASSUME NEW r \in Runs, SaveJob(r) \/ Dispatch(r) \/ ChildPublishes(r) PROVE inv' = inv
    BY <2>8 DEF SaveJob, Dispatch, ChildPublishes
  <2> QED
    BY <2>1, <2>2, <2>3, <2>4, <2>5, <2>6, <2>7, <2>8, StepCases
<1> QED
  BY <1>1, HarnessInvariant, PTL DEF Spec, TerminalSticks
=============================================================================
