--------------------------- MODULE HarnessActions ---------------------------
(***************************************************************************)
(* The actions of one external-owner investigation of src/harness.cpp and  *)
(* the `harness run` calls that execute them.                              *)
(*                                                                         *)
(* A read is a static analysis: its job has the key investigation:action,  *)
(* so an action names one job of JobLife, however often it is run.  A      *)
(* mutation is a workbench operation done by a child process, whose        *)
(* knowledge revision and publication pointer commit together.             *)
(*                                                                         *)
(* Every harness operation but `run` is one transaction, and a refused one *)
(* changes nothing: a request is modelled only where the owner token, the  *)
(* expected revision and the other guards admit it.  A run is a sequence   *)
(* of transactions; it may stall past its runner's deadline and wake up.   *)
(***************************************************************************)
EXTENDS Naturals, FiniteSets

CONSTANTS
  Runs,        \* uses of `harness run`; each is its own runner id
  Reads,       \* actions on a static backend
  Mutations,   \* actions on the workbench
  Request,     \* digest of an action's normalized request
  MaxActions,  \* budget.max_actions
  MaxRepeats,  \* proposals of one request that are accepted
  Outcomes     \* statuses a job's result is published with

Actions == Reads \cup Mutations

NoRun == "no run"
NoAction == "no action"
None  == "none"

Useful == {"completed", "partial"}

ASSUME HarnessAssumption ==
  /\ Reads \cap Mutations = {}
  /\ NoAction \notin Actions
  /\ NoRun \notin Runs
  /\ Request \in [Actions -> Actions]
  /\ MaxActions \in Nat
  /\ MaxRepeats \in Nat
  /\ Useful \cup {"failed"} \subseteq Outcomes
  /\ Outcomes \cap {"absent", "queued", "running", "interrupted", "published", "unknown",
                    "waiting_for_job", None} = {}

VARIABLES
  phase,      \* the reads' jobs, as JobLife sees them
  act,        \* wb_investigation_actions.record
  runner,     \* wb_investigation_actions.runner
  late,       \* actions whose runner's deadline has passed
  inv,        \* status of the investigation
  leased,     \* the owner token exists and its deadline has not passed
  held,       \* runs whose request carries the current owner token
  pc,         \* where a run is
  at,         \* the action a run executes
  my,         \* a run's copy of the action record
  seen,       \* status of the job when the run prepared it
  outcome,    \* status of the run's result
  child       \* the workbench worker a run has started

Life == INSTANCE JobLife WITH Jobs <- Reads

table == <<act, runner, late, inv, leased, held>>
local == <<pc, at, my, seen, outcome, child>>
vars  == <<phase, table, local>>

(* A mutation's result is "published", once recovered from its commit, or  *)
(* "unknown" when no commit was seen; "failed" and "cancelled" are kept    *)
(* for runs that did not dispatch it.                                      *)
Results == Outcomes \cup {"cancelled", "interrupted", "published", "unknown"}

Unsettled == {"proposed", "running", "waiting_for_job"}

ActionRecord == [status     : Unsettled \cup {"absent", "settled"},
                 result     : Results \cup {None},
                 dispatched : BOOLEAN,
                 published  : BOOLEAN]

NewAction == [status |-> "absent", result |-> None, dispatched |-> FALSE, published |-> FALSE]

Terminal == {"finished", "cancelled"}

(* Where a run can be while its heartbeat thread is alive. *)
Working == {"prepare", "savejob", "execute", "claimjob", "backend",
            "dispatch", "spawn", "waiting", "recover", "caught"}
PCs == Working \cup {"idle", "settle", "done"}

Init ==
  /\ phase = [a \in Reads |-> "absent"]
  /\ act = [a \in Actions |-> NewAction]
  /\ runner = [a \in Actions |-> NoRun]
  /\ late = {}
  /\ inv = "ready"
  /\ leased = TRUE
  /\ held = {}
  /\ pc = [r \in Runs |-> "idle"]
  /\ at = [r \in Runs |-> NoAction]
  /\ my = [r \in Runs |-> NewAction]
  /\ seen = [r \in Runs |-> None]
  /\ outcome = [r \in Runs |-> None]
  /\ child = [r \in Runs |-> "none"]

Goto(r, label) == pc' = [pc EXCEPT ![r] = label]

Proposed == {a \in Actions : act[a].status # "absent"}

(* running: some action has a runner with a live deadline. *)
Running == \E a \in Actions : runner[a] # NoRun /\ a \notin late

(* unsettled: some action may still produce a result. *)
AnyUnsettled == \E a \in Actions : act[a].status \in Unsettled

(* The result of an action that another run may still replace. *)
Recoverable(a) == act[a].result = "unknown" /\ act[a].published

-----------------------------------------------------------------------------
(* The owner's operations. *)

(* A proposal reserves budget, and is refused for the request of a         *)
(* mutation whose outcome is unknown.                                      *)
Propose(a) ==
  LET same == {b \in Proposed : Request[b] = Request[a]}
  IN /\ leased /\ ~Running /\ inv \notin Terminal
     /\ act[a].status = "absent"
     /\ a \in Mutations => \A b \in same : act[b].result # "unknown"
     /\ Cardinality(same) < MaxRepeats
     /\ Cardinality(Proposed) < MaxActions
     /\ act' = [act EXCEPT ![a].status = "proposed"]
     /\ UNCHANGED <<phase, runner, late, inv, leased, held, local>>

(* Mutant: the report does not wait for the actions to settle. *)
FinishUnsettled ==
  /\ leased /\ ~Running /\ inv \notin Terminal
  /\ inv' = "finished"
  /\ UNCHANGED <<phase, act, runner, late, leased, held, local>>

Finish ==
  /\ leased /\ ~Running /\ inv \notin Terminal
  /\ ~AnyUnsettled
  /\ inv' = "finished"
  /\ UNCHANGED <<phase, act, runner, late, leased, held, local>>

(* Cancellation needs no expected revision, and admits running actions.    *)
(* The cancel files it writes only change how a backend ends.              *)
Cancel ==
  /\ leased /\ inv \notin Terminal
  /\ inv' = "cancelled"
  /\ UNCHANGED <<phase, act, runner, late, leased, held, local>>

(* release and transfer drop the token. *)
ReleaseOwner ==
  /\ leased /\ ~Running
  /\ AnyUnsettled => inv = "cancelled"
  /\ leased' = FALSE
  /\ held' = {}
  /\ UNCHANGED <<phase, act, runner, late, inv, local>>

(* claim draws a new token once the lease is over. *)
ClaimOwner ==
  /\ ~leased /\ ~Running
  /\ leased' = TRUE
  /\ held' = {}
  /\ UNCHANGED <<phase, act, runner, late, inv, local>>

OwnerExpires ==
  /\ leased
  /\ leased' = FALSE
  /\ UNCHANGED <<phase, act, runner, late, inv, held, local>>

-----------------------------------------------------------------------------
(* The first transaction of a run, its heartbeat, and its end. *)

(* A dispatched mutation is only ever recovered, never dispatched again. *)
FirstLabel(a) ==
  IF a \in Reads THEN "prepare" ELSE IF act[a].dispatched THEN "recover" ELSE "dispatch"

(* Mutant: an action that has a result may be run again. *)
RunClaimSettled(r, a) ==
  /\ pc[r] = "idle"
  /\ leased
  /\ act[a].status # "absent"
  /\ inv \notin Terminal /\ ~Running
  /\ runner' = [runner EXCEPT ![a] = r]
  /\ late' = late \ {a}
  /\ act' = [act EXCEPT ![a].status = "running"]
  /\ inv' = "running"
  /\ held' = held \cup {r}
  /\ at' = [at EXCEPT ![r] = a]
  /\ my' = [my EXCEPT ![r] = act'[a]]
  /\ Goto(r, FirstLabel(a))
  /\ UNCHANGED <<phase, leased, seen, outcome, child>>

(* A settled action is returned as it is, unless its outcome is unknown    *)
(* although a publication was committed.                                   *)
RunClaim(r, a) ==
  /\ pc[r] = "idle"
  /\ leased
  /\ act[a].status # "absent"
  /\ act[a].result = None \/ Recoverable(a)
  /\ inv \notin Terminal /\ ~Running
  /\ runner' = [runner EXCEPT ![a] = r]
  /\ late' = late \ {a}
  /\ act' = [act EXCEPT ![a].status = "running"]
  /\ inv' = "running"
  /\ held' = held \cup {r}
  /\ at' = [at EXCEPT ![r] = a]
  /\ my' = [my EXCEPT ![r] = act'[a]]
  /\ Goto(r, FirstLabel(a))
  /\ UNCHANGED <<phase, leased, seen, outcome, child>>

(* The heartbeat thread moves the runner's deadline on, and the owner's if *)
(* the run was started under the current token.  A beat that throws is     *)
(* ignored, so there is none to model.                                     *)
Heartbeat(r) ==
  /\ pc[r] \in Working
  /\ runner[at[r]] = r
  /\ late' = late \ {at[r]}
  /\ leased' = (leased \/ r \in held)
  /\ UNCHANGED <<phase, act, runner, inv, held, local>>

RunnerExpires(a) ==
  /\ runner[a] # NoRun
  /\ a \notin late
  /\ late' = late \cup {a}
  /\ UNCHANGED <<phase, act, runner, inv, leased, held, local>>

(* Mutant: the waiting job's status is stored as the action's result. *)
SettledStoresWaiting(record, o) == [record EXCEPT !.status = "settled", !.result = o]

Settled(record, o) ==
  IF o = "waiting_for_job" THEN [record EXCEPT !.status = o]
  ELSE [record EXCEPT !.status = "settled", !.result = o]

AfterRun(o) ==
  IF inv = "cancelled" THEN inv ELSE IF o = "waiting_for_job" THEN o ELSE "ready"

(* Mutant: the record is not loaded again before it is settled. *)
SettleStale(r) ==
  LET a == at[r] IN
  /\ pc[r] = "settle"
  /\ runner[a] = r
  /\ act' = [act EXCEPT ![a] = Settled(my[r], outcome[r])]
  /\ runner' = [runner EXCEPT ![a] = NoRun]
  /\ late' = late \ {a}
  /\ inv' = AfterRun(outcome[r])
  /\ Goto(r, "done")
  /\ UNCHANGED <<phase, leased, held, at, my, seen, outcome, child>>

(* The last transaction: load the record again, settle it and release the  *)
(* runner, if the row still names this run.                                *)
Settle(r) ==
  LET a == at[r] IN
  /\ pc[r] = "settle"
  /\ runner[a] = r
  /\ act' = [act EXCEPT ![a] = Settled(@, outcome[r])]
  /\ runner' = [runner EXCEPT ![a] = NoRun]
  /\ late' = late \ {a}
  /\ inv' = AfterRun(outcome[r])
  /\ Goto(r, "done")
  /\ UNCHANGED <<phase, leased, held, at, my, seen, outcome, child>>

(* The run lost its action, or the process dies, or a transaction outside  *)
(* the exception handler throws: the rows stay as they are.                *)
Abandon(r) ==
  /\ pc[r] \in Working \cup {"settle"}
  /\ Goto(r, "done")
  /\ UNCHANGED <<phase, table, at, my, seen, outcome, child>>

(* The run has its result. *)
Decide(r, o) ==
  /\ outcome' = [outcome EXCEPT ![r] = o]
  /\ Goto(r, "settle")

(* Any call before the result may throw. *)
Throw(r) ==
  /\ pc[r] \in Working \ {"caught"}
  /\ pc[r] = "waiting" => child[r] = "done"
  /\ Goto(r, "caught")
  /\ UNCHANGED <<phase, table, at, my, seen, outcome, child>>

(* The handler: a read, or a mutation this run knows undispatched, failed; *)
(* otherwise the outcome is what the commit tells, and unknown if there is *)
(* none, or if it cannot be read.                                          *)
Catch(r, readable) ==
  /\ pc[r] = "caught"
  /\ Decide(r, IF ~my[r].dispatched THEN "failed"
               ELSE IF act[at[r]].published /\ readable THEN "published" ELSE "unknown")
  /\ UNCHANGED <<phase, table, at, my, seen, child>>

-----------------------------------------------------------------------------
(* Running a read. *)

(* service.prepare under the action's key. *)
Prepare(r) ==
  /\ pc[r] = "prepare"
  /\ IF phase[at[r]] = "absent" THEN Life!Submit(at[r]) ELSE phase' = phase
  /\ seen' = [seen EXCEPT ![r] = phase'[at[r]]]
  /\ Goto(r, "savejob")
  /\ UNCHANGED <<table, at, my, outcome, child>>

(* The job id is saved with the run's copy of the record, whoever the      *)
(* runner is now; then the job decides.                                    *)
SaveJob(r) ==
  /\ pc[r] = "savejob"
  /\ act' = [act EXCEPT ![at[r]] = my[r]]
  /\ CASE seen[r] = "queued"  -> Goto(r, "execute") /\ outcome' = outcome
       [] seen[r] = "running" -> Decide(r, "waiting_for_job")
       [] OTHER               -> Decide(r, seen[r])
  /\ UNCHANGED <<phase, runner, late, inv, leased, held, at, my, seen, child>>

(* service.execute, as JobStore details it. *)
ExecuteReads(r) ==
  /\ pc[r] = "execute"
  /\ IF phase[at[r]] \in Outcomes THEN Decide(r, phase[at[r]])
     ELSE Goto(r, "claimjob") /\ outcome' = outcome
  /\ UNCHANGED <<phase, table, at, my, seen, child>>

ExecuteClaims(r) ==
  /\ pc[r] = "claimjob"
  /\ Life!Start(at[r])
  /\ Goto(r, "backend")
  /\ UNCHANGED <<table, at, my, seen, outcome, child>>

ExecuteRefused(r) ==
  /\ pc[r] = "claimjob"
  /\ phase[at[r]] # "queued"
  /\ Goto(r, "caught")
  /\ UNCHANGED <<phase, table, at, my, seen, outcome, child>>

BackendPublishes(r, o) ==
  /\ pc[r] = "backend"
  /\ phase[at[r]] = "running"
  /\ Life!Publish(at[r], o)
  /\ Decide(r, o)
  /\ UNCHANGED <<table, at, my, seen, child>>

(* Mutant: the outcome is reported although its publication was refused. *)
BackendFencedReports(r) ==
  /\ pc[r] = "backend"
  /\ phase[at[r]] # "running"
  /\ Decide(r, "partial")
  /\ UNCHANGED <<phase, table, at, my, seen, child>>

BackendFenced(r) ==
  /\ pc[r] = "backend"
  /\ phase[at[r]] # "running"
  /\ Goto(r, "caught") /\ outcome' = outcome
  /\ UNCHANGED <<phase, table, at, my, seen, child>>

(* `job recover`, or a batch of the project. *)
RecoverJobs(S) ==
  /\ S # {}
  /\ Life!Interrupt(S)
  /\ UNCHANGED <<table, local>>

-----------------------------------------------------------------------------
(* Running a mutation. *)

(* A run that found the mutation dispatched looks only for its commit, in  *)
(* the record it claimed.                                                  *)
Recover(r) ==
  /\ pc[r] = "recover"
  /\ Decide(r, IF my[r].published THEN "published" ELSE "unknown")
  /\ UNCHANGED <<phase, table, at, my, seen, child>>

DispatchCancelled(r) ==
  /\ pc[r] = "dispatch"
  /\ inv = "cancelled"
  /\ Decide(r, "cancelled")
  /\ UNCHANGED <<phase, table, at, my, seen, child>>

(* Mutant: the mark does not look at the runner. *)
DispatchUnguarded(r) ==
  /\ pc[r] = "dispatch"
  /\ inv # "cancelled"
  /\ my' = [my EXCEPT ![r].dispatched = TRUE]
  /\ act' = [act EXCEPT ![at[r]] = my'[r]]
  /\ Goto(r, "spawn")
  /\ UNCHANGED <<phase, runner, late, inv, leased, held, at, seen, outcome, child>>

(* Mark the mutation dispatched, before anything is done, if the row still *)
(* names this run.                                                         *)
Dispatch(r) ==
  /\ pc[r] = "dispatch"
  /\ inv # "cancelled"
  /\ runner[at[r]] = r
  /\ my' = [my EXCEPT ![r].dispatched = TRUE]
  /\ act' = [act EXCEPT ![at[r]] = my'[r]]
  /\ Goto(r, "spawn")
  /\ UNCHANGED <<phase, runner, late, inv, leased, held, at, seen, outcome, child>>

(* The row does not name this run, or the transaction throws: it is rolled *)
(* back, but the run's own copy is already marked.                         *)
DispatchFails(r) ==
  /\ pc[r] = "dispatch"
  /\ inv # "cancelled"
  /\ my' = [my EXCEPT ![r].dispatched = TRUE]
  /\ Goto(r, "caught")
  /\ UNCHANGED <<phase, table, at, seen, outcome, child>>

Spawn(r) ==
  /\ pc[r] = "spawn"
  /\ child' = [child EXCEPT ![r] = "started"]
  /\ Goto(r, "waiting")
  /\ UNCHANGED <<phase, table, at, my, seen, outcome>>

(* The worker checks the runner's lease, the dispatch and the publication. *)
ChildEnters(r) ==
  LET a == at[r] IN
  /\ child[r] = "started"
  /\ runner[a] = r /\ a \notin late
  /\ inv # "cancelled"
  /\ act[a].dispatched /\ ~act[a].published
  /\ child' = [child EXCEPT ![r] = "working"]
  /\ UNCHANGED <<phase, table, pc, at, my, seen, outcome>>

(* publication_action: the row names this run, its deadline is ahead, and  *)
(* the mutation has no publication yet.                                    *)
MayLink(r) ==
  LET a == at[r] IN
  runner[a] = r /\ a \notin late /\ act[a].dispatched /\ ~act[a].published

(* The knowledge revision and its pointer commit together. *)
ChildPublishes(r) ==
  /\ child[r] = "working"
  /\ MayLink(r)
  /\ act' = [act EXCEPT ![at[r]].published = TRUE]
  /\ child' = [child EXCEPT ![r] = "published"]
  /\ UNCHANGED <<phase, runner, late, inv, leased, held, pc, at, my, seen, outcome>>

(* It is done, was refused, threw, or was killed: on the wall budget or a  *)
(* cancellation by its parent, or by anything else.                        *)
ChildEnds(r) ==
  /\ child[r] \in {"started", "working", "published"}
  /\ child' = [child EXCEPT ![r] = "done"]
  /\ UNCHANGED <<phase, table, pc, at, my, seen, outcome>>

(* Mutant: a run cancelled meanwhile reports that, not the commit. *)
ParentTrustsCancel(r) ==
  /\ pc[r] = "waiting"
  /\ child[r] = "done"
  /\ Decide(r, IF inv = "cancelled" THEN "cancelled"
               ELSE IF act[at[r]].published THEN "published" ELSE "unknown")
  /\ UNCHANGED <<phase, table, at, my, seen, child>>

(* The parent looks for the commit, however the child ended. *)
ParentReads(r) ==
  /\ pc[r] = "waiting"
  /\ child[r] = "done"
  /\ Decide(r, IF act[at[r]].published THEN "published" ELSE "unknown")
  /\ UNCHANGED <<phase, table, at, my, seen, child>>

-----------------------------------------------------------------------------
OwnerStep ==
  \/ \E a \in Actions : Propose(a)
  \/ Finish \/ Cancel \/ ReleaseOwner \/ ClaimOwner

ReadStep(r) ==
  \/ Prepare(r) \/ SaveJob(r)
  \/ ExecuteReads(r) \/ ExecuteClaims(r) \/ ExecuteRefused(r)
  \/ (\E o \in Outcomes : BackendPublishes(r, o)) \/ BackendFenced(r)

MutationStep(r) ==
  \/ Recover(r)
  \/ DispatchCancelled(r) \/ Dispatch(r) \/ DispatchFails(r) \/ Spawn(r) \/ ParentReads(r)
  \/ ChildEnters(r) \/ ChildPublishes(r) \/ ChildEnds(r)

RunStep(r) ==
  \/ \E a \in Actions : RunClaim(r, a)
  \/ \E readable \in BOOLEAN : Catch(r, readable)
  \/ Heartbeat(r) \/ Settle(r) \/ Throw(r) \/ Abandon(r)

TimeStep ==
  \/ OwnerExpires
  \/ \E a \in Actions : RunnerExpires(a)
  \/ \E S \in SUBSET Reads : RecoverJobs(S)

Next ==
  \/ OwnerStep \/ TimeStep
  \/ \E r \in Runs : RunStep(r) \/ ReadStep(r) \/ MutationStep(r)

Spec == Init /\ [][Next]_vars

-----------------------------------------------------------------------------
(* Properties. *)

TypeOK ==
  /\ phase \in [Reads -> Life!Phases]
  /\ act \in [Actions -> ActionRecord]
  /\ runner \in [Actions -> Runs \cup {NoRun}]
  /\ late \in SUBSET Actions
  /\ inv \in {"ready", "running", "waiting_for_job"} \cup Terminal
  /\ leased \in BOOLEAN
  /\ held \in SUBSET Runs
  /\ pc \in [Runs -> PCs]
  /\ at \in [Runs -> Actions \cup {NoAction}]
  /\ my \in [Runs -> ActionRecord]
  /\ seen \in [Runs -> Life!Phases \cup {None}]
  /\ outcome \in [Runs -> Results \cup {None, "waiting_for_job"}]
  /\ child \in [Runs -> {"none", "started", "working", "published", "done"}]

(* A mutation is dispatched at most once, whichever runs stall, die or     *)
(* take its action over: no interruption replays it.                       *)
DispatchedOnce ==
  [][\A r \in Runs : pc[r] = "dispatch" /\ pc'[r] = "spawn" => ~act[at[r]].dispatched]_vars

(* A committed publication is never lost from its action's record, though  *)
(* runs write the whole record back from copies they read earlier; and     *)
(* none lands behind an action's back: once it has a result, the worker of *)
(* a run that lost it can no longer commit.                                *)
PublicationSticks ==
  [][\A a \in Actions :
       act[a].published \/ act[a].result # None => act'[a].published = act[a].published]_vars

(* What a settled mutation says is true of the knowledge store: it claims  *)
(* a publication only if one was committed, and denies one ("failed",      *)
(* "cancelled") only if none was.                                          *)
MutationResultIsTrue ==
  \A a \in Mutations :
    CASE act[a].result = "published"          -> act[a].published
      [] act[a].result \in {None, "unknown"}  -> TRUE
      [] OTHER                                -> ~act[a].published

(* A mutation's result changes at most from unknown to the publication     *)
(* that was found later: a stale run never overwrites it.                  *)
MutationResultSticks ==
  [][\A a \in Mutations :
       act[a].result # None /\ act'[a].result # act[a].result =>
         act[a].result = "unknown" /\ act'[a].result = "published"]_vars

(* A read that reports useful evidence reports its own job's result. *)
ReadResultIsTheJobs ==
  \A a \in Reads : act[a].result \in Useful => phase[a] = act[a].result

(* An investigation that is finished or cancelled stays so, although runs  *)
(* that were active or stalled at the time still settle their actions.     *)
TerminalSticks ==
  [][(inv \in Terminal) => (inv' = inv)]_vars

(* What docs/harness.md says of completed runs: repeating one returns the  *)
(* same result, which therefore stays in the record.                       *)
CompletedReadSticks ==
  [][\A a \in Reads : act[a].result \in Useful => act'[a].result = act[a].result]_vars

(* What docs/harness-derived.md says of uncertain mutations: an identical  *)
(* one is not dispatched under another key.                                *)
UncertainNotReplayed ==
  [][\A r \in Runs : pc[r] = "dispatch" /\ pc'[r] = "spawn" =>
       \A b \in Mutations \ {at[r]} :
         Request[b] = Request[at[r]] => act[b].result # "unknown"]_vars
=============================================================================
