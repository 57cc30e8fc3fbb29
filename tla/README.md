# IndagoRev in TLA+

IndagoRev is a command line for reverse engineering. Its analyses run in separate
processes that share one workspace: an SQLite database, a content store and a few
convenience files. Nothing coordinates these processes but the database, and any of
them may crash, be suspended past a deadline and wake up again. On top of that stand
batches, investigations led by a model, runtime sessions, guests, and a native engine
(AIRece) that recovers expressions, control flow and data flow. This directory models
the coordination, and of the engine the algorithms whose answers are easy to get wrong.

Paths are relative to the repository's `src/` directory or, for AIRece, to
`components/airece/src/`.

## 1. Inventory

| Component | State it keeps | Operations | Hard behaviour | What makes it correct |
|---|---|---|---|---|
| Job store (`core.cpp`) | tables `jobs`, `job_leases`, `job_events`, `idempotency`, `evidence`; the derived index; `.cancel` files; `analyses/<revision>.json` | start, claim, heartbeat, publish, recover, cancel, reindex | leases that expire under a live owner, late publication, crash between commit and file | a job runs once and ends once, and everything derived from it agrees |
| Static service (`service.cpp`) | the call's copy of the job, its token, `lease_lost` | prepare, execute | heartbeat thread beside the main one, exceptions at every step | what is published is what the holder's backend said |
| Batches (`workbench_batch.cpp`) | `wb_batches`: record, owner, deadline, cancel flag | create, run, cancel | two owners, stale copies of the record, reservation before submission | budget, dependencies and every recorded success are kept |
| Harness (`harness.cpp`, `workbench_publication.hpp`, `harness_*.hpp`) | `wb_investigations`, `wb_investigation_actions`, the ledger | claim, release, cancel, propose, run, finish, reason, certify | a mutation's outcome may be unknown, its worker may outlive the parent | a mutation is dispatched once, its result is true; an answer is proved as asked |
| Model controller (`model_controller.cpp`) | `wb_model_runs`, requests at the provider | run, resume | crash during a paid request, refunds, rate limits | one request at a time, marked and paid for before it is sent; a decision resumes as it was saved |
| Storage lease, retention, bundles (`storage_lease.hpp`, `workbench_bundle.cpp`) | `storage.lease`, objects, plans, quarantine | open, publish, retention, export, import | contents that no row names yet, two databases without a common transaction | what a row names is in the store |
| Knowledge (`knowledge.cpp`) | `wb_records`, `wb_heads`, `wb_dependencies` | put, show, list, refresh, impact | compare and swap, pins that go stale, reads in several statements | no revision is lost, pins have no cycle, freshness is true |
| Graph, artifacts, manifests (`knowledge_graph.cpp`, `knowledge_artifacts.cpp`, `system_manifest.cpp`) | rows of the project | walk, recognize, transform, preflight | bounds, changes between pages, calls that die halfway | an answer that is not partial lacks nothing |
| Runtime sessions (`runtime.cpp`, `runtime_gdb.cpp`, `runtime_rr.cpp`) | the session's record, queue of requests, cancel counter, collected events | launch, requests, cancel, expiry, instrument, record, replay, read pages | owner dies, cancel before the worker looks, repeated events, reuse of pids | requests once and in order; what the record and the evidence say happened |
| Guests (`guest.cpp`) | receipt, overlay, unit | run, cancel, reconcile, prune | the unit outlives its process | stopped means stopped |
| Experiments, helpers, research (`harness_experiment.cpp`, `analysis_helper.cpp`, `research_workflow.cpp`) | journal; receipt; records | run, reconcile, cleanup; propose, validate; propose, compare, publish | death between journal and act; artifacts and tools that change | a known outcome is true; a validation is earned |
| Native workers (`airece_worker.cpp`) | process group, pipes, cache of versions | run | descendants hold the pipes, cancel, deadline | complete means all of it |
| AIRece session (`session/analysis_session.cpp`) | parts of the session, tokens, watchdog | open, views, destroy | deadline while `open` returns | no use of what is gone or was not built |
| AIRece flow (`semantic/directed_flow.cpp`) | tags, work list | taint, paths, solver queries | order of operations, limits | no flow is said only when there is none |
| AIRece text (`semantic/expression_view.cpp`, `semantic/control_view.cpp`, `emit/semantic_text.cpp`) | none | render values, regions, pseudocode | loads across stores, fall-through | the text means what the code does |
| Agent (`agent/long-run.mjs`, `agent/question-queue.mjs`) | run file, queue, lock | start, batch, review | supervisor dies, worker goes on | attempts bounded, no second worker |

They interact through the workspace. `main.cpp` calls the service; batches and the
harness's reads call `service.prepare` and `service.execute`, which call the store.
Mutations run in a child process that publishes a knowledge record, and its pointer in
the action's record, in one transaction. The controller proposes actions to the harness.
Each operation opens a connection of its own, and each connection holds the storage
lease in shared mode, which is what retention excludes.

`PROJECT.json` lists for every component what is modelled and what is not, and the
hazards: the places where a step of one actor between two of another, a crash, a late
answer or a limit would hurt, with the property that would notice.

## 2. Modules

| Module | Models |
|---|---|
| `JobLife` | what a job promises: submitted, started, ended once. The abstract specification of `JobStore`, and the interface `BatchRun` and `HarnessActions` use |
| `JobStore` | tables, leases, index, files and calls, one action per transaction |
| `BatchRun` | the row of a batch and the runs that work on copies of it |
| `HarnessActions` | rows of actions, runs, workers that outlive them, owner and investigation |
| `ModelController` | the row of a model run and the controllers that resume it, step by step |
| `Reasoning` | hypotheses, proofs, solutions and reports of an investigation |
| `Capsule` | normalization of mutations, grants, and components admitted to the scope |
| `Research`, `Helper`, `Experiment` | workflows; the two passes of a helper; journal and sessions of an experiment |
| `LongRun` | the agent's supervisor, its worker and the queue both write |
| `Retention`, `Bundle` | storage lease, publication and quarantine; export and import |
| `Knowledge`, `GraphWalk`, `Recognize`, `Manifest`, `Derive`, `Codec` | records and pins; walks; scans; launch order; derived artifacts; decoders |
| `RuntimeSession`, `RuntimeCollect`, `Evidence`, `Identity`, `Guest`, `NativeWorker` | sessions; instrumented runs; calls, lifetimes and pages; identities; guests; child processes |
| `AnalysisOpen`, `FlowTaint`, `DirectedFlow`, `ExpressionView`, `ControlView`, `Pseudo` | AIRece |
| `MC*` | small instances for TLC |
| `*Proofs` | theorems (section 5) |

Each module's header says how its variables correspond to the code, and the `map` of
`PROJECT.json` gives the lines of every definition. What they have in common:

* One transaction is one action. A connection runs `BEGIN IMMEDIATE`, and an exception
  rolls it back; so the code is cut at its transactions, its writes of files, and where it
  starts or waits for a process. What a process remembers between two of them is a
  local variable of the model (`my` is its copy of a record), and may be stale.
* A crash, or an exception outside a transaction, is an action that is possible at every
  such point (`Abandon`, `Die` and the like). Whoever died may be followed by another.
* A clock is a flag, "the deadline has passed", which may become true at any moment and
  is undone by a heartbeat, so that a stalled process may wake up after its deadline.
* Tokens are abstracted to the identity of who drew them; digests to the contents.
* The outcome of a backend, a provider, a debugger or an unit is chosen freely.

Of the four modules about jobs and actions in more detail. In `JobStore`, `status`,
`request` and `result` are the row of a job, `owner` and `expired` its row of
`job_leases`, `heads`, `layout` and `basis` the derived index, and `pc`, `job`, `token`,
`outcome` and `lost` the locals of a call. `PublishUnclaimed` covers the callers that
publish without a lease: a submit whose worker could not be spawned, and runtime feedback.
In `BatchRun`, `rec`, `owner`, `expired` and `cancel` are the row; `my`, `at`, `retry` and
`lost` belong to a run; attempt n of step s uses the key `id:sha256(name):n`, which
`start_job` binds to one job, so the job is `<<s, n>>`; one cost stands for wall time and
for output bytes, which are reserved alike. In `HarnessActions`, `act`, `runner` and `late`
are the rows of actions, `inv` the status of the investigation, `leased` and `held` its
owner token, and `child` the worker of a mutation. In `ModelController`, `row` is the row
of `wb_model_runs`, `my` a controller's copy of its record, `mine` whether it still runs
it, and `sent` the generations that were sent to the provider.

## 3. Runs

Components that share no state are checked in one run: an MC module instantiates them, a
variable `part` says which of them moves, and the variables of the others are still. The
property of such a run is a conjunction, "if this part moves, then its properties hold";
the properties themselves stand in the component's module, each with its comment. It
is the same as a run for each, and nothing is composed that the code keeps apart.

| Run | Parts and instances | Shows |
|---|---|---|
| `jobstore` | 1 job with 3 calls; 2 jobs with 2 calls and 2 scopes; 1 key each | one call runs the job; the lease follows the status; the result is the runner's; ended jobs stay as they are; `JobLife` is implemented; heads name the latest useful result; a rebuild at any moment reproduces the index |
| `batch_runs` | 2 runs, 2 dependent steps, budget for 3 jobs | budget, dependencies, attempts, truth and persistence of the record |
| `harness_actions` | 2 runs, 1 read, 2 mutations | dispatched once; results are true and stick; nothing lands after a result; ended investigations stay ended |
| `investigations` | requests (2 controllers, 2 generations), workflow, repairs; reasoning over observed, recovered and graded answers; the agent's queue with 3 questions and, with a fault, 2; research with one pair and with two; a capsule; a helper | `OneRequest`, `ControllerResumes`, `AnswersAreProved`, `LongRunIsOrderly`, `ActionsAreTrue` |
| `workspace` | retention (2 contents, 1 publisher, 1 keeper, and 2 publishers of 1 content), bundles (export and damage; two importers), derivation (2 callers), order, preflight, codecs, sessions and traces, collections of every engine, experiments (2 cases; 2 companions), guests and replays, evidence (4 instances), identities | `ReferencedIsStored`, `MovesWerePlanned`, `CopiesAreWhole`, `SessionsAreTrue`, `RunsAreTrue`, `EvidenceIsTrue` |
| `analysis` | records (3 records, 2 writers), readers, lists of all records and of those that fit a filter, walks still and moving, recognition, taint with and without limits, paths and checks, native workers, text of memory, logic, flags, orders and cuts, control, pseudocode (4 blocks with ifs and loops, 5 with switches) | `NoCycles`, `NoLostRevision`, `CompleteIsTrue`, `FlowIsTrue`, `TextIsTrue` |
| `ends` | opening a session in all orders; and, under fairness, nine components | `OpenIsSafe`, `DeadlineEndsWithOpen`, `ComponentsEnd` |
| `batch_repeat`, `batch_interrupted`, `harness_read_lost`, `harness_replay` | 2 runs, 1 or 2 items | disagreements between documents and code (section 4) |
| `long_review` | the agent's queue with 2 questions and 1 fault | the same |

Bounds. Contention is between an owner and one that takes over, so two are enough for
takeover, and three calls let a submitter without a lease meet an owner and a late
claimer. Two jobs are the fewest for which the order of evidence, a shared key and a
second head of a scope matter. Two steps are the fewest with a dependency; `MaxAttempts`
(2) and `MaxRepeats` (3) are the code's limits. A budget of 3 jobs and a cost of 4 admit
one retry and refuse the next. Other limits of the code (pages, queue, depth, bytes,
queries) are scaled down until an instance goes beyond them: a page of two of four rows,
an output of two pieces with room for one in the pipe, a bound of five states. The
functions given to taint, paths and text are families chosen for their shape (loops
and recursions, stores beside loads, diamonds, all functions of four
blocks, switches over five). In most
models nothing else is bounded, for every process is one use of a command; counters that
would grow (revisions, faults, changes, generations) have a constant that begins with
`Max`.

Deadlock is not checked, because everything may be over: the systems terminate. Symmetry
is used for safety only, over jobs, calls, runs, controllers and signatures, which are
compared for equality only; action properties quantify over all the values permuted.
`ends` uses none.

Fairness. Only `ends` assumes any. A process's own steps are weakly fair: transactions have
a busy timeout, backends and requests a time limit, loops end. Fair are also the clock (a
deadline comes), the host of an instrumented run (it has a time limit), the service
manager that kills a unit at its deadline, and somebody who reconciles and prunes a
guest. Nothing is assumed of crashes, cancels, claims, expiries of leases, heartbeats or
owners of other jobs. `ComponentsEnd` then says that each component ends, with those who
die counted as ended.

Every property has a mutant: a definition changed as a plausible defect of the code would
change it, with which the run violates the property. Mutants stand beside the
definition they change, marked `Mutant`.

## 4. Disagreements

Shown by runs. In 1 to 4 two processes interleave between two lines of one of them; in 5 a
process dies between two writes:

1. `SuccessNotRepeated` (`batch_repeat`). `docs/knowledge-workbench.md` says that completed
   and partial steps are not repeated. A run that sees its step's job running, recovers,
   and sees it completed at the second look treats it as settled but not as successful;
   with `retry_failed` it erases the job and submits another.
2. `InterruptedIsRetried` (`batch_interrupted`). The same page offers `retry_failed` for
   interrupted steps. If somebody else recovered the job, the record still says
   "running", the retry branch is skipped, and `claim_job` refuses the terminal job at
   every later run.
3. `CompletedReadSticks` (`harness_read_lost`). `docs/harness.md` says that a repeated
   completed run returns the same result. `save_action` does not look at the runner, so a
   stalled run removes the result from a settled action.
4. `UncertainNotReplayed` (`harness_replay`). `docs/harness-derived.md` says that a new key
   cannot replay an identical uncertain mutation. That is checked at the proposal only, so
   a proposal that was there before is dispatched.
5. `EveryInterruptionReviewed` (`long_review`). `docs/long-investigations.md` says that an
   interrupted batch requires a review and then `--acknowledge-interruption true`. The
   outcome of a batch and the demand for its review are two writes
   (`agent/long-run.mjs:100`, `:102`); a supervisor that dies between them, or whose second
   write fails, is resumed without an acknowledgement. `ReviewedBeforeNext`, which the passing
   runs check with and without faults, excepts exactly the batches this happened to
   (`unasked`) and says that there is no other way.

Seen while the other components were modelled. No run here shows them. Where a property
of a passing run would meet one, either the property names it as an exception, or its
instance leaves that input out and the property is to be read with that restriction; the
second column says which.

| Code | Excepted in, or left out of | Observation |
|---|---|---|
| `model_controller.cpp:887`, `:900` | not stated | a request with an unknown outcome, or a third repair, is asked for again when the terminal report could not be published |
| `workbench_bundle.cpp:217` | `Bundle`: sessions end `exited` | a project whose session ended cancelled or completed is exported, and its bundle cannot be imported |
| `workbench_bundle.cpp:519` | not stated | two exports to one new directory both pass the look, and the second overwrites the first |
| `runtime.cpp:1472` | `RuntimeSession`: one worker | a second worker may claim a session that is still starting |
| `runtime.cpp:1828` | not stated | a debuggee killed at the end of its lifetime is recorded as exited |
| `runtime.cpp:706` | not stated | a cancel acknowledged before the worker of an instrumented run read the counter is not seen |
| `runtime.cpp:780` | excepted in `RuntimeCollect!CompletedIsWhole`: frida only | a frida run with a line that does not parse is completed although the rest was dropped |
| `harness_experiment.cpp:826` | `Experiment`: `Repeated` is FALSE | a journal of an equal request of the same investigation is taken for one's own |
| `harness_experiment.cpp:879` | not stated | a step that was answered before its process died stays unknown |
| `guest.cpp:188`, `:222`, `:707` | not stated; replay guests run one after the other | the quota is counted once; a private directory no receipt names; reconcile may overwrite a completed receipt |
| `semantic/directed_flow.cpp:828`, `:1032`, `:1381` | taint programs without such calls; not stated | memory tags reach the result of an unmodelled call; a search that timed out ends as complete; an untranslatable path leaves the verdict of the one before |
| `airece_worker.cpp:428`, `:90` | not stated; one content of the file | the status ignores `output_complete`; a version is cached under a digest taken before the probe |
| `research_workflow.cpp:164` | not stated | retained counterexamples beyond 32 are left out of the proposed tests |
| `runtime_gdb.cpp:227` | not stated | a forked child's thread gets an identity with the parent's process |
| `harness_verification.hpp:74`, `:121` | `Reasoning`: `Legacy` is FALSE; not stated | an old proof stands in front of the one made anew; a graded report says `verified_solve` |
| `knowledge.cpp:353-373` | excepted in `Knowledge!ListShowsAll` | the offset of a page counts the rows that fit the filter now: when a revision takes a record out of the list between two pages, a record after it is skipped |
| `semantic/expression_view.cpp:415` | excepted in `ExpressionView!TextMeansValue`: texts marked `misturned` | the negation of an ordering may turn an equality that is one of its operands |
| `semantic/expression_view.cpp:482` | not stated; alphabets without two flags of one load | a load is written out once per flag |
| `semantic/control_view.cpp:713` | not stated | a latch that chooses between two blocks of the loop is shown as its condition |
| `emit/semantic_text.cpp:620`, `:643`, `:667` | excepted in `Pseudo!TextIsFaithful`: structures that are `Misprinted` | a loop left on true is printed inverted; a case or latch that is gone to from elsewhere has no label; a structure whose join is printed before it, is gone to from elsewhere or is one of its own cases runs on into what is printed next |

## 5. Proofs

Eight modules prove theorems, for all values of the constants that satisfy the named
assumption of their module. Each follows one pattern: an inductive invariant, `Init`
implies it, every action keeps it (one lemma or step per action), and each property
is a consequence. Two modules prove about more than one component: `SessionProofs` extends
`AnalysisOpen` and instantiates `RuntimeSession` and `Guest`, `InvestigationProofs` extends
`LongRun` and instantiates `Helper`; the components share nothing there, and each theorem
is of one of them. One hypothesis goes beyond assumptions on constants alone: the theorems
on debugger sessions take `OneWorker` (the launcher spawns one; a second one is
the disagreement at `runtime.cpp:1472`). `ListsAreWhole` and `UnfinishedBatchesAreReviewed` are
proved for any filter and for any number of faults, with the exceptions that their
properties name (section 4).

| Module | Theorems | Inductive invariant |
|---|---|---|
| `JobStoreProofs` | `NoJobRunsTwice`, `LeaseIffRunning`, `HolderDecidesResult`, `TerminalJobsAreFinal`, `StoreImplementsJobLife`, the properties of keys, events and the file; `AllTypes`, `IndexReplaysEvidence`, `HeadsAreLatestUseful` | `IInv`, `IndexInv` |
| `BatchRunProofs` | `BatchTypes`, `BudgetBoundsJobs`, `RetriesWait`, `DependenciesComeFirst`, `RecordsAreTrue`, `SuccessStays` | `BInv` |
| `HarnessActionsProofs` | `HarnessTypes`, `MutationResultsAreTrue`, `ReadResultsAreTheJobs`, `MutationsAreDispatchedOnce`, `PublicationsStick`, `MutationResultsStick`, `ReportsAreFinal` | `HInv` |
| `ModelControllerProofs` | `OneRequestHolds`, with its three parts, and `DecisionsResume` | `MInv`, `RInv` |
| `RetentionProofs` | `ReferencesSurvive`, `MovesArePlanned` | `IInv`, `Planned` |
| `KnowledgeProofs` | `NoRevisionIsLost`, `RevisionsAreKept`, `PinsAreWellFounded`, `NoRevisionRestsOnItself`; of readers `CurrentIsTrue`, `StaleIsTrue`, `ListsAreWhole`, `ImpactIsWhole` | `KInv`, `WellFounded`, `Few`, `ReadInv`, `ListInv` |
| `InvestigationProofs` | of the agent's queue `QuestionsAreNotRetriedForever`, `OneQuestionIsActive`, `NoSecondWorker`, `BatchesStartOnEvidence`, `CompletedRunsAreAnswered`, `UnfinishedBatchesAreReviewed`; of helpers `ValidationHolds`, `RepetitionHolds`, `SealHolds` | `QueueInv`, `Acknowledged`; `HInv` |
| `SessionProofs` | of opening `OpenStaysSafe`, with its two parts, and `DeadlineIsOver`; of debugger sessions `RequestsGoInOrder`, `RecordsEndTruly`, `AnswersAreRecorded`, `NothingIsHalfDone`, `CancelsAreSeen`; of guests `StoppedGuestsAreStopped`, `RetainedIsTakenStill`, `CompletedGuestsAreWhole` | `OpenInv`; `SInv`; `GuestInv` |

Why the invariants are needed:

* **Job store.** None of the properties is inductive without `CallsInOrder`: what a call has
  at each point (one in its backend holds a token and its job has no result; one that
  writes the file published that result). `QuietFrame` disposes of the actions that leave
  rows and tokens alone, `StepCases` names the others. The central lemmas are
  `ClaimFindsQueued` (a job that can be claimed was never started, because recovery removes
  the lease and the status together) and `PublishIsTheHolders`. Every step of `JobStore` is
  then a step of `JobLife` or a stutter.
* **The derived index.** The code maintains it row by row, and `reindex` rebuilds it: that both
  agree is a statement about a fold over evidence of any length. The replay is therefore
  written as a recursive function (`IsTable`), and that it is determined by the evidence is
  proved by the least place where two tables could differ: `<` on numbers is
  well founded, which the library states without an operator as a parameter. `IndexInv` then
  needs one step: a publication adds to the index what it adds to the evidence. A head is
  the latest useful result because every entry of the table is (`HeadIsLatestUseful`).
* **Batches.** `BInv` relates three things: the record (`StoredInv`), the jobs (`JobsInv`) and,
  for each run, its copy and where it stands (`RunInv`). A stale copy is harmless for a
  reason that has to be said: it was the record once, and jobs only move on (`Later`), so
  what it claims of them stays true; and it is saved only while the row names its run. The
  submitted jobs lie among those the record allows, whose number and cost it has reserved.
* **Harness.** Runs keep copies too, but write some of them without looking at the row.
  `RunnersKnow` says which copies matter: of all that hold a mutation's record only the run
  that its row names may write it, and that run's copy knows of every dispatch. With
  `CopiesWereTrue` and `OutcomesAreTrue` no stale outcome can contradict a publication. For
  reads nothing like it holds, which is the third disagreement.
* **Controller.** `Alone` (who asks, asks alone), `Marked` (under the mark of the durable
  record), `Yields` (whoever runs the row meanwhile only ends), and `Reserved`, which counts
  refunds against generations. Resuming (`RInv`) rests on stale copies again: a controller
  that lost the row still carries its decision out until a call refuses it. `Decides` says
  that the durable record, and the copy of whoever may write it, knows of every generation
  that anybody carries out, acts for or has reasoned for; `KnownStays` is why that lasts, and
  so why no answer is ever given to a generation that is being carried out already
  (`AnswerFits`). `Agree` and `PinsAgree` then say that all copies of one decision expect the
  same revision and pinned the same request, which is older than the revision, or the cost of
  the action, once it was applied or made; assisted requests are all alike (`Single`).
  `Costed` has the cursor of a workflow, and `BackedOff` says that until the time a 429 asked
  for, whoever runs the row knows of it or only ends, which needs `Yields`. The proofs go by
  the few shapes a step has (`Shaped`, `Walks`, `Leaves`, `Claims`: `Moves`) instead of by action.
* **Retention.** `Places`, `Leases`, `Written` and `Searched` say what a publisher has stored but
  not yet named, and what the maintainer has searched under the exclusive lease. `Planned`
  adds that what is being moved is old and was on an operator's plan.
* **Knowledge.** `WellFounded`: of any set of revisions one pins nothing in the set, because a
  new revision pins only what was there; so pins have no cycle among any number of records.
  `NoCycles` says it with the closure that the code computes. What the iteration reaches is
  closed under pins after at most as many rounds as there are revisions (`Few`), so it is the
  least closed set, and a revision in its own closure would contradict `WellFounded`.
  A reader gathers its answer in several statements. `ReadInv` holds whatever the writers did
  between them, for two reasons: a revision never changes, and once it is not current it
  never is again. `ListInv`: a record of the list that has not been shown has at least as many
  rows before it as the reader has passed, because a row that is added never takes a place
  away from those after it; a row that leaves does, and is then in `LeftSince`, which forgets
  nothing (`LeavingIsNoted`). Impact is closed under dependents, which is all that a step that
  makes something stale can use.
* **The agent's queue.** The supervisor's memory, `supervisor.json` and the queue belong to
  two processes, and `QueueInv` counts across them: every batch on record was preceded by an attempt
  of its question in the queue (`Counted`, with the attempt `next` has made and the batch not
  yet on record), so the bound on attempts bounds batches through any crash. `OnlyOne` holds
  because `next` reopens everything before it takes a question. `Locked`, where a worker is
  alive the lock is there and a batch on record, is what keeps a second worker away.
  `Acknowledged` says what the disk asks for when nobody runs: a review, unless all unfinished
  batches are covered by an acknowledgement or are among those whose supervisor died between
  the two writes.
* **Helpers.** What each pass has seen and pinned, and that nothing is claimed before the
  verdict.
* **Debugger sessions.** `SInv` has the one worker's copy of the record equal to the row as long
  as it may write it, the begun requests as a prefix of the queue, each result saved before
  its response is written, and for every status that tells an end what became of the debuggee;
  the death of the worker freezes all of it, and expiry adds only what is true then.
* **Guests.** Whoever writes "stopped" has seen it, and `late` (the deadline passed) and a unit
  that is over stay so; what was taken from the guest was taken after that.
* **Opening.** Which object refers to which, and which token the watchdog may still touch.

The inductive invariants of batches and of the harness were checked by TLC on the instances
of `batch_runs` and `harness_actions` before they were proved, those of the controller on one
to three controllers with plans of both kinds, those of sessions, guests and the
queue on instances as small as the ones of their runs.

Only model-checked:

* liveness (`ComponentsEnd`): fairness and ENABLED are beyond the prover;
* the conjunctions over several components (`AnswersAreProved`, `LongRunIsOrderly`,
  `ActionsAreTrue`, `SessionsAreTrue`, `EvidenceIsTrue`, `CopiesAreWhole`,
  `RunsAreTrue`, `CompleteIsTrue`, `FlowIsTrue`, `TextIsTrue`) as such: they fix constants
  and join components. Of their parts these are proved, for other constants:
  all that `LongRunIsOrderly` says of the queue and, as
  `DecisionsResume`, of controllers; what `ActionsAreTrue` says of a helper, what
  `SessionsAreTrue` says of a debugger session, what `RunsAreTrue` says of a guest, and what
  `CompleteIsTrue` says of readers of records;
* reasoning, capsules, research, experiments, bundles, derivation, manifests, collections,
  evidence and walks: their properties compare contents or walk over data;
* AIRece's algorithms, whose modules declare recursive operators or compute over data, which
  would take an induction over that data.

## 6. Not modelled

Contents (native JSON, normalization of rows, addresses, wording), the Windows halves, the
debugger backends and the translators of static backends, whose answers are choices in the
models. Of AIRece: variables, compact views, enrichment, JSON and the command line, which
are sequential passes over tables or printing, and of the session everything but
`open`, what its views may use and the destructor. Of the agent: the front ends. Of the
harness `checkpoint` and the built-in reads, which change no state. Of the knowledge store
the lists of a record's history; a filter is modelled by the set of revisions that fit it.
The components of
`PROJECT.json` say it file by file.

## 7. Plan

What is left is to prove: the grant and the truth of results (`Capsule`), that a known
outcome of an experiment is true (`Experiment`), and that what an importer has committed is
whole (`Bundle`), each with an inductive invariant found with TLC first; and to model the
views of AIRece that are not pure printing.
