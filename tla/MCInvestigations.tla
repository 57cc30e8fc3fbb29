-------------------------- MODULE MCInvestigations --------------------------
(***************************************************************************)
(* Investigations on small instances: the controller that asks a model,    *)
(* with its own plan and with a workflow's, the judgement of answers, long *)
(* runs, research, derived capsules and the validation of helpers.  The    *)
(* components share no state, so each is checked by itself, in one run:    *)
(* part says which of them moves, the variables of the others are still.   *)
(***************************************************************************)
EXTENDS ModelController, Integers, TLC

CONSTANTS Actions, Ids, Solo, Unset

VARIABLES
  part,  \* the component that moves
  workflowRow, workflowLate, workflowInv, workflowToken, workflowLeaseLate, workflowDue,
  workflowAct, workflowLeft, workflowRev, workflowPc, workflowMy, workflowMine,
  workflowBeating, workflowCancelled, workflowThen, workflowSent, workflowUnknown,
  workflowReasoned,
  required, prints, reasoningRuns, source, hyps, cands, exps, recs, proofs, sols,
  obligations, revision, met, solved, verifications, report, audit,
  questions, receipt, longRunRun, disk, lock, longRunPc, picked, before, longRunWorker,
  marker, unresolved, abort, acked, unasked, faults, longRunChanges,
  records, recipes, found,
  capsuleRev, author, targets, derived, reserved, request, started, pub, result,
  capsuleRun, capsuleWorker, lost, capsuleCancelled, moves, capsuleRuns,
  artifact, tool, helperChanges, language, validation, sealed, helperPc, hashed, image,
  stages, body, seen

(* What the model may decide with a plan of its own; of two controllers, what *)
(* changes the investigation.                                                *)
GeneralKinds == {"analyze", "reason", "finish"}
DecidingKinds == {"reason", "finish"}

(* Evidence "a" yields text 1, "b" yields nothing and is incomplete. *)
Recovered == [s \in {"a", "b"} |-> IF s = "b" THEN Unset ELSE 1]
Each(facts, kinds) == {[f \in facts |-> k] : k \in kinds}
Pairs == {g \in [{1, 2} -> {"recovered_candidate", "independently_graded"}] :
            \E f \in {1, 2} : g[f] = "independently_graded"}

(* Two sources that are wrong differently: the first of the first two      *)
(* inputs, the second of the third.                                        *)
Programs == <<<<0, 0, 1>>, <<1, 1, 0>>>>

(* Two roots; what one of them holds can be taken apart once more. *)
Held == [s \in {"root", "inner", "side"} |->
           CASE s = "root" -> "inner" [] s = "inner" -> "core" [] s = "side" -> "bit"]
Bytes == [s \in {"root", "inner", "core", "side", "bit"} |-> IF s \in {"side", "bit"} THEN 1 ELSE 2]

Symmetry == Permutations(Controllers)

Workflow == INSTANCE ModelController WITH
  MaxGenerations <- 1, Recipe <- "assisted_static", Kinds <- {}, Budget <- 2, Ask <- 1,
  FlowSteps <- 2, MaxRepairs <- 0, MaxCompactions <- 0, MaxTokens <- 1, row <- workflowRow,
  late <- workflowLate, inv <- workflowInv, token <- workflowToken,
  leaseLate <- workflowLeaseLate, due <- workflowDue, act <- workflowAct, left <- workflowLeft,
  rev <- workflowRev, pc <- workflowPc, my <- workflowMy, mine <- workflowMine,
  beating <- workflowBeating, cancelled <- workflowCancelled, then <- workflowThen,
  sent <- workflowSent, unknown <- workflowUnknown, reasoned <- workflowReasoned
Repairs == INSTANCE ModelController WITH
  Controllers <- Solo, MaxGenerations <- 2, Recipe <- "general", Kinds <- GeneralKinds,
  Budget <- 3, Ask <- 2, FlowSteps <- 1, MaxRepairs <- 1, MaxCompactions <- 0, MaxTokens <- 2,
  row <- workflowRow, late <- workflowLate, inv <- workflowInv, token <- workflowToken,
  leaseLate <- workflowLeaseLate, due <- workflowDue, act <- workflowAct, left <- workflowLeft,
  rev <- workflowRev, pc <- workflowPc, my <- workflowMy, mine <- workflowMine,
  beating <- workflowBeating, cancelled <- workflowCancelled, then <- workflowThen,
  sent <- workflowSent, unknown <- workflowUnknown, reasoned <- workflowReasoned
Observed == INSTANCE Reasoning WITH
  Answers <- {1, 2}, Sources <- {"a"}, Exact <- {"a"}, Partial <- {"b"},
  Graded <- [f \in {1} |-> {2}], Legacy <- FALSE, Bindable <- {}, MaxRevision <- 3, MaxRuns <- 1,
  MaxRecords <- 1, None <- Unset, Facts <- {1},
  Asked <- Each({1}, {"observed_output"}), runs <- reasoningRuns
Derived == INSTANCE Reasoning WITH
  Answers <- {1}, Sources <- {"a", "b"}, Exact <- {"a", "c"}, Partial <- {"b"},
  Graded <- [f \in {1} |-> {2}], Legacy <- FALSE, Bindable <- {}, MaxRevision <- 3, MaxRuns <- 0,
  MaxRecords <- 2, None <- Unset, Facts <- {1},
  Asked <- Each({1}, {"recovered_candidate", "verified_transformation", "claim"}),
  runs <- reasoningRuns
Graded == INSTANCE Reasoning WITH
  Answers <- {1}, Sources <- {"a"}, Exact <- {"a", "c"}, Partial <- {"b"},
  Graded <- [f \in {1, 2} |-> {2}], Legacy <- FALSE, Bindable <- {"output"}, MaxRevision <- 3,
  MaxRuns <- 0, MaxRecords <- 2, None <- Unset, Facts <- {1, 2}, Asked <- Pairs,
  runs <- reasoningRuns
Queue == INSTANCE LongRun WITH
  MaxQuestions <- 3, MaxChildren <- 2, MaxAttempts <- 2, MaxBatches <- 2, MaxGenerations <- 1,
  MaxFaults <- 0, MaxChanges <- 1, run <- longRunRun, pc <- longRunPc, worker <- longRunWorker,
  changes <- longRunChanges
Faults == INSTANCE LongRun WITH
  MaxQuestions <- 2, MaxChildren <- 1, MaxAttempts <- 2, MaxBatches <- 2, MaxGenerations <- 2,
  MaxFaults <- 1, MaxChanges <- 0, run <- longRunRun, pc <- longRunPc, worker <- longRunWorker,
  changes <- longRunChanges
Chain == INSTANCE Research WITH
  Inputs <- {2, 3}, Sources <- {1, 2}, Seeds <- {2}, Program <- Programs, Target <- <<1, 1, 1>>,
  PairLimit <- 1, SuggestLimit <- 2, RetainLimit <- 2, MaxRecords <- 4
Paired == INSTANCE Research WITH
  Inputs <- {2, 3}, Sources <- {1, 2}, Seeds <- {2}, Program <- Programs, Target <- <<1, 1, 1>>,
  PairLimit <- 2, SuggestLimit <- 2, RetainLimit <- 3, MaxRecords <- 3
Capsule == INSTANCE Capsule WITH
  Roots <- {"root", "side"}, Out <- Held, SizeOf <- Bytes, MaxArtifacts <- 2, MaxBytes <- 3,
  Repeats <- 3, MaxRevision <- 3, MaxMoves <- 1, MaxRuns <- 2, None <- Unset, rev <- capsuleRev,
  run <- capsuleRun, worker <- capsuleWorker, cancelled <- capsuleCancelled, runs <- capsuleRuns
Helper == INSTANCE Helper WITH
  Contents <- {1, 2}, Pinned <- 1, Tools <- {1, 2}, Outputs <- {1, 2}, Expected <- 1,
  Changes <- 2, None <- -99, changes <- helperChanges, pc <- helperPc

Parts == {"requests", "workflow", "repairs", "observed", "recovered", "graded",
           "queue", "faults", "chain", "pairs", "capsule", "helper"}

\* What the variables of a component are while another one moves.
Still == "still"
WorkflowRests ==
  /\ workflowRow = Still /\ workflowLate = Still /\ workflowInv = Still
  /\ workflowToken = Still /\ workflowLeaseLate = Still /\ workflowDue = Still
  /\ workflowAct = Still /\ workflowLeft = Still /\ workflowRev = Still
  /\ workflowPc = Still /\ workflowMy = Still /\ workflowMine = Still
  /\ workflowBeating = Still /\ workflowCancelled = Still /\ workflowThen = Still
  /\ workflowSent = Still /\ workflowUnknown = Still /\ workflowReasoned = Still
ReasoningRests ==
  /\ required = Still /\ prints = Still /\ reasoningRuns = Still /\ source = Still
  /\ hyps = Still /\ cands = Still /\ exps = Still /\ recs = Still
  /\ proofs = Still /\ sols = Still /\ obligations = Still /\ revision = Still
  /\ met = Still /\ solved = Still /\ verifications = Still /\ report = Still
  /\ audit = Still
LongRunRests ==
  /\ questions = Still /\ receipt = Still /\ longRunRun = Still /\ disk = Still
  /\ lock = Still /\ longRunPc = Still /\ picked = Still /\ before = Still
  /\ longRunWorker = Still /\ marker = Still /\ unresolved = Still /\ abort = Still
  /\ acked = Still /\ unasked = Still /\ faults = Still /\ longRunChanges = Still
ResearchRests == records = Still /\ recipes = Still /\ found = Still
CapsuleRests ==
  /\ capsuleRev = Still /\ author = Still /\ targets = Still /\ derived = Still
  /\ reserved = Still /\ request = Still /\ started = Still /\ pub = Still
  /\ result = Still /\ capsuleRun = Still /\ capsuleWorker = Still /\ lost = Still
  /\ capsuleCancelled = Still /\ moves = Still /\ capsuleRuns = Still
HelperRests ==
  /\ artifact = Still /\ tool = Still /\ helperChanges = Still /\ language = Still
  /\ validation = Still /\ sealed = Still /\ helperPc = Still /\ hashed = Still
  /\ image = Still /\ stages = Still /\ body = Still /\ seen = Still

workflowVars == <<workflowRow, workflowLate, workflowInv, workflowToken, workflowLeaseLate,
                  workflowDue, workflowAct, workflowLeft, workflowRev, workflowPc, workflowMy,
                  workflowMine, workflowBeating, workflowCancelled, workflowThen, workflowSent,
                  workflowUnknown, workflowReasoned>>
reasoningVars == <<required, prints, reasoningRuns, source, hyps, cands, exps, recs, proofs, sols,
                   obligations, revision, met, solved, verifications, report, audit>>
longRunVars == <<questions, receipt, longRunRun, disk, lock, longRunPc, picked, before,
                 longRunWorker, marker, unresolved, abort, acked, unasked, faults, longRunChanges>>
researchVars == <<records, recipes, found>>
capsuleVars == <<capsuleRev, author, targets, derived, reserved, request, started, pub, result,
                 capsuleRun, capsuleWorker, lost, capsuleCancelled, moves, capsuleRuns>>
helperVars == <<artifact, tool, helperChanges, language, validation, sealed, helperPc, hashed,
                image, stages, body, seen>>
allVars == <<part, vars, workflowVars, reasoningVars, longRunVars, researchVars, capsuleVars,
             helperVars>>

Start ==
  /\ part \in Parts
  /\ Init
  /\ CASE part = "workflow" -> Workflow!Init
       [] part = "repairs" -> Repairs!Init
       [] OTHER -> WorkflowRests
  /\ CASE part = "observed" -> Observed!Init
       [] part = "recovered" -> Derived!Init
       [] part = "graded" -> Graded!Init
       [] OTHER -> ReasoningRests
  /\ CASE part = "queue" -> Queue!Init
       [] part = "faults" -> Faults!Init
       [] OTHER -> LongRunRests
  /\ CASE part = "chain" -> Chain!Init
       [] part = "pairs" -> Paired!Init
       [] OTHER -> ResearchRests
  /\ IF part = "capsule" THEN Capsule!Init ELSE CapsuleRests
  /\ IF part = "helper" THEN Helper!Init ELSE HelperRests

SideStep ==
  /\ UNCHANGED part
  /\ IF part = "requests" THEN Next ELSE UNCHANGED vars
  /\ CASE part = "workflow" -> Workflow!Next
       [] part = "repairs" -> Repairs!Next
       [] OTHER -> UNCHANGED workflowVars
  /\ CASE part = "observed" -> Observed!Next
       [] part = "recovered" -> Derived!Next
       [] part = "graded" -> Graded!Next
       [] OTHER -> UNCHANGED reasoningVars
  /\ CASE part = "queue" -> Queue!Next
       [] part = "faults" -> Faults!Next
       [] OTHER -> UNCHANGED longRunVars
  /\ CASE part = "chain" -> Chain!Next
       [] part = "pairs" -> Paired!Next
       [] OTHER -> UNCHANGED researchVars
  /\ IF part = "capsule" THEN Capsule!Next ELSE UNCHANGED capsuleVars
  /\ IF part = "helper" THEN Helper!Next ELSE UNCHANGED helperVars

Side == Start /\ [][SideStep]_allVars

ASSUME Helper!HelperAssumption
ASSUME Capsule!CapsuleAssumption

-----------------------------------------------------------------------------

\* signed_proof, requirement_report, feedback, solution, report and audit: a
\* proof claims no more than was seen, a hypothesis is judged as it read when
\* its experiment was planned, an answered fact has a true proof of exactly the
\* kind asked for, an obligation is resolved by a selected proof that shows it,
\* the ledger calls its requirements verified and itself solved only on such
\* proofs, and nothing that rests on a superseded source is published, or passes
\* an audit, as proved.
AnswersAreProved ==
  [][/\ part = "observed" => Observed!TypeOK' /\ Observed!ProofsAreTrue'
                             /\ Observed!JudgedAsPlanned' /\ Observed!PublishedFresh
     /\ part = "recovered" => Derived!TypeOK' /\ Derived!ProofsAreTrue'
                              /\ Derived!AnsweredIsProved' /\ Derived!PublishedFresh
                              /\ Derived!AuditIsTrue
     /\ part = "graded" => Graded!TypeOK' /\ Graded!ProofsAreTrue' /\ Graded!AnsweredIsProved'
                           /\ Graded!ObligationsAreTrue' /\ Graded!FlagsAreTrue'
                           /\ Graded!PublishedFresh]_allVars

\* What an investigation started over many uses of the command keeps.  The
\* controllers of harness_explore resume right with a workflow's plan, and with
\* repairs, as ControllerResumes says of those with their own plan.
\* QuestionQueue and supervise, over all crashes and resumes: a question gets no
\* more batches than it may have and starts on answers that still have their
\* evidence, whatever happened to the receipts meanwhile; one question at most
\* is active, and a crash leaves none behind; no batch starts before every
\* unfinished one was acknowledged, except for one whose supervisor ended between
\* the write of its outcome and the write that asks for its review (that no batch
\* is excepted is what the run long_review refutes); a second worker is not
\* started beside one that outlived its supervisor; and completed means that every
\* question was answered or split.
LongRunIsOrderly ==
  [][/\ part = "requests" => TypeOK'
     /\ part = "workflow" => Workflow!TypeOK' /\ Workflow!ResumesRight
     /\ part = "repairs" => Repairs!TypeOK' /\ Repairs!ResumesRight
     /\ part = "queue" => Queue!TypeOK' /\ Queue!AttemptsBounded' /\ Queue!OneActive'
                          /\ Queue!CompletedMeansAnswered /\ Queue!DependenciesHold
                          /\ Queue!ReviewedBeforeNext
     /\ part = "faults" => Faults!TypeOK' /\ Faults!AttemptsBounded' /\ Faults!OneActive'
                           /\ Faults!DependenciesHold /\ Faults!OneWorker
                           /\ Faults!ReviewedBeforeNext]_allVars

\* Research, derived actions and helpers, while workers outlive their runs,
\* artifacts are damaged and tools are upgraded: what any comparison refuted
\* stays among a record's counterexamples, an agreement has replayed all of it
\* and is of a source that prints what the target prints, and a recipe rests on
\* published records only; an action replaces only assertions of its own
\* investigation that nobody revised, stays within its grant, adds nothing to
\* the scope of a cancelled investigation, and is published exactly if it says
\* so, never after its outcome was settled as unknown; a helper that passed ran
\* well twice, alike, on the pinned bytes and with the tools it was proposed
\* with.
ActionsAreTrue ==
  [][/\ part = "chain" => Chain!TypeOK' /\ Chain!NothingForgotten' /\ Chain!AgreementIsObserved'
                          /\ Chain!RecipesArePublished'
     /\ part = "pairs" => Paired!TypeOK' /\ Paired!NothingForgotten'
                          /\ Paired!AgreementIsObserved' /\ Paired!RecipesArePublished'
     /\ part = "capsule" => Capsule!TypeOK' /\ Capsule!OnlyOwnRevised' /\ Capsule!WithinGrant'
                            /\ Capsule!ResultIsTrue' /\ Capsule!UnknownIsFinal
                            /\ Capsule!NothingAfterCancel
     /\ part = "helper" => Helper!TypeOK' /\ Helper!ValidationIsEarned' /\ Helper!RepeatedAlike'
                           /\ Helper!SealKept]_allVars
=============================================================================
