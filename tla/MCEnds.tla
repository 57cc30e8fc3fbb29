------------------------------- MODULE MCEnds -------------------------------
(***************************************************************************)
(* What comes to an end, under the fairness its scheduling justifies, on   *)
(* instances small enough for it: batches, controllers, sessions and       *)
(* collections, guests, sweeps, workers and supervisors, with the opening  *)
(* of an analysis session, its watchdog and its destruction.  The          *)
(* components share no state, so each is checked by itself, in one run:    *)
(* part says which of them moves, the variables of the others are still.   *)
(***************************************************************************)
EXTENDS AnalysisOpen, Integers, TLC

CONSTANTS Controllers, Runs

VARIABLES
  part,  \* the component that moves
  batchPhase, rec, owner, expired, batchCancel, batchPc, batchMy, batchAt, retry, lost,
  controllerRow, controllerLate, inv, controllerToken, leaseLate, due, act, left, rev,
  controllerPc, controllerMy, controllerMine, beating, controllerCancelled, then, sent,
  unknown, reasoned,
  sessionRow, young, sessionCancel, queue, op, sessionState, sessionAnswer, command,
  sessionPc, seen, sessionMine, target, serving, reply, steps, sessionGeneration,
  applied, sessionLate, ended,
  engine, collectState, collectResult, ready, collectCancel, collectPc,
  collectGeneration, collectCancelled, collectFile, host, events, collectRead, partial,
  capped, collectPhase, guard, trace, manifest, early,
  guestPc, mode, previous, guestReceipt, guestMine, unit, exit, guestCancel, staging,
  overlay, log, guestLate, reading, guestChanged,
  program, taintOrder, slots, tags, taintStates, taintChanged, taintPc, taintAt,
  completion, taintVerdict,
  nativeFile, versions, call, digest, view, nativePc, procs, place, code, wrote, pipe,
  kept, nativeRead, eof, nativeCancel, nativeLate, nativeResult, nativeAnswer,
  questions, longReceipt, run, disk, lock, longPc, picked, before, worker, marker,
  unresolved, abort, acked, unasked, longFaults, changes,
  needs, manifestOrder, next, progress, status, names, object, remaining, budget,
  integrity, manifestVerdict, manifestFaults, sound

(* A batch that nobody cancels, run with retry_failed. *)
Willing ==
  /\ ~batchCancel'
  /\ \A r \in Runs : batchPc[r] = "idle" /\ batchPc'[r] # "idle" => retry'[r]

(* Loops and recursions for the taint. *)
Op(c, i, o) == [code |-> c, in |-> i, out |-> o, params |-> <<>>, returns |-> <<>>]
Call(i, o, p, r) == [code |-> "call", in |-> i, out |-> o, params |-> p, returns |-> r]
Arg(a, b) == [from |-> a, to |-> b]
Plain == [values |-> 1..9, constants |-> <<>>, ops |-> {}, arguments |-> <<>>, memory |-> {}, stack |-> {},
          frame |-> {}, source |-> 1, target |-> 2, kind |-> "scalar", length |-> 0, address |-> 0, whole |-> TRUE]

\* A pointer that goes round and on by an offset; a function that calls itself.
Round == [Plain EXCEPT !.kind = "buffer", !.length = 3, !.constants = [v \in {5} |-> 1], !.memory = {6},
            !.ops = {Op("add", <<2, 5>>, <<3>>), Op("load", <<6, 2>>, <<4>>), Op("cast", <<4>>, <<7>>)},
            !.arguments = <<Arg(1, 2), Arg(3, 2)>>, !.target = 7]
Recursive == [Plain EXCEPT !.ops = {Call(<<1>>, <<6>>, <<2>>, <<3>>), Call(<<2>>, <<7>>, <<2>>, <<3>>), Op("cast", <<7>>, <<3>>)},
                !.target = 6]
Programs == {Round, Recursive}

Batch == INSTANCE BatchRun WITH
  NSteps <- 1, DependsOn <- <<{}>>, AllowPartial <- {}, Cost <- <<1>>, MaxJobs <- 1, MaxCost <- 1,
  Outcomes <- {"partial"}, phase <- batchPhase, cancel <- batchCancel, pc <- batchPc,
  my <- batchMy, at <- batchAt
Controller == INSTANCE ModelController WITH
  MaxGenerations <- 2, Recipe <- "general", Kinds <- {"read", "finish"}, Budget <- 2, Ask <- 1,
  FlowSteps <- 1, MaxRepairs <- 0, MaxCompactions <- 1, MaxTokens <- 1, row <- controllerRow,
  late <- controllerLate, token <- controllerToken, pc <- controllerPc, my <- controllerMy,
  mine <- controllerMine, cancelled <- controllerCancelled
Session == INSTANCE RuntimeSession WITH
  Requests <- {1, 2}, Workers <- {1}, Ops <- {"inspect"}, KillOnExpiry <- TRUE,
  MaxSteps <- 1, MaxCancels <- 0, row <- sessionRow, cancel <- sessionCancel,
  state <- sessionState, answer <- sessionAnswer, pc <- sessionPc, mine <- sessionMine,
  generation <- sessionGeneration, late <- sessionLate
Collect == INSTANCE RuntimeCollect WITH
  Engines <- {"frida", "dynamorio", "record", "replay"}, MaxEvents <- 2, MaxCancels <- 1, MaxChanges <- 1,
  state <- collectState, result <- collectResult, cancel <- collectCancel, pc <- collectPc,
  generation <- collectGeneration, cancelled <- collectCancelled, file <- collectFile,
  read <- collectRead, phase <- collectPhase
Guest == INSTANCE Guest WITH
  Runs <- {"guest"}, Modes <- {"normal", "record", "replay"}, NActions <- 2, Quota <- 1,
  pc <- guestPc, receipt <- guestReceipt, mine <- guestMine, cancel <- guestCancel,
  late <- guestLate, changed <- guestChanged
Taint == INSTANCE FlowTaint WITH
  FunctionDepth <- 2, MaxStates <- 0, MaxTaintBytes <- 0, Width <- 2, None <- -99,
  order <- taintOrder, states <- taintStates, changed <- taintChanged, pc <- taintPc,
  at <- taintAt, verdict <- taintVerdict
Native == INSTANCE NativeWorker WITH
  OutputLimit <- 1, EnvelopeLimit <- 4, PipeRoom <- 1, None <- -99, Contents <- {1}, Calls <- 1,
  Pieces <- 1, file <- nativeFile, pc <- nativePc, read <- nativeRead, cancel <- nativeCancel,
  late <- nativeLate, result <- nativeResult, answer <- nativeAnswer
Long == INSTANCE LongRun WITH
  MaxQuestions <- 1, MaxChildren <- 1, MaxAttempts <- 2, MaxBatches <- 2, MaxGenerations <- 1,
  MaxFaults <- 1, MaxChanges <- 0, receipt <- longReceipt, pc <- longPc, faults <- longFaults
Manifest == INSTANCE Manifest WITH
  Launches <- {1, 2}, Unknown <- 0, Components <- {1}, Artifacts <- {1}, SizeOf <- <<1>>,
  MaxBudget <- 0, MaxFaults <- 0, order <- manifestOrder, verdict <- manifestVerdict,
  faults <- manifestFaults

Parts == {"open", "batch", "controller", "session", "collect", "guest", "taint",
           "native", "long", "order"}

\* What the variables of a component are while another one moves.
Still == "still"
BatchRests ==
  /\ batchPhase = Still /\ rec = Still /\ owner = Still /\ expired = Still
  /\ batchCancel = Still /\ batchPc = Still /\ batchMy = Still /\ batchAt = Still
  /\ retry = Still /\ lost = Still
ControllerRests ==
  /\ controllerRow = Still /\ controllerLate = Still /\ inv = Still
  /\ controllerToken = Still /\ leaseLate = Still /\ due = Still /\ act = Still
  /\ left = Still /\ rev = Still /\ controllerPc = Still /\ controllerMy = Still
  /\ controllerMine = Still /\ beating = Still /\ controllerCancelled = Still
  /\ then = Still /\ sent = Still /\ unknown = Still /\ reasoned = Still
SessionRests ==
  /\ sessionRow = Still /\ young = Still /\ sessionCancel = Still /\ queue = Still
  /\ op = Still /\ sessionState = Still /\ sessionAnswer = Still /\ command = Still
  /\ sessionPc = Still /\ seen = Still /\ sessionMine = Still /\ target = Still
  /\ serving = Still /\ reply = Still /\ steps = Still /\ sessionGeneration = Still
  /\ applied = Still /\ sessionLate = Still /\ ended = Still
CollectRests ==
  /\ engine = Still /\ collectState = Still /\ collectResult = Still /\ ready = Still
  /\ collectCancel = Still /\ collectPc = Still /\ collectGeneration = Still
  /\ collectCancelled = Still /\ collectFile = Still /\ host = Still
  /\ events = Still /\ collectRead = Still /\ partial = Still /\ capped = Still
  /\ collectPhase = Still /\ guard = Still /\ trace = Still /\ manifest = Still
  /\ early = Still
GuestRests ==
  /\ guestPc = Still /\ mode = Still /\ previous = Still /\ guestReceipt = Still
  /\ guestMine = Still /\ unit = Still /\ exit = Still /\ guestCancel = Still
  /\ staging = Still /\ overlay = Still /\ log = Still /\ guestLate = Still
  /\ reading = Still /\ guestChanged = Still
TaintRests ==
  /\ program = Still /\ taintOrder = Still /\ slots = Still /\ tags = Still
  /\ taintStates = Still /\ taintChanged = Still /\ taintPc = Still /\ taintAt = Still
  /\ completion = Still /\ taintVerdict = Still
NativeRests ==
  /\ nativeFile = Still /\ versions = Still /\ call = Still /\ digest = Still
  /\ view = Still /\ nativePc = Still /\ procs = Still /\ place = Still
  /\ code = Still /\ wrote = Still /\ pipe = Still /\ kept = Still
  /\ nativeRead = Still /\ eof = Still /\ nativeCancel = Still /\ nativeLate = Still
  /\ nativeResult = Still /\ nativeAnswer = Still
LongRests ==
  /\ questions = Still /\ longReceipt = Still /\ run = Still /\ disk = Still
  /\ lock = Still /\ longPc = Still /\ picked = Still /\ before = Still
  /\ worker = Still /\ marker = Still /\ unresolved = Still /\ abort = Still
  /\ acked = Still /\ unasked = Still /\ longFaults = Still /\ changes = Still
ManifestRests ==
  /\ needs = Still /\ manifestOrder = Still /\ next = Still /\ progress = Still
  /\ status = Still /\ names = Still /\ object = Still /\ remaining = Still
  /\ budget = Still /\ integrity = Still /\ manifestVerdict = Still
  /\ manifestFaults = Still /\ sound = Still

batchVars == <<batchPhase, rec, owner, expired, batchCancel, batchPc, batchMy, batchAt, retry,
               lost>>
controllerVars == <<controllerRow, controllerLate, inv, controllerToken, leaseLate, due, act,
                    left, rev, controllerPc, controllerMy, controllerMine, beating,
                    controllerCancelled, then, sent, unknown, reasoned>>
sessionVars == <<sessionRow, young, sessionCancel, queue, op, sessionState, sessionAnswer,
                 command, sessionPc, seen, sessionMine, target, serving, reply, steps,
                 sessionGeneration, applied, sessionLate, ended>>
collectVars == <<engine, collectState, collectResult, ready, collectCancel, collectPc,
                 collectGeneration, collectCancelled, collectFile, host, events, collectRead,
                 partial, capped, collectPhase, guard, trace, manifest, early>>
guestVars == <<guestPc, mode, previous, guestReceipt, guestMine, unit, exit, guestCancel, staging,
               overlay, log, guestLate, reading, guestChanged>>
taintVars == <<program, taintOrder, slots, tags, taintStates, taintChanged, taintPc, taintAt,
               completion, taintVerdict>>
nativeVars == <<nativeFile, versions, call, digest, view, nativePc, procs, place, code, wrote,
                pipe, kept, nativeRead, eof, nativeCancel, nativeLate, nativeResult, nativeAnswer>>
longVars == <<questions, longReceipt, run, disk, lock, longPc, picked, before, worker, marker,
              unresolved, abort, acked, unasked, longFaults, changes>>
manifestVars == <<needs, manifestOrder, next, progress, status, names, object, remaining, budget,
                  integrity, manifestVerdict, manifestFaults, sound>>
allVars == <<part, vars, batchVars, controllerVars, sessionVars, collectVars, guestVars, taintVars,
             nativeVars, longVars, manifestVars>>

Start ==
  /\ part \in Parts
  /\ /\ Init
     /\ part # "open" => opts = [token |-> FALSE, wall |-> FALSE, ir |-> FALSE]
  /\ IF part = "batch" THEN Batch!Init ELSE BatchRests
  /\ IF part = "controller" THEN Controller!Init ELSE ControllerRests
  /\ IF part = "session" THEN Session!Init ELSE SessionRests
  /\ IF part = "collect" THEN Collect!Init ELSE CollectRests
  /\ IF part = "guest" THEN Guest!Init ELSE GuestRests
  /\ IF part = "taint" THEN Taint!Init ELSE TaintRests
  /\ IF part = "native" THEN Native!Init ELSE NativeRests
  /\ IF part = "long" THEN Long!Init ELSE LongRests
  /\ IF part = "order" THEN Manifest!Init ELSE ManifestRests

SideStep ==
  /\ UNCHANGED part
  /\ IF part = "open" THEN Next ELSE UNCHANGED vars
  /\ IF part = "batch" THEN Batch!Next /\ Willing ELSE UNCHANGED batchVars
  /\ IF part = "controller" THEN Controller!Next ELSE UNCHANGED controllerVars
  /\ IF part = "session" THEN Session!Next ELSE UNCHANGED sessionVars
  /\ IF part = "collect" THEN Collect!Next ELSE UNCHANGED collectVars
  /\ IF part = "guest" THEN Guest!Next ELSE UNCHANGED guestVars
  /\ IF part = "taint" THEN Taint!Next ELSE UNCHANGED taintVars
  /\ IF part = "native" THEN Native!Next ELSE UNCHANGED nativeVars
  /\ IF part = "long" THEN Long!Next ELSE UNCHANGED longVars
  /\ IF part = "order" THEN Manifest!Next ELSE UNCHANGED manifestVars

Side ==
  /\ Start /\ [][SideStep]_allVars
  /\ \A r \in Runs : WF_batchVars(part = "batch" /\ Batch!RunStep(r))
  /\ \A c \in Controllers : WF_controllerVars(part = "controller" /\ Controller!Step(c))
  /\ WF_sessionVars(part = "session" /\ Session!WorkerStep(1))
  /\ WF_collectVars(part = "collect" /\ Collect!WorkerStep)
  /\ WF_collectVars(part = "collect" /\ Collect!HostStep)
  /\ WF_guestVars(part = "guest" /\ Guest!Process("guest") /\ guestPc["guest"] # "idle")
  /\ WF_guestVars(part = "guest" /\ Guest!UnitEnds("guest", "killed"))
  /\ WF_guestVars(part = "guest" /\ Guest!Deadline("guest"))
  /\ WF_guestVars(part = "guest" /\ Guest!ReconcileRead("guest"))
  /\ WF_guestVars(part = "guest" /\ Guest!ReconcileWrite("guest"))
  /\ WF_guestVars(part = "guest" /\ Guest!Prune("guest"))
  /\ WF_taintVars(part = "taint" /\ Taint!Next)
  /\ WF_nativeVars(part = "native" /\ Native!Late)
  /\ WF_nativeVars(part = "native" /\ (Native!Digest \/ Native!Probe \/ Native!Start \/ Native!Drain \/ Native!Wait \/ Native!FinalDrain \/ Native!Return \/ Native!Answer))
  /\ WF_longVars(part = "long" /\ Long!Supervisor)
  /\ WF_longVars(part = "long" /\ Long!Abort)
  /\ WF_manifestVars(part = "order" /\ Manifest!Order)
  /\ WF_manifestVars(part = "order" /\ Manifest!Preflight)
  /\ WF_vars(part = "open" /\ Opening)
  /\ WF_vars(part = "open" /\ WatchEnds)

ASSUME Session!SessionAssumption
ASSUME Collect!CollectAssumption
ASSUME Guest!GuestAssumption
ASSUME Manifest!ManifestAssumption

-----------------------------------------------------------------------------
\* batch run: every run that claimed the batch ends, for it waits for no job
\* that another call, perhaps dead, still holds.  A run's own steps go on.
BatchEnds == \A r \in Runs : part = "batch" /\ batchPc[r] = "claimed" ~> part = "batch" /\ batchPc[r] = "done"

\* model controller: every use of the command ends, for a request has a time
\* limit and a transaction a busy timeout.
ControllerEnds == \A c \in Controllers : part = "controller" /\ controllerPc[c] = "top" ~> part = "controller" /\ controllerPc[c] = "done"

\* runtime worker: a request in the queue is executed and answered, or its
\* worker ends.  A worker that lives goes on.
RequestsSettle == \A r \in {1, 2} : part = "session" /\ sessionState[r] \in {"queued", "running"} ~> part = "session" /\ (sessionState[r] = "finished" \/ ~Session!Alive(1))

\* runtime collection: every run ends with a record that says how, unless its
\* worker dies.  The worker goes on, and the host has a time limit.
CollectionEnds == part = "collect" ~> collectPc = "gone"

\* guest prune: every overlay that counts for the quota can be pruned, also
\* when the process died or threw before it published its receipt.  The process
\* goes on, the unit is killed at the deadline, and somebody reconciles and
\* prunes.
OverlayIsFreed == part = "guest" /\ overlay["guest"] ~> part = "guest" /\ ~overlay["guest"]

\* directed_flow: pushing tags comes to an end, also round a loop and a
\* recursion, without a limit.
TaintEnds == part = "taint" ~> taintPc = "done"

\* run_native_process: whatever the worker and its descendants do, the request
\* is answered.  The parent goes on, and its clock does.
WorkerReturns == part = "native" /\ nativePc = "start" ~> nativePc = "done"

\* supervise: a started supervisor stops by itself, even when the model never
\* checkpoints and every question stays open.  It goes on, and the deadline of
\* a batch comes.
SupervisorEnds == part = "long" /\ longPc # "down" ~> longPc = "down"

\* canonical_manifest and preflight: the sweeps come to an end.
ManifestEnds == part = "order" ~> status \in {"cyclic", "unknown", "checked"}

\* open: it comes back, whether or not the deadline fires
\* (analysis_session.cpp:97).  Its thread and the watchdog's run on.
OpenComesBack == part = "open" /\ stage = "construct" ~> stage \in {"drop", "use"}

\* All of these come to an end.
ComponentsEnd ==
  /\ BatchEnds /\ ControllerEnds /\ RequestsSettle /\ CollectionEnds /\ OverlayIsFreed
  /\ TaintEnds /\ WorkerReturns /\ SupervisorEnds /\ ManifestEnds /\ OpenComesBack
=============================================================================
