----------------------------- MODULE MCWorkspace -----------------------------
(***************************************************************************)
(* What a workspace holds and what is run in it, on small instances: its   *)
(* retention, bundles, derived artifacts and manifests, runtime sessions,  *)
(* collections, experiments and guests, and the evidence they leave.  The  *)
(* components share no state, so each is checked by itself, in one run:    *)
(* part says which of them moves, the variables of the others are still.   *)
(***************************************************************************)
EXTENDS Retention, Sequences, TLC

CONSTANTS None, Refused

VARIABLES
  part,  \* the component that moves
  sharedAge, sharedCore, sharedRuntime, sharedBusy, sharedShared, sharedAlone, sharedPc,
  sharedPuts, sharedSeen, sharedFound, sharedMore, sharedGiven, sharedPlans, sharedAway,
  sharedListed,
  need, bundleBusy, owner, session, bundleCore, bundleRuntime, made, files, bad,
  bundleManifest, digest, space, bundlePc, bundleFrom, to, of, held, have, complete,
  damages,
  targets, objects, lineage, records, at, deriveFrom, before, staged, deriveReply,
  added, imports, damage,
  needs, order, next, progress, status, names, object, remaining, budget, integrity,
  verdict, faults, sound,
  method, input, key, output, done,
  row, young, sessionCancel, queue, op, sessionState, answer, command, sessionPc,
  sessionSeen, sessionMine, target, serving, sessionReply, steps, sessionGeneration,
  applied, sessionLate, ended,
  collectEngine, collectState, result, ready, collectCancel, collectPc,
  collectGeneration, cancelled, file, host, events, read, partial, capped, phase, guard,
  trace, collectManifest, early,
  experimentEngine, sessions, requests, stopped, experimentPc, body, journal, cleanup,
  experimentLate,
  guestPc, mode, previous, receipt, guestMine, unit, exit, guestCancel, staging,
  overlay, log, guestLate, reading, changed,
  rows, lifetimes, reader,
  os, gdb, worker

\* Two packed artifacts hold the same bytes, which hold something themselves.
Held == [a \in {"p", "q", "x"} |-> IF a = "x" THEN "y" ELSE "x"]
Bytes == [a \in {"big", "small"} |-> IF a = "big" THEN 2 ELSE 1]

\* Strings of the characters that decide: digits and letters of either case,
\* padding, and letters that leave bits over in a last group or do not.
Upto(S, n) == UNION {[1..k -> S] : k \in 0..n}
Quads == [1..4 -> {65, 119, 61}]
Texts == Upto({48, 65, 102, 119, 61, 33}, 3) \cup Quads \cup
         {a \o b : a \in {<<65, 119, 65, 119>>, <<65, 119, 61, 61>>}, b \in Quads}
Plain == Upto({0, 1, 255}, 4)
References == Upto({0, 65, 128}, 2)
XorKeys == {<<>>, <<1, 128>>, <<1, 2, 4, 8, 16>>}

Operations == {"continue", "step", "pause", "detach", "terminate"}

(* The second of two guests is asked for once the first has completed. *)
OneByOne ==
  guestPc[2] = "idle" /\ guestPc'[2] # "idle" =>
    receipt[1].status = "completed" /\ guestPc[1] = "gone"

Shared == INSTANCE Retention WITH
  Objects <- {1}, Publishers <- {1, 2}, Keepers <- {3}, Limit <- 1, age <- sharedAge,
  core <- sharedCore, runtime <- sharedRuntime, busy <- sharedBusy, shared <- sharedShared,
  alone <- sharedAlone, pc <- sharedPc, puts <- sharedPuts, seen <- sharedSeen,
  found <- sharedFound, more <- sharedMore, given <- sharedGiven, plans <- sharedPlans,
  away <- sharedAway, listed <- sharedListed
Bundle == INSTANCE Bundle WITH
  Paths <- {1, 2}, Projects <- {1}, Objects <- {1}, Kinds <- {"model"},
  Ends <- {"exited"}, Exporters <- {1}, Importers <- {2}, Damages <- 1, busy <- bundleBusy,
  core <- bundleCore, runtime <- bundleRuntime, manifest <- bundleManifest, pc <- bundlePc,
  from <- bundleFrom
Imports == INSTANCE Bundle WITH
  Paths <- {1, 2}, Projects <- {1}, Objects <- {1}, Kinds <- {}, Ends <- {"exited"},
  Exporters <- {1}, Importers <- {2, 3}, Damages <- 0, busy <- bundleBusy, core <- bundleCore,
  runtime <- bundleRuntime, manifest <- bundleManifest, pc <- bundlePc, from <- bundleFrom
Derive == INSTANCE Derive WITH
  Callers <- {1, 2}, Artifacts <- {"p", "q", "x", "y"}, Out <- Held, Originals <- {"p", "q"},
  MaxImports <- 1, MaxDamage <- 1, from <- deriveFrom, reply <- deriveReply
Manifest == INSTANCE Manifest WITH
  Launches <- {1, 2, 3}, Unknown <- 0, Components <- {1}, Artifacts <- DOMAIN Bytes,
  SizeOf <- Bytes, MaxBudget <- 0, MaxFaults <- 0
Preflight == INSTANCE Manifest WITH
  Launches <- {1}, Unknown <- 0, Components <- {1, 2, 3}, Artifacts <- DOMAIN Bytes,
  SizeOf <- Bytes, MaxBudget <- 4, MaxFaults <- 2
Codec == INSTANCE Codec WITH
  Inputs <- Texts, Keys <- XorKeys, Expected <- References
Session == INSTANCE RuntimeSession WITH
  Requests <- {1, 2}, Workers <- {1}, Ops <- Operations, KillOnExpiry <- FALSE, MaxSteps <- 1,
  MaxCancels <- 0, cancel <- sessionCancel, state <- sessionState, pc <- sessionPc,
  seen <- sessionSeen, mine <- sessionMine, reply <- sessionReply,
  generation <- sessionGeneration, late <- sessionLate
Trace == INSTANCE RuntimeSession WITH
  Requests <- {1, 2}, Workers <- {1}, Ops <- {"trace"}, KillOnExpiry <- FALSE,
  MaxSteps <- 2, MaxCancels <- 1, cancel <- sessionCancel, state <- sessionState, pc <- sessionPc,
  seen <- sessionSeen, mine <- sessionMine, reply <- sessionReply,
  generation <- sessionGeneration, late <- sessionLate
Collect == INSTANCE RuntimeCollect WITH
  Engines <- {"frida", "dynamorio", "record", "replay"}, MaxEvents <- 3, MaxCancels <- 2, MaxChanges <- 2,
  engine <- collectEngine, state <- collectState, cancel <- collectCancel, pc <- collectPc,
  generation <- collectGeneration, manifest <- collectManifest
Cases == INSTANCE Experiment WITH
  NCases <- 2, Engines <- {"io", "debugger", "rr"}, NPeers <- 0, NSteps <- 1, Repeated <- FALSE,
  MaxStops <- 1, engine <- experimentEngine, pc <- experimentPc, late <- experimentLate
Peers == INSTANCE Experiment WITH
  NCases <- 1, Engines <- {"debugger"}, NPeers <- 2, NSteps <- 2, Repeated <- FALSE,
  MaxStops <- 2, engine <- experimentEngine, pc <- experimentPc, late <- experimentLate
Guest == INSTANCE Guest WITH
  Runs <- {1}, Modes <- {"normal", "record", "replay"}, NActions <- 2, Quota <- 1, pc <- guestPc,
  mine <- guestMine, cancel <- guestCancel, late <- guestLate
Replay == INSTANCE Guest WITH
  Runs <- {1, 2}, Modes <- {"record", "replay"}, NActions <- 0, Quota <- 2, pc <- guestPc,
  mine <- guestMine, cancel <- guestCancel, late <- guestLate
CallsOf == INSTANCE Evidence WITH
  Sessions <- {1, 2}, Kinds <- {"enter", "leave", "open"}, Ids <- {1}, Origins <- {1, 2},
  Sizes <- {1}, Modes <- {}, Windows <- {0}, MaxRows <- 4, PageItems <- 2, PageSize <- 3,
  StubSize <- 1, ReadSize <- 4, ScanLimit <- 2, OffsetLimit <- 2
Lifetimes == INSTANCE Evidence WITH
  Sessions <- {1, 2}, Kinds <- {"enter", "leave", "open", "close", "closed"}, Ids <- {1, 2},
  Origins <- {1}, Sizes <- {1}, Modes <- {}, Windows <- {0}, MaxRows <- 4, PageItems <- 2,
  PageSize <- 3, StubSize <- 1, ReadSize <- 4, ScanLimit <- 2, OffsetLimit <- 2
Cursor == INSTANCE Evidence WITH
  Sessions <- {1, 2}, Kinds <- {"enter", "other"}, Ids <- {1}, Origins <- {1}, Sizes <- {2, 4, 5},
  Modes <- {"cursor"}, Windows <- {0, 3}, MaxRows <- 3, PageItems <- 2, PageSize <- 3,
  StubSize <- 1, ReadSize <- 4, ScanLimit <- 2, OffsetLimit <- 2
Offset == INSTANCE Evidence WITH
  Sessions <- {1}, Kinds <- {"enter", "open"}, Ids <- {1, 2, 3}, Origins <- {1}, Sizes <- {1, 2},
  Modes <- {"offset", "observations", "identities"}, Windows <- {0}, MaxRows <- 3, PageItems <- 2,
  PageSize <- 3, StubSize <- 1, ReadSize <- 4, ScanLimit <- 2, OffsetLimit <- 2
Identity == INSTANCE Identity WITH
  Pids <- {1, 2}, Images <- {1, 2}, MaxProcesses <- 4

Parts == {"retention", "shared", "bundle", "imports", "derive", "order", "preflight",
           "codec", "session", "trace", "collect", "cases", "peers", "guest", "replay",
           "calls", "lifetimes", "cursor", "offset", "identity"}

\* What the variables of a component are while another one moves.
Still == "still"
SharedRests ==
  /\ sharedAge = Still /\ sharedCore = Still /\ sharedRuntime = Still
  /\ sharedBusy = Still /\ sharedShared = Still /\ sharedAlone = Still
  /\ sharedPc = Still /\ sharedPuts = Still /\ sharedSeen = Still
  /\ sharedFound = Still /\ sharedMore = Still /\ sharedGiven = Still
  /\ sharedPlans = Still /\ sharedAway = Still /\ sharedListed = Still
BundleRests ==
  /\ need = Still /\ bundleBusy = Still /\ owner = Still /\ session = Still
  /\ bundleCore = Still /\ bundleRuntime = Still /\ made = Still /\ files = Still
  /\ bad = Still /\ bundleManifest = Still /\ digest = Still /\ space = Still
  /\ bundlePc = Still /\ bundleFrom = Still /\ to = Still /\ of = Still
  /\ held = Still /\ have = Still /\ complete = Still /\ damages = Still
DeriveRests ==
  /\ targets = Still /\ objects = Still /\ lineage = Still /\ records = Still
  /\ at = Still /\ deriveFrom = Still /\ before = Still /\ staged = Still
  /\ deriveReply = Still /\ added = Still /\ imports = Still /\ damage = Still
ManifestRests ==
  /\ needs = Still /\ order = Still /\ next = Still /\ progress = Still
  /\ status = Still /\ names = Still /\ object = Still /\ remaining = Still
  /\ budget = Still /\ integrity = Still /\ verdict = Still /\ faults = Still
  /\ sound = Still
CodecRests == method = Still /\ input = Still /\ key = Still /\ output = Still /\ done = Still
SessionRests ==
  /\ row = Still /\ young = Still /\ sessionCancel = Still /\ queue = Still
  /\ op = Still /\ sessionState = Still /\ answer = Still /\ command = Still
  /\ sessionPc = Still /\ sessionSeen = Still /\ sessionMine = Still
  /\ target = Still /\ serving = Still /\ sessionReply = Still /\ steps = Still
  /\ sessionGeneration = Still /\ applied = Still /\ sessionLate = Still
  /\ ended = Still
CollectRests ==
  /\ collectEngine = Still /\ collectState = Still /\ result = Still /\ ready = Still
  /\ collectCancel = Still /\ collectPc = Still /\ collectGeneration = Still
  /\ cancelled = Still /\ file = Still /\ host = Still /\ events = Still
  /\ read = Still /\ partial = Still /\ capped = Still /\ phase = Still
  /\ guard = Still /\ trace = Still /\ collectManifest = Still /\ early = Still
ExperimentRests ==
  /\ experimentEngine = Still /\ sessions = Still /\ requests = Still
  /\ stopped = Still /\ experimentPc = Still /\ body = Still /\ journal = Still
  /\ cleanup = Still /\ experimentLate = Still
GuestRests ==
  /\ guestPc = Still /\ mode = Still /\ previous = Still /\ receipt = Still
  /\ guestMine = Still /\ unit = Still /\ exit = Still /\ guestCancel = Still
  /\ staging = Still /\ overlay = Still /\ log = Still /\ guestLate = Still
  /\ reading = Still /\ changed = Still
EvidenceRests == rows = Still /\ lifetimes = Still /\ reader = Still
IdentityRests == os = Still /\ gdb = Still /\ worker = Still

sharedVars == <<sharedAge, sharedCore, sharedRuntime, sharedBusy, sharedShared, sharedAlone,
                sharedPc, sharedPuts, sharedSeen, sharedFound, sharedMore, sharedGiven,
                sharedPlans, sharedAway, sharedListed>>
bundleVars == <<need, bundleBusy, owner, session, bundleCore, bundleRuntime, made, files, bad,
                bundleManifest, digest, space, bundlePc, bundleFrom, to, of, held, have, complete,
                damages>>
deriveVars == <<targets, objects, lineage, records, at, deriveFrom, before, staged, deriveReply,
                added, imports, damage>>
manifestVars == <<needs, order, next, progress, status, names, object, remaining, budget,
                  integrity, verdict, faults, sound>>
codecVars == <<method, input, key, output, done>>
sessionVars == <<row, young, sessionCancel, queue, op, sessionState, answer, command, sessionPc,
                 sessionSeen, sessionMine, target, serving, sessionReply, steps,
                 sessionGeneration, applied, sessionLate, ended>>
collectVars == <<collectEngine, collectState, result, ready, collectCancel, collectPc,
                 collectGeneration, cancelled, file, host, events, read, partial, capped, phase,
                 guard, trace, collectManifest, early>>
experimentVars == <<experimentEngine, sessions, requests, stopped, experimentPc, body, journal,
                    cleanup, experimentLate>>
guestVars == <<guestPc, mode, previous, receipt, guestMine, unit, exit, guestCancel, staging,
               overlay, log, guestLate, reading, changed>>
evidenceVars == <<rows, lifetimes, reader>>
identityVars == <<os, gdb, worker>>
allVars == <<part, vars, sharedVars, bundleVars, deriveVars, manifestVars, codecVars, sessionVars,
             collectVars, experimentVars, guestVars, evidenceVars, identityVars>>

Start ==
  /\ part \in Parts
  /\ Init
  /\ IF part = "shared" THEN Shared!Init ELSE SharedRests
  /\ CASE part = "bundle" -> Bundle!Init
       [] part = "imports" -> Imports!Init
       [] OTHER -> BundleRests
  /\ IF part = "derive" THEN Derive!Init ELSE DeriveRests
  /\ CASE part = "order" -> Manifest!Init
       [] part = "preflight" -> Preflight!Init
       [] OTHER -> ManifestRests
  /\ IF part = "codec" THEN Codec!Init ELSE CodecRests
  /\ CASE part = "session" -> Session!Init
       [] part = "trace" -> Trace!Init
       [] OTHER -> SessionRests
  /\ IF part = "collect" THEN Collect!Init ELSE CollectRests
  /\ CASE part = "cases" -> Cases!Init
       [] part = "peers" -> Peers!Init
       [] OTHER -> ExperimentRests
  /\ CASE part = "guest" -> Guest!Init
       [] part = "replay" -> Replay!Init
       [] OTHER -> GuestRests
  /\ CASE part = "calls" -> CallsOf!Init
       [] part = "lifetimes" -> Lifetimes!Init
       [] part = "cursor" -> Cursor!Init
       [] part = "offset" -> Offset!Init
       [] OTHER -> EvidenceRests
  /\ IF part = "identity" THEN Identity!Init ELSE IdentityRests

SideStep ==
  /\ UNCHANGED part
  /\ IF part = "retention" THEN Next ELSE UNCHANGED vars
  /\ IF part = "shared" THEN Shared!Next ELSE UNCHANGED sharedVars
  /\ CASE part = "bundle" -> Bundle!Next
       [] part = "imports" -> Imports!Next
       [] OTHER -> UNCHANGED bundleVars
  /\ IF part = "derive" THEN Derive!Next ELSE UNCHANGED deriveVars
  /\ CASE part = "order" -> Manifest!Next
       [] part = "preflight" -> Preflight!Next
       [] OTHER -> UNCHANGED manifestVars
  /\ IF part = "codec" THEN Codec!Transform ELSE UNCHANGED codecVars
  /\ CASE part = "session" -> Session!Next
       [] part = "trace" -> Trace!Next
       [] OTHER -> UNCHANGED sessionVars
  /\ IF part = "collect" THEN Collect!Next ELSE UNCHANGED collectVars
  /\ CASE part = "cases" -> Cases!Next
       [] part = "peers" -> Peers!Next
       [] OTHER -> UNCHANGED experimentVars
  /\ CASE part = "guest" -> Guest!Next
       [] part = "replay" -> Replay!Next /\ OneByOne
       [] OTHER -> UNCHANGED guestVars
  /\ CASE part = "calls" -> CallsOf!Next
       [] part = "lifetimes" -> Lifetimes!Next
       [] part = "cursor" -> Cursor!Next
       [] part = "offset" -> Offset!Next
       [] OTHER -> UNCHANGED evidenceVars
  /\ IF part = "identity" THEN Identity!Next ELSE UNCHANGED identityVars

Side == Start /\ [][SideStep]_allVars

ASSUME Bundle!BundleAssumption /\ Imports!BundleAssumption
ASSUME Manifest!ManifestAssumption /\ Preflight!ManifestAssumption
ASSUME Session!SessionAssumption /\ Trace!SessionAssumption /\ Collect!CollectAssumption
ASSUME Cases!ExperimentAssumption /\ Peers!ExperimentAssumption
ASSUME Guest!GuestAssumption /\ Replay!GuestAssumption
ASSUME CallsOf!EvidenceAssumption /\ Lifetimes!EvidenceAssumption
ASSUME Cursor!EvidenceAssumption /\ Offset!EvidenceAssumption

-----------------------------------------------------------------------------

\* bundle export and import, transform, manifest: an import that took place is a
\* snapshot of both databases at once, over a directory that was not there; what
\* was derived is recorded with its lineage and its computed bytes, an artifact
\* gets one target whoever imports it at the same time, and only a call that
\* died leaves its staged file; a stored order puts every launch behind what it
\* depends on, and a manifest is refused only when there is no order; a
\* preflight that is not partial found every component's bytes, and hashed no
\* more than its budget; and a decoder accepts the one encoding of what it
\* returns; and what a row names is in the store although two publishers of one
\* content meet a quarantine of it.  Bundles, objects and components are damaged meanwhile, and calls
\* die between their transactions.
CopiesAreWhole ==
  [][/\ part = "bundle" => Bundle!TypeOK' /\ Bundle!SnapshotHolds' /\ Bundle!ImportsAreExports'
                           /\ Bundle!ImportsOverNothing
     /\ part = "imports" => Imports!TypeOK' /\ Imports!SnapshotHolds'
                            /\ Imports!ImportsAreExports' /\ Imports!ImportsOverNothing
     /\ part = "derive" => Derive!RecordsHaveLineage' /\ Derive!NeverOverDamaged
                           /\ Derive!OneTargetEach'
                         /\ Derive!SaysWhenItMoved' /\ Derive!StagingIsEmptied'
     /\ part = "order" => Manifest!OrderIsGood' /\ Manifest!RefusedForCause'
     /\ part = "preflight" => Preflight!OrderIsGood' /\ Preflight!CompleteMeansSound'
                              /\ Preflight!HashedWithinBudget'
     /\ part = "shared" => Shared!TypeOK' /\ Shared!ReferencedIsStored'
     /\ part = "codec" => Codec!Canonical' /\ Codec!Inverse' /\ Codec!DifferenceIsOne']_allVars

\* runtime worker: requests are executed in order and once, none that a dead
\* worker left, and only a dead worker leaves one half done; whoever has read
\* that the debuggee is detached or terminated reads a record that says so, and
\* the record says what became of it; after a cancel a trace steps at most the
\* instruction it had begun.
SessionsAreTrue ==
  /\ part = "session" => Session!TypeOK /\ Session!InOrder /\ Session!AnswerIsRecorded
                         /\ Session!EndIsTrue
                        /\ Session!NoneHalfDone
  /\ part = "trace" => Trace!TypeOK /\ Trace!InOrder /\ Trace!AnswerIsRecorded /\ Trace!EndIsTrue
                      /\ Trace!NoneHalfDone /\ Trace!CancelStopsTrace

\* Instrumented runs, experiments and guests, whose processes die, are stopped
\* and run on: a completed collection has everything its engine wrote (a completed
\* one of frida's has what came before the first line that cannot be parsed, which
\* the code does not tell from the end), a replay is of files nobody changed since
\* they were packed; a known outcome leaves no
\* session alive or unnamed, after an unknown one nothing is dispatched, a stop
\* ends the launches, and a completed cleanup has ended every session; stopped
\* means that no unit runs, and what is retained was taken from one that had
\* stopped.
RunsAreTrue ==
  [][/\ part = "collect" => Collect!TypeOK' /\ Collect!CompletedIsWhole'
                            /\ Collect!ReadyIsPacked' /\ Collect!ReplayedUnchanged
     /\ part = "cases" => Cases!TypeOK' /\ Cases!KnownIsTrue' /\ Cases!NothingAfterUnknown
                          /\ Cases!CleanupIsTrue'
     /\ part = "peers" => Peers!TypeOK' /\ Peers!KnownIsTrue' /\ Peers!EndNamesAll'
                          /\ Peers!NothingAfterUnknown
                        /\ Peers!LaunchesStop'
     /\ part = "guest" => Guest!TypeOK' /\ Guest!StoppedIsTrue' /\ Guest!RetainedIsStill'
     /\ part = "replay" => Replay!TypeOK' /\ Replay!StoppedIsTrue'
                           /\ Replay!RetainedIsStill']_allVars

\* Observed calls, lifetimes and identities, while instruments repeat
\* themselves, collectors append between a reader's pages and the kernel reuses
\* numbers: a paired call had one entry and one return of its own, a closed
\* collection leaves no lifetime of its session open, a reader gets its snapshot
\* once and without a gap, and an identity is of the live process that is looked
\* at, and is retired once, when that process has exited.
EvidenceIsTrue ==
  /\ part = "calls" => CallsOf!TypeOK /\ CallsOf!PairedIsTrue /\ CallsOf!ClosingCloses
  /\ part = "lifetimes" => Lifetimes!TypeOK /\ Lifetimes!PairedIsTrue /\ Lifetimes!ClosingCloses
  /\ part = "cursor" => Cursor!TypeOK /\ Cursor!PairedIsTrue /\ Cursor!ReadsTheSnapshot
  /\ part = "offset" => Offset!TypeOK /\ Offset!PairedIsTrue /\ Offset!ReadsWithoutGaps
  /\ part = "identity" => Identity!TypeOK /\ Identity!IdentityIsTrue /\ Identity!OneIdentityEach
                          /\ Identity!RetiredOnce
=============================================================================
