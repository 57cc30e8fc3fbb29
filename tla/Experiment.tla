----------------------------- MODULE Experiment -----------------------------
(***************************************************************************)
(* A runtime experiment, harness_experiment.cpp: one or two cases of a     *)
(* granted target, each run by an engine, observed and cleaned up by a     *)
(* process that writes what it is about to do to a journal; and what is    *)
(* later read from that journal, when the process may be gone: reconcile,  *)
(* which decides what became of the experiment, and cleanup, which ends    *)
(* the sessions it left.                                                   *)
(*                                                                         *)
(* Runtime sessions are those of RuntimeSession and RuntimeCollect, seen   *)
(* from outside: absent, live, or in a terminal state.  An io session is   *)
(* run by the experiment's own process and lives as long as its call.      *)
(***************************************************************************)
EXTENDS Naturals, Sequences, FiniteSets

CONSTANTS
  NCases,    \* cases of the request, 1 or 2
  Engines,   \* engines the cases may name
  NPeers,    \* companions, started before the target of a debugger case
  NSteps,    \* debugger steps of a case
  Repeated,  \* an earlier action made the same request, and all it started has ended
  MaxStops   \* loader stops that a continue step goes past (2 in the code)

(* What normalize_experiment admits. *)
ExperimentAssumption ==
  /\ NCases \in 1..2 /\ NPeers \in 0..2 /\ NSteps \in 0..6
  /\ MaxStops \in Nat /\ Repeated \in BOOLEAN
  /\ Engines \subseteq {"io", "debugger", "trace", "rr"}
  /\ NPeers > 0 => NCases = 1 /\ Engines = {"debugger"}

Cases == 1..NCases
PeerKey(c, i) == <<c, "peer", i>>
CaseKey(c) == <<c, "case", 0>>
ReplayKey(c) == <<c, "replay", 0>>
Keys == Cases \X {"peer"} \X (1..NPeers) \cup Cases \X {"case", "replay"} \X {0}

VARIABLES
  engine,    \* of each case
  sessions,  \* rows of runtime_sessions, by the key of the dispatch
  requests,  \* rows of runtime_requests: their states, by case and step
  stopped,   \* the investigation was cancelled, or 25 s have passed
  pc,        \* what the experiment's process is about to do
  body,      \* its record of the experiment
  journal,   \* the record as it was last saved, none or one
  cleanup,   \* of a later cleanup: none, running, completed or partial
  late       \* history: sessions dispatched after stopped

world == <<engine, sessions, requests, stopped, late>>
vars == <<world, pc, body, journal, cleanup>>

NewCase == [peers |-> 0, peer |-> FALSE, launch |-> FALSE, session |-> FALSE,
            done |-> 0, step |-> 0, replay |-> FALSE, replayed |-> FALSE,
            status |-> "none", whole |-> TRUE]

Init ==
  /\ engine \in [Cases -> Engines]
  /\ sessions = [k \in Keys |-> "none"]
  /\ requests = [x \in Cases \X (1..NSteps) |-> <<>>]
  /\ stopped = FALSE /\ pc = "case" /\ cleanup = "none" /\ late = 0
  /\ body = [status |-> "running", unknown |-> FALSE, cases |-> <<>>]
  /\ journal = {body}

n == Len(body.cases)
current == body.cases[n]
With(r) == [body EXCEPT !.cases[n] = r]
Save(b) == body' = b /\ journal' = {b}
Keep(b) == body' = b /\ UNCHANGED journal

-----------------------------------------------------------------------------
(* The experiment's process. *)

(* The next case begins, unless the investigation was cancelled.           *)
BeginCase ==
  /\ pc = "case" /\ n < NCases
  /\ \/ /\ ~stopped
        /\ Save([body EXCEPT !.cases = Append(@, NewCase)])
        /\ pc' = "peer"
     \/ stopped /\ Keep([body EXCEPT !.status = "cancelled"]) /\ pc' = "end"
  /\ UNCHANGED <<world, cleanup>>

(* What is about to be launched, and under which key, is saved first.      *)
PeerIntent ==
  /\ pc = "peer" /\ current.peers < NPeers /\ ~stopped
  /\ Save(With([current EXCEPT !.peer = TRUE])) /\ pc' = "peer call"
  /\ UNCHANGED <<world, cleanup>>

LaunchIntent ==
  /\ pc = "peer" /\ current.peers = NPeers
  /\ Save(With([current EXCEPT !.launch = TRUE])) /\ pc' = "launch call"
  /\ UNCHANGED <<world, cleanup>>

(* The call that is under way, and its key.                                *)
Calling == CASE pc = "peer call" -> {PeerKey(n, current.peers + 1)}
             [] pc = "launch call" -> {CaseKey(n)}
             [] pc = "replay call" -> {ReplayKey(n)}
             [] OTHER -> {}

(* runtime_command inserts the session's row;                              *)
Dispatch == \E k \in Calling :
  /\ sessions[k] = "none"
  /\ sessions' = [sessions EXCEPT ![k] = "live"]
  /\ late' = (IF stopped THEN late + 1 ELSE late)
  /\ UNCHANGED <<engine, requests, stopped, pc, body, journal, cleanup>>

(* it returns the session, which may have ended; an io-run's has.          *)
PeerReturns ==
  /\ pc = "peer call" /\ sessions[PeerKey(n, current.peers + 1)] # "none"
  /\ Save(With([current EXCEPT !.peers = @ + 1, !.peer = FALSE])) /\ pc' = "ready"
  /\ UNCHANGED <<world, cleanup>>

(* The companion writes its readiness file, or none is asked for.          *)
Ready ==
  /\ pc = "ready" /\ pc' = "peer"
  /\ UNCHANGED <<world, body, journal, cleanup>>

LaunchReturns ==
  /\ pc = "launch call"
  /\ IF engine[n] = "io"
     THEN sessions[CaseKey(n)] = "live" /\ sessions' = [sessions EXCEPT ![CaseKey(n)] = "done"]
     ELSE sessions[CaseKey(n)] # "none" /\ UNCHANGED sessions
  /\ \E w \in BOOLEAN :
       Save(With([current EXCEPT !.session = TRUE, !.whole = engine[n] = "io" => w]))
  /\ pc' = CASE engine[n] = "io" -> "observed" [] engine[n] = "debugger" -> "step" [] OTHER -> "watch"
  /\ UNCHANGED <<engine, requests, stopped, cleanup, late>>

StepIntent ==
  /\ pc = "step" /\ current.done < NSteps /\ ~stopped
  /\ Save(With([current EXCEPT !.step = current.done + 1])) /\ pc' = "step call"
  /\ UNCHANGED <<world, cleanup>>

Step == <<n, current.step>>

(* A request is put for a session with a live worker; a continue that      *)
(* stopped in the loader is put again under the same key.                  *)
PutRequest ==
  /\ pc = "step call" /\ sessions[CaseKey(n)] = "live"
  /\ Len(requests[Step]) \in 0..MaxStops
  /\ \A i \in DOMAIN requests[Step] : requests[Step][i] = "finished"
  /\ requests' = [requests EXCEPT ![Step] = Append(@, "queued")]
  /\ UNCHANGED <<engine, sessions, stopped, pc, body, journal, cleanup, late>>

StepReturns ==
  /\ pc = "step call" /\ requests[Step] # <<>>
  /\ requests[Step][Len(requests[Step])] = "finished"
  /\ Save(With([current EXCEPT !.done = @ + 1, !.step = 0])) /\ pc' = "step"
  /\ UNCHANGED <<world, cleanup>>

Lost(c) == c.launch \/ c.peer

(* What throws ends the case: without a session the outcome is unknown if  *)
(* something may have been launched, with one that session is told to end, *)
(* which a debugger session that already ended refuses.                    *)
Caught(b) ==
  LET c == b.cases[n] IN
  /\ body' \in
       {[b EXCEPT !.cases[n] = [c EXCEPT !.status = "partial"], !.unknown = u] : u \in
          IF ~c.session THEN {Lost(c)}
          ELSE IF engine[n] # "debugger" THEN {b.unknown}
          ELSE IF sessions[CaseKey(n)] = "done" THEN {TRUE}
          ELSE {b.unknown, TRUE}}
  /\ pc' = "companions"
  /\ UNCHANGED journal

(* No answer in time: the request may still be executed.                   *)
StepPending ==
  /\ pc = "step call" /\ requests[Step] # <<>>
  /\ requests[Step][Len(requests[Step])] # "finished"
  /\ Caught([body EXCEPT !.unknown = TRUE])
  /\ UNCHANGED <<world, cleanup>>

(* Changed files, cancels, refused calls, answers that lack what was asked *)
(* for.                                                                    *)
Throws ==
  /\ \/ pc \in {"peer", "peer call", "ready", "step", "watch", "replay call"}
     \/ pc = "launch call" /\ ~(engine[n] = "io" /\ sessions[CaseKey(n)] = "live")
     \/ pc = "step call" /\ (\A i \in DOMAIN requests[Step] : requests[Step][i] = "finished")
  /\ Caught(body)
  /\ UNCHANGED <<world, cleanup>>

(* An io-run that throws has ended its session.                            *)
IoThrows ==
  /\ pc = "launch call" /\ engine[n] = "io" /\ sessions[CaseKey(n)] = "live"
  /\ sessions' = [sessions EXCEPT ![CaseKey(n)] = "done"]
  /\ Caught(body)
  /\ UNCHANGED <<engine, requests, stopped, late, cleanup>>

(* After the last step the debugger session is told to terminate; it may   *)
(* do so later.                                                            *)
Terminate ==
  /\ pc = "step" /\ current.done = NSteps /\ sessions[CaseKey(n)] = "live"
  /\ pc' = "observed"
  /\ UNCHANGED <<world, body, journal, cleanup>>

(* An instrumented run is watched for 5 s, then cancelled.                 *)
Watch ==
  /\ pc = "watch"
  /\ LET over == sessions[CaseKey(n)] = "done" IN
     \/ Keep(With([current EXCEPT !.whole = over])) /\ pc' = "observed"
     \/ /\ over /\ Keep(With([current EXCEPT !.whole = FALSE]))  \* its result_status
        /\ pc' = "observed"
     \/ /\ over /\ engine[n] = "rr" /\ ~stopped
        /\ Save(With([current EXCEPT !.replay = TRUE])) /\ pc' = "replay call"
  /\ UNCHANGED <<world, cleanup>>

ReplayReturns ==
  /\ pc = "replay call" /\ sessions[ReplayKey(n)] # "none"
  /\ Save(With([current EXCEPT !.replayed = TRUE])) /\ pc' = "observed"
  /\ UNCHANGED <<world, cleanup>>

Observed ==
  /\ pc = "observed"
  /\ Keep(With([current EXCEPT !.status = "observed"])) /\ pc' = "companions"
  /\ UNCHANGED <<world, cleanup>>

AfterCase(b) == pc' = IF n < NCases /\ ~b.unknown THEN "case" ELSE "end"

(* The companions are told to terminate.                                   *)
Companions ==
  /\ pc = "companions"
  /\ \E b \in {body} \cup (IF current.peers > 0 THEN {[body EXCEPT !.unknown = TRUE]} ELSE {}) :
       Save(b) /\ AfterCase(b)
  /\ UNCHANGED <<world, cleanup>>

Verdict(b) ==
  IF b.status # "running" THEN b.status
  ELSE IF b.unknown THEN "interrupted"
  ELSE IF \A c \in 1..n : b.cases[c].status = "observed" /\ b.cases[c].whole THEN "completed"
  ELSE "partial"

End ==
  /\ pc = "end"
  /\ Save([body EXCEPT !.status = Verdict(body)]) /\ pc' = "ended"
  /\ UNCHANGED <<world, cleanup>>

(* The process dies; a session it ran itself keeps its row as it was.      *)
Crash ==
  /\ pc \notin {"ended", "dead"}
  /\ pc' = "dead"
  /\ UNCHANGED <<world, body, journal, cleanup>>

-----------------------------------------------------------------------------
(* The runtime, and time. *)

SessionEnds(k) ==
  /\ sessions[k] = "live"
  /\ ~(k[2] = "case" /\ engine[k[1]] = "io")
  /\ sessions' = [sessions EXCEPT ![k] = "done"]
  /\ UNCHANGED <<engine, requests, stopped, pc, body, journal, cleanup, late>>

Serve(x, i) ==
  /\ sessions[CaseKey(x[1])] = "live"
  /\ i \in DOMAIN requests[x] /\ requests[x][i] # "finished"
  /\ requests' = [requests EXCEPT ![x][i] = IF @ = "queued" THEN "running" ELSE "finished"]
  /\ UNCHANGED <<engine, sessions, stopped, pc, body, journal, cleanup, late>>

Stop ==
  /\ ~stopped /\ stopped' = TRUE
  /\ UNCHANGED <<engine, sessions, requests, pc, body, journal, cleanup, late>>

-----------------------------------------------------------------------------
(* reconcile_experiment, of the journal as it is. *)

(* Mutant: only the sessions whose ids the journal has.                    *)
NamedById(j) ==
  UNION {LET c == j.cases[i] IN
         {PeerKey(i, p) : p \in 1..c.peers}
         \cup (IF c.session THEN {CaseKey(i)} ELSE {})
         \cup (IF c.replayed THEN {ReplayKey(i)} ELSE {}) : i \in DOMAIN j.cases}

(* The sessions that the journal names, or that bear a key it names.       *)
Named(j) ==
  UNION {LET c == j.cases[i] IN
         {PeerKey(i, p) : p \in 1..c.peers}
         \cup (IF c.peer THEN {PeerKey(i, c.peers + 1)} ELSE {})
         \cup (IF c.session \/ c.launch THEN {CaseKey(i)} ELSE {})
         \cup (IF c.replayed THEN {ReplayKey(i)} ELSE {}) : i \in DOMAIN j.cases}
Found(j) == {k \in Named(j) : sessions[k] # "none"}

LaunchKnown(j, i) ==
  j.cases[i].session \/ (j.cases[i].launch /\ sessions[CaseKey(i)] # "none")

PeerKnown(j, i) ==
  j.cases[i].peer => sessions[PeerKey(i, j.cases[i].peers + 1)] # "none"

ReplayKnown(j, i) == j.cases[i].replay => j.cases[i].replayed

(* A pending step is known when there is one request under its key and its *)
(* state is one of these.                                                  *)
KnownStates == {"completed", "failed"}

StepKnown(j, i) ==
  LET c == j.cases[i] IN
  c.step # 0 => Len(requests[<<i, c.step>>]) = 1 /\ requests[<<i, c.step>>][1] \in KnownStates

OutcomeUnknown(j) ==
  \/ \E i \in DOMAIN j.cases :
       ~(LaunchKnown(j, i) /\ PeerKnown(j, i) /\ ReplayKnown(j, i) /\ StepKnown(j, i))
  \/ \E k \in Found(j) : sessions[k] # "done"

(* The verdict: of the first journal whose request has the digest, be it   *)
(* this action's or the earlier one's.                                     *)
Verdicts == {OutcomeUnknown(j) : j \in journal} \cup (IF Repeated THEN {FALSE} ELSE {})

(* experiment.cleanup, an action of its own that is admitted when the      *)
(* experiment's has ended: it ends what reconcile finds,                   *)
BeginCleanup ==
  /\ pc \in {"ended", "dead"} /\ cleanup = "none"
  /\ cleanup' = "running"
  /\ UNCHANGED <<world, pc, body, journal>>

(* and asks reconcile again, for up to 2 s.                                *)
EndCleanup ==
  /\ cleanup = "running"
  /\ \E unknown \in Verdicts : cleanup' = (IF unknown THEN "partial" ELSE "completed")
  /\ UNCHANGED <<world, pc, body, journal>>

-----------------------------------------------------------------------------
Process ==
  \/ BeginCase \/ PeerIntent \/ LaunchIntent \/ Dispatch \/ PeerReturns \/ Ready
  \/ LaunchReturns \/ StepIntent \/ PutRequest \/ StepReturns \/ StepPending
  \/ Throws \/ IoThrows \/ Terminate \/ Watch \/ ReplayReturns \/ Observed
  \/ Companions \/ End \/ Crash

Runtime ==
  \/ \E k \in Keys : SessionEnds(k)
  \/ \E x \in DOMAIN requests : \E i \in 1..(MaxStops + 1) : Serve(x, i)

Next == Process \/ Runtime \/ Stop \/ BeginCleanup \/ EndCleanup

Spec == Init /\ [][Next]_vars

-----------------------------------------------------------------------------
CaseRecords == [peers : 0..NPeers, peer : BOOLEAN, launch : BOOLEAN, session : BOOLEAN,
                done : 0..NSteps, step : 0..NSteps, replay : BOOLEAN, replayed : BOOLEAN,
                status : {"none", "observed", "partial"}, whole : BOOLEAN]
Bodies == [status : {"running", "cancelled", "interrupted", "partial", "completed"},
           unknown : BOOLEAN, cases : Seq(CaseRecords)]
Pcs == {"case", "peer", "peer call", "ready", "launch call", "step", "step call", "watch",
        "replay call", "observed", "companions", "end", "ended", "dead"}

(* Type invariant.                                                         *)
TypeOK ==
  /\ engine \in [Cases -> Engines] /\ sessions \in [Keys -> {"none", "live", "done"}]
  /\ requests \in [Cases \X (1..NSteps) -> Seq({"queued", "running", "finished"})]
  /\ stopped \in BOOLEAN /\ pc \in Pcs /\ late \in Nat
  /\ body \in Bodies /\ n <= NCases /\ journal \subseteq Bodies
  /\ cleanup \in {"none", "running", "completed", "partial"}

(* Once the process is gone, wherever it died, an outcome that reconcile   *)
(* calls known leaves no session of the experiment alive, nor one that it  *)
(* has not found.                                                          *)
KnownIsTrue ==
  pc \in {"ended", "dead"} /\ FALSE \in Verdicts => \A k \in Keys : sessions[k] # "live"

(* A cleanup that says it is completed has ended every session.            *)
CleanupIsTrue == cleanup = "completed" => \A k \in Keys : sessions[k] # "live"

(* An experiment that ends with a known outcome names every session that   *)
(* it dispatched.                                                          *)
EndNamesAll ==
  pc = "ended" /\ ~body.unknown => \A k \in Keys : sessions[k] # "none" => k \in NamedById(body)

(* Nothing is dispatched after a dispatch whose outcome is unknown: that   *)
(* one is to be reconciled, and not to be repeated.                        *)
NothingAfterUnknown == body.unknown => \A k \in Keys : sessions[k] = "none" => sessions'[k] = "none"

(* A cancel, or the deadline, stops the launches: what is still launched   *)
(* is the call under way and, after the last companion, the target.        *)
LaunchesStop == late <= IF NPeers > 0 THEN 2 ELSE 1

(* A completed experiment has run all its cases, each with a full          *)
(* observation, and a session that is not a debugger's has ended.          *)
CompletedIsWhole ==
  body.status = "completed" =>
    /\ n = NCases
    /\ \A c \in Cases : /\ body.cases[c].status = "observed" /\ body.cases[c].whole
                        /\ engine[c] # "debugger" => sessions[CaseKey(c)] = "done"
=============================================================================
