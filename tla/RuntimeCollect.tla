--------------------------- MODULE RuntimeCollect ---------------------------
(***************************************************************************)
(* Runs that are collected and not debugged, runtime.cpp and               *)
(* runtime_rr.cpp: instrument, whose worker starts an engine's host, tells *)
(* it to stop through a file, and reads the events it wrote after it has   *)
(* ended; and record and replay, whose worker runs rr phase by phase.  A   *)
(* run takes no requests: commands can look at it and cancel it.           *)
(*                                                                         *)
(* The engines are external: a host writes lines to its event file and     *)
(* ends, by itself, by the stop file or by its time limit.                 *)
(***************************************************************************)
EXTENDS Naturals, Sequences, SequencesExt

CONSTANTS
  Engines,     \* frida and dynamorio instrument, record and replay are rr's
  MaxEvents,   \* bound on the lines of an event file
  MaxCancels,  \* bound on the cancel counter
  MaxChanges   \* bound on changes of a recorded trace by others

CollectAssumption ==
  /\ Engines \subseteq {"frida", "dynamorio", "record", "replay"} /\ Engines # {}
  /\ MaxEvents \in Nat /\ MaxCancels \in Nat /\ MaxChanges \in Nat

VARIABLES
  engine,
  state, result, ready,  \* of the record: state, result_status, replay_ready
  cancel,                \* the cancel counter
  pc,                    \* of the worker
  generation,            \* the counter as instrument_worker first read it
  cancelled,             \* what the worker will report
  file,                  \* the stop file is there
  host,                  \* the engine's process: none, running, or how it ended
  events, read,          \* lines written, lines read
  partial, capped,       \* what the reader makes of them
  phase,                 \* rr: the phase that runs, or is next
  guard,                 \* rr: a bound of the trace or the disk was hit
  trace,                 \* the version of the trace's files
  manifest,              \* the version a recording's manifest names
  early                  \* history: a cancel came before the run was running

rec == <<state, result, ready>>
reading == <<events, read, partial, capped>>
rr == <<phase, guard, trace, manifest>>
vars == <<engine, rec, cancel, pc, generation, cancelled, file, host, reading, rr, early>>

Instruments == engine \in {"frida", "dynamorio"}
Phases == IF engine = "record" THEN <<"record", "pack", "traceinfo">> ELSE <<"replay">>
Final == {"exited", "cancelled", "failed"}

Init ==
  /\ engine \in Engines
  /\ state = "starting" /\ result = "none" /\ ready = FALSE
  /\ cancel = 0 /\ pc = "begin" /\ generation = 0 /\ cancelled = FALSE /\ file = FALSE
  /\ host = "none" /\ events = <<>> /\ read = 0 /\ partial = (engine = "dynamorio") /\ capped = FALSE
  /\ phase = 1 /\ guard = FALSE /\ trace = 0 /\ manifest = 0 /\ early = FALSE

(* runtime cancel.                                                         *)
Cancel ==
  /\ cancel < MaxCancels
  /\ cancel' = cancel + 1 /\ early' = (early \/ state = "starting")
  /\ UNCHANGED <<engine, rec, pc, generation, cancelled, file, host, reading, rr>>

(* What throws in instrument_worker ends the run as failed.                *)
Throw ==
  /\ Instruments /\ pc \in {"begin", "ready", "read"}
  /\ state' = "failed" /\ pc' = "gone"
  /\ UNCHANGED <<engine, result, ready, cancel, generation, cancelled, file, host, reading, rr, early>>

-----------------------------------------------------------------------------
(* instrument. *)

(* The counter is read before the host is started,                         *)
Generation ==
  /\ Instruments /\ pc = "begin"
  /\ generation' = cancel /\ pc' = "ready"
  /\ UNCHANGED <<engine, rec, cancel, cancelled, file, host, reading, rr, early>>

StartHost ==
  /\ Instruments /\ pc = "ready"
  /\ host' = "running" /\ state' = "running" /\ pc' = "watch"
  /\ UNCHANGED <<engine, result, ready, cancel, generation, cancelled, file, reading, rr, early>>

(* compared every 25 ms; rr's worker compares it with zero.                *)
CancelSeen == IF Instruments THEN cancel # generation ELSE cancel # 0

Watch ==
  /\ Instruments /\ pc = "watch" /\ host = "running"
  /\ CancelSeen /\ ~cancelled
  /\ file' = TRUE /\ cancelled' = TRUE
  /\ UNCHANGED <<engine, rec, cancel, pc, generation, host, reading, rr, early>>

(* The host writes a line; one it cannot encode, or cuts short, is garbled.*)
(* A gap is a message of frida's that is no record, or says that a hook or *)
(* a capture was not available; after its limit only such messages come.   *)
Emit(line) ==
  /\ host = "running" /\ Instruments /\ Len(events) < MaxEvents
  /\ Contains(events, "limit") => line = "gap"
  /\ line = "gap" => engine = "frida"
  /\ events' = Append(events, line)
  /\ UNCHANGED <<engine, rec, cancel, pc, generation, cancelled, file, host, read, partial, capped, rr, early>>

(* It ends: dynamorio says at its end that it was not partial, frida's     *)
(* host that it cut messages away or that its target crashed.              *)
HostEnds(how) ==
  /\ host = "running" /\ Instruments
  /\ how = "stopped" => file
  /\ how = "cut" => engine = "frida"
  /\ host' = how
  /\ events' = IF engine = "dynamorio" /\ how = "ok" THEN Append(events, "end") ELSE events
  /\ UNCHANGED <<engine, rec, cancel, pc, generation, cancelled, file, read, partial, capped, rr, early>>

Collected ==
  /\ Instruments /\ pc = "watch" /\ host \notin {"none", "running"}
  /\ pc' = "read"
  /\ UNCHANGED <<engine, rec, cancel, generation, cancelled, file, host, reading, rr, early>>

(* A line is read; at a garbled one the reader stops.                      *)
Ingest ==
  /\ pc = "read" /\ read < Len(events) /\ events[read + 1] # "garbled"
  /\ read' = read + 1
  /\ capped' = (capped \/ events[read + 1] = "limit")
  /\ partial' = ((partial /\ events[read + 1] # "end") \/ events[read + 1] = "gap")
  /\ UNCHANGED <<engine, rec, cancel, pc, generation, cancelled, file, host, events, rr, early>>

(* Mutant: a garbled line is waited for.                                   *)
AllReadWhole == read = Len(events)

AllRead == read < Len(events) => events[read + 1] = "garbled"

Status ==
  IF cancelled THEN "cancelled"
  ELSE IF host = "error" THEN "failed"
  ELSE IF partial \/ capped \/ host \in {"timeout", "cut"} THEN "partial"
  ELSE "completed"

StateOf(s) == IF s \in {"cancelled", "failed"} THEN s ELSE "exited"

(* The summary, collection_closed, and the record.                         *)
Summarize ==
  /\ Instruments /\ pc = "read" /\ AllRead
  /\ result' = Status /\ state' = StateOf(Status) /\ pc' = "gone"
  /\ UNCHANGED <<engine, ready, cancel, generation, cancelled, file, host, reading, rr, early>>

-----------------------------------------------------------------------------
(* record and replay. *)

(* The record says running before rr is looked for; a replay compares the  *)
(* trace with the recording's manifest.                                    *)
Begin ==
  /\ ~Instruments /\ pc = "begin"
  /\ state' = "running" /\ pc' = "compare"
  /\ UNCHANGED <<engine, result, ready, cancel, generation, cancelled, file, host, reading, rr, early>>

(* run_rr_session returns a result, which the record repeats.              *)
Returns(status, isReady) ==
  /\ result' = status /\ state' = StateOf(status) /\ ready' = isReady /\ pc' = "gone"

(* Bounds, directory, storage floor, launcher, and the replay's manifest.  *)
Compare ==
  /\ ~Instruments /\ pc = "compare"
  /\ \/ (engine = "replay" => trace = manifest) /\ pc' = "phase" /\ UNCHANGED rec
     \/ Returns("failed", FALSE)
  /\ UNCHANGED <<engine, cancel, generation, cancelled, file, host, reading, rr, early>>

Stop == CancelSeen \/ guard

(* A phase begins unless the run was cancelled or is out of its bounds.    *)
PhaseBegins ==
  /\ pc = "phase" /\ phase <= Len(Phases)
  /\ \/ ~Stop /\ host' = "running" /\ pc' = "run" /\ UNCHANGED rec
     \/ Stop /\ Returns(IF guard THEN "partial" ELSE "cancelled", FALSE) /\ UNCHANGED host
     \/ ~Stop /\ Returns("partial", FALSE) /\ UNCHANGED host  \* no time is left
  /\ UNCHANGED <<engine, cancel, generation, cancelled, file, reading, rr, early>>

(* It ends; a recording writes its trace until it is packed.               *)
PhaseEnds ==
  /\ pc = "run"
  /\ \/ /\ host' = "ok" /\ phase' = phase + 1 /\ pc' = "phase" /\ UNCHANGED rec
     \/ /\ host' = "stopped" /\ Stop
        /\ Returns(IF guard THEN "partial" ELSE "cancelled", FALSE) /\ UNCHANGED phase
     \/ host' = "timeout" /\ Returns("partial", FALSE) /\ UNCHANGED phase
     \/ host' = "error" /\ Returns(IF guard THEN "partial" ELSE "failed", FALSE) /\ UNCHANGED phase
  /\ UNCHANGED <<engine, cancel, generation, cancelled, file, reading, guard, trace, manifest, early>>

(* The scan of the trace, every 100 ms: more files or bytes than allowed.  *)
Guard ==
  /\ pc \in {"phase", "run"} /\ ~guard
  /\ guard' = TRUE
  /\ UNCHANGED <<engine, rec, cancel, pc, generation, cancelled, file, host, reading, phase, trace, manifest, early>>

SameTrace == engine = "replay" => trace = manifest

(* The manifest is taken; truncated output makes the result partial.       *)
Finish ==
  /\ pc = "phase" /\ phase > Len(Phases)
  /\ \/ /\ SameTrace /\ manifest' = (IF engine = "record" THEN trace ELSE manifest)
        /\ \E status \in {"completed", "partial"} : Returns(status, engine = "record")
     \/ Returns("failed", FALSE) /\ UNCHANGED manifest
  /\ UNCHANGED <<engine, cancel, generation, cancelled, file, host, reading, phase, guard, trace, early>>

(* Somebody writes to the directory of a trace.                            *)
Change ==
  /\ ~Instruments /\ trace < MaxChanges
  /\ trace' = trace + 1
  /\ UNCHANGED <<engine, rec, cancel, pc, generation, cancelled, file, host, reading, phase, guard, manifest, early>>

(* The worker dies.                                                        *)
Crash ==
  /\ pc # "gone"
  /\ pc' = "gone"
  /\ UNCHANGED <<engine, rec, cancel, generation, cancelled, file, host, reading, rr, early>>

-----------------------------------------------------------------------------
WorkerStep ==
  \/ Generation \/ StartHost \/ Watch \/ Collected \/ Ingest \/ Summarize
  \/ Begin \/ Compare \/ PhaseBegins \/ PhaseEnds \/ Finish

HostStep == \E how \in {"ok", "error", "timeout", "stopped", "cut"} : HostEnds(how)

Next ==
  \/ Cancel \/ Throw \/ WorkerStep \/ HostStep \/ Guard \/ Change \/ Crash
  \/ \E line \in {"event", "limit", "garbled", "gap"} : Emit(line)

Spec == Init /\ [][Next]_vars

(* The worker goes on, and a host has a time limit.                        *)
FairSpec == Spec /\ WF_vars(WorkerStep) /\ WF_vars(HostStep)

-----------------------------------------------------------------------------
Results == {"none", "completed", "partial", "failed", "cancelled"}

(* Type invariant.                                                         *)
TypeOK ==
  /\ state \in {"starting", "running"} \cup Final /\ result \in Results /\ ready \in BOOLEAN
  /\ cancel \in 0..MaxCancels /\ generation \in 0..cancel
  /\ pc \in {"begin", "ready", "watch", "read", "compare", "phase", "run", "gone"}
  /\ {cancelled, file, partial, capped, guard, early} \subseteq BOOLEAN
  /\ host \in {"none", "running", "ok", "error", "timeout", "stopped", "cut"}
  /\ read \in 0..Len(events) /\ phase \in 1..4
  /\ trace \in Nat /\ manifest \in 0..trace

(* When a run says it is completed, its engine came to its own end, nothing *)
(* that was read tells of a limit or a gap, and everything the engine wrote *)
(* was read.  The last is not so of frida: it has no line that says the     *)
(* end, and a run whose reader stopped at a line that cannot be parsed      *)
(* (runtime.cpp:780) is completed all the same, whatever came after.        *)
CompletedIsWhole ==
  result = "completed" =>
    /\ host = "ok"
    /\ \A n \in 1..read : events[n] \notin {"limit", "gap", "garbled"}
    /\ \/ read = Len(events)
       \/ engine = "frida" /\ events[read + 1] = "garbled"

(* A session that is offered for replay is a recording that was packed and *)
(* indexed, and whose manifest was stored.                                 *)
ReadyIsPacked == ready => engine = "record" /\ phase = Len(Phases) + 1 /\ state = "exited"

(* A replay does not complete over files that are no longer the recording, *)
(* whoever changed them since, also while it ran.                          *)
ReplayedUnchanged ==
  engine = "replay" /\ result' = "completed" /\ result # "completed" => trace = manifest

(* Every run ends with a record that says how, unless its worker dies.     *)
RunEnds == <>(pc = "gone")
=============================================================================
