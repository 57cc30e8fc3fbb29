---------------------------- MODULE NativeWorker ----------------------------
(***************************************************************************)
(* airece_worker.cpp on Linux: run_native_process, which runs one program  *)
(* with bounded output and time, and run_airece, which asks a worker of    *)
(* its version, runs it and puts what it said in a bounded envelope.       *)
(*                                                                         *)
(* A worker is a leader, and at most one more process that holds the       *)
(* leader's pipes: a child in its group, or one outside it (a daemon, or a *)
(* program another thread forked while the pipes were open).  Output is    *)
(* counted in pieces; the pieces of a stream are its leader's and then its *)
(* holder's.  The executable may be replaced at any time.                  *)
(***************************************************************************)
EXTENDS Integers, FiniteSets, FiniteSetsExt, Functions

CONSTANTS
  Contents,     \* what the executable's file may hold
  Calls,        \* how many requests are made, one after the other
  Pieces,       \* the most a process writes to a stream
  PipeRoom,     \* pieces a pipe holds; at most what one drain takes
  OutputLimit,  \* max_output_bytes
  EnvelopeLimit,
  None

Streams == {"out", "err"}
Procs == {"leader", "holder"}

VARIABLES
  file, versions,      \* the executable; the cache of provenance
  call, digest,
  view,                \* "json" where the worker answers in JSON, or "text"
  pc,                  \* of the thread that runs the request
  procs,               \* none, running, exited or killed
  place,               \* of the holder: group or outside
  code,                \* the leader's exit code
  wrote, pipe,         \* pieces written and pieces not yet read
  kept, read, eof,     \* what the request holds of each stream
  cancel, late,        \* the caller's cancellation; the deadline has passed
  result, answer
request == <<call, digest, view, versions>>
worker == <<procs, place, code, wrote>>
vars == <<file, request, pc, worker, pipe, kept, read, eof, cancel, late, result, answer>>

Alive(p) == procs[p] = "running"
Holders == {p \in Procs : Alive(p)}
Dead == [p \in Procs |-> "none"]
Nothing == [s \in Streams |-> 0]
NoAnswer == [status |-> "none", rest |-> 0, detail |-> 0, native |-> 0, out |-> 0, err |-> 0, omitted |-> {}]
NoResult == [cancelled |-> FALSE, timed_out |-> FALSE, truncated |-> FALSE, complete |-> FALSE]

Init ==
  /\ file \in Contents /\ versions = [c \in Contents |-> None]
  /\ call = 1 /\ digest = None /\ view \in {"json", "text"} /\ pc = "digest"
  /\ procs = Dead /\ place = "group" /\ code = None /\ wrote = Nothing
  /\ pipe = Nothing /\ kept = Nothing /\ read = Nothing /\ eof = [s \in Streams |-> FALSE]
  /\ cancel = FALSE /\ late = FALSE /\ result = NoResult /\ answer = NoAnswer

-----------------------------------------------------------------------------
(* The world: the worker, the caller, the clock, and whoever installs.     *)

Write(p, s) ==
  /\ Alive(p) /\ pipe[s] < PipeRoom /\ wrote[s] < Pieces
  /\ wrote' = [wrote EXCEPT ![s] = @ + 1] /\ pipe' = [pipe EXCEPT ![s] = @ + 1]
  /\ UNCHANGED <<file, request, pc, procs, place, code, kept, read, eof, cancel, late, result, answer>>

\* The leader ends with 0, with 3 (its own bounds were met) or with another code.
Exit(p) ==
  /\ Alive(p)
  /\ procs' = [procs EXCEPT ![p] = "exited"]
  /\ code' \in (IF p = "leader" THEN {0, 1, 3} ELSE {code})
  /\ UNCHANGED <<file, request, pc, place, wrote, pipe, kept, read, eof, cancel, late, result, answer>>

ForkHolder ==
  /\ Alive("leader") /\ procs["holder"] = "none"
  /\ procs' = [procs EXCEPT !["holder"] = "running"] /\ place' \in {"group", "outside"}
  /\ UNCHANGED <<file, request, pc, code, wrote, pipe, kept, read, eof, cancel, late, result, answer>>

Cancel == ~cancel /\ cancel' = TRUE
          /\ UNCHANGED <<file, request, pc, worker, pipe, kept, read, eof, late, result, answer>>
Late == ~late /\ late' = TRUE
        /\ UNCHANGED <<file, request, pc, worker, pipe, kept, read, eof, cancel, result, answer>>

Replace ==
  /\ \E c \in Contents \ {file} : file' = c
  /\ UNCHANGED <<request, pc, worker, pipe, kept, read, eof, cancel, late, result, answer>>

-----------------------------------------------------------------------------
(* provenance.                                                             *)

Digest ==
  /\ pc = "digest" /\ digest' = file
  /\ pc' = IF versions[file] = None /\ ~late THEN "probe" ELSE "start"
  /\ UNCHANGED <<file, call, view, versions, worker, pipe, kept, read, eof, cancel, late, result, answer>>

\* `--version' is a run of its own with at most 2 s; it may fail.  What it
\* prints is of the file that is there when it runs.
Probe ==
  /\ pc = "probe" /\ pc' = "start"
  /\ \/ ~cancel /\ versions' = [versions EXCEPT ![digest] = file]
     \/ UNCHANGED versions
  /\ UNCHANGED <<file, call, digest, view, worker, pipe, kept, read, eof, cancel, late, result, answer>>

-----------------------------------------------------------------------------
(* run_native_process.                                                     *)

Start ==
  /\ pc = "start"
  /\ IF cancel \/ late
     THEN /\ result' = [NoResult EXCEPT !.cancelled = cancel, !.timed_out = ~cancel]
          /\ pc' = "answer" /\ UNCHANGED procs
     ELSE result' = NoResult /\ pc' = "drain" /\ procs' = [procs EXCEPT !["leader"] = "running"]
  /\ UNCHANGED <<file, request, place, code, wrote, pipe, kept, read, eof, cancel, late, answer>>

\* append_bounded over what the pipe holds; TRUE of eof where nobody can
\* write any more.
DrainFrom(ss) ==
  LET keep == [s \in Streams |-> IF s \in ss THEN Min({OutputLimit, kept[s] + pipe[s]}) ELSE kept[s]]
  IN /\ kept' = keep
     /\ read' = [s \in Streams |-> IF s \in ss THEN read[s] + pipe[s] ELSE read[s]]
     /\ pipe' = [s \in Streams |-> IF s \in ss THEN 0 ELSE pipe[s]]
     /\ eof' = [s \in Streams |-> IF s \in ss THEN Holders = {} ELSE eof[s]]
     /\ result' = [result EXCEPT !.truncated = @ \/ \E s \in ss : keep[s] - kept[s] # pipe[s]]

\* The loop drains both streams before it looks at the process.
Drain ==
  /\ pc = "drain" /\ DrainFrom(Streams) /\ pc' = "wait"
  /\ UNCHANGED <<file, request, worker, cancel, late, answer>>

Group == {"leader"} \cup (IF place = "group" THEN {"holder"} ELSE {})

\* kill(-pid, SIGKILL), and the leader is reaped.
KillGroup(before) == [p \in Procs |-> IF p \in Group /\ before[p] = "running" THEN "killed" ELSE before[p]]

Wait ==
  /\ pc = "wait"
  /\ IF ~Alive("leader") THEN pc' = "final" /\ UNCHANGED <<procs, code, result>>
     ELSE /\ result' = [result EXCEPT !.cancelled = cancel, !.timed_out = late]
          /\ IF cancel \/ late
             THEN pc' = "final" /\ procs' = KillGroup(procs) /\ code' = 137
             ELSE pc' = "drain" /\ UNCHANGED <<procs, code>>
  /\ UNCHANGED <<file, request, place, wrote, pipe, kept, read, eof, cancel, late, answer>>

FinalDrain ==
  /\ pc = "final" /\ DrainFrom(Streams) /\ pc' = "grace"
  /\ UNCHANGED <<file, request, worker, cancel, late, answer>>

\* The bounded EOF grace: 50 ms, or until the deadline.
Grace ==
  /\ pc = "grace" /\ \E s \in Streams : ~eof[s]
  /\ ~result.cancelled /\ ~result.timed_out /\ ~late
  /\ IF cancel THEN result' = [result EXCEPT !.cancelled = TRUE] /\ UNCHANGED <<kept, read, pipe, eof>>
     ELSE DrainFrom({s \in Streams : ~eof[s]})
  /\ UNCHANGED <<file, request, pc, worker, cancel, late, answer>>

\* The grace ends at an EOF of both, when it is over, or at a cancellation
\* or timeout; whatever is left of the group is killed.
Return ==
  /\ pc = "grace"
  /\ result' = [result EXCEPT !.complete = \A s \in Streams : eof[s]]
  /\ procs' = KillGroup(procs) /\ pc' = "answer"
  /\ UNCHANGED <<file, request, place, code, wrote, pipe, kept, read, eof, cancel, late, answer>>

-----------------------------------------------------------------------------
(* run_airece's answer.                                                    *)

Status ==
  IF result.cancelled THEN "cancelled" ELSE IF result.timed_out THEN "timeout"
  ELSE IF code \notin {0, 3} THEN "failed" ELSE IF result.truncated \/ code = 3 THEN "partial" ELSE "complete"

Size(e) == e.rest + e.detail + e.native + e.out + e.err

\* The most of a field that fits: the binary search's answer.
Cut(e, field) ==
  LET room == EnvelopeLimit - (Size(e) - e[field])
  IN [e EXCEPT ![field] = Max({0, Min({room, e[field]})}), !.omitted = @ \cup {field}]

\* bounded_envelope: parsed semantics are kept before raw text, and are kept
\* whole or not at all.
Bounded(e) ==
  LET fits(x) == Size(x) <= EnvelopeLimit
      less == [e EXCEPT !.status = IF @ = "complete" THEN "partial" ELSE @]
      raw == IF e.native > 0 THEN [less EXCEPT !.out = 0, !.omitted = {"out"}] ELSE less
      plain == IF raw.native > 0 THEN [raw EXCEPT !.native = 0, !.omitted = @ \cup {"native"}] ELSE raw
      noOut == IF e.native > 0 THEN plain ELSE Cut(plain, "out")
      noErr == Cut(noOut, "err")
      bare == [noErr EXCEPT !.detail = 0, !.omitted = @ \cup {"detail"}]
  IN CASE fits(e) -> e [] fits(raw) -> raw [] fits(noOut) -> noOut [] fits(noErr) -> noErr [] fits(bare) -> bare
       [] OTHER -> [bare EXCEPT !.rest = 0, !.out = 0, !.err = 0, !.omitted = @ \cup {"rest"}]

\* A worker whose JSON is cut answers nothing that can be parsed, and one
\* that is whole may still be no JSON.
Answer ==
  /\ pc = "answer" /\ pc' = "done"
  /\ \E rest \in 1..2, detail \in 0..1, parsed \in BOOLEAN :
       LET bad == view = "json" /\ ~result.truncated /\ ~parsed /\ Status \notin {"cancelled", "timeout"}
           native == IF view = "json" /\ (result.truncated \/ ~parsed) THEN 0 ELSE kept["out"]
           e == [status |-> IF bad THEN "failed" ELSE Status, rest |-> rest, detail |-> detail, native |-> native,
                 out |-> kept["out"], err |-> kept["err"], omitted |-> {}]
       IN answer' = Bounded(e)
  /\ UNCHANGED <<file, request, worker, pipe, kept, read, eof, cancel, late, result>>

\* The next request, when the last one's holder has gone.
Again ==
  /\ pc = "done" /\ call < Calls /\ Holders = {}
  /\ call' = call + 1 /\ digest' = None /\ view' \in {"json", "text"} /\ pc' = "digest"
  /\ procs' = Dead /\ place' = "group" /\ code' = None /\ wrote' = Nothing
  /\ pipe' = Nothing /\ kept' = Nothing /\ read' = Nothing /\ eof' = [s \in Streams |-> FALSE]
  /\ cancel' = FALSE /\ late' = FALSE /\ result' = NoResult /\ answer' = NoAnswer
  /\ UNCHANGED <<file, versions>>

Next ==
  \/ \E p \in Procs : Exit(p) \/ \E s \in Streams : Write(p, s)
  \/ ForkHolder \/ Cancel \/ Late \/ Replace
  \/ Digest \/ Probe \/ Start \/ Drain \/ Wait \/ FinalDrain \/ Grace \/ Return \/ Answer \/ Again

Spec == Init /\ [][Next]_vars

\* The thread goes on, the clock does, and the kernel lets a killed group
\* die.  The worker owes nothing.
FairSpec == Spec /\ WF_vars(Late) /\ WF_vars(Digest \/ Probe \/ Start \/ Drain \/ Wait \/ FinalDrain \/ Return \/ Answer)

-----------------------------------------------------------------------------

TypeOK ==
  /\ file \in Contents /\ digest \in Contents \cup {None} /\ versions \in [Contents -> Contents \cup {None}]
  /\ pc \in {"digest", "probe", "start", "drain", "wait", "final", "grace", "answer", "done"}
  /\ procs \in [Procs -> {"none", "running", "exited", "killed"}] /\ place \in {"group", "outside"}
  /\ wrote \in [Streams -> 0..Pieces] /\ pipe \in [Streams -> 0..PipeRoom]
  /\ kept \in [Streams -> 0..OutputLimit] /\ eof \in [Streams -> BOOLEAN]
  /\ result \in [{"cancelled", "timed_out", "truncated", "complete"} -> BOOLEAN]

\* Output is called complete only when no process is left that could write,
\* nothing is left in a pipe and, unless it is called truncated, every piece
\* written is kept.  (airece.hpp:23: "Both pipes reached EOF, not merely
\* parent exit.")
OutputCompleteIsTrue ==
  result.complete =>
    /\ Holders = {} /\ \A s \in Streams : pipe[s] = 0 /\ read[s] = wrote[s]
    /\ ~result.truncated => kept = wrote

\* Once run_native_process has returned nothing of the worker's group runs.
NothingLeftRunning == pc \in {"answer", "done"} => \A p \in Group : ~Alive(p)

\* An answer is called complete only of a leader that ended by itself with
\* 0 and of a request that was neither cancelled nor late when it was
\* answered, and holds all that was kept of the output.
CompleteIsAsked ==
  answer.status = "complete" =>
    /\ procs["leader"] = "exited" /\ code = 0 /\ ~result.truncated /\ ~result.cancelled /\ ~result.timed_out
    /\ answer.omitted = {} /\ answer.out = kept["out"] /\ answer.err = kept["err"]

\* The envelope is within its bound, and the native result is in it whole or
\* not at all.
EnvelopeWithin == Size(answer) <= EnvelopeLimit /\ answer.native \in {0, kept["out"]}

\* Whatever the worker and its descendants do, the request is answered.
Returns == (pc = "start") ~> (pc = "done")
==============================================================================
