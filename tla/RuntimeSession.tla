--------------------------- MODULE RuntimeSession ---------------------------
(***************************************************************************)
(* A debugger session, runtime.cpp: a worker process that alone drives the *)
(* debuggee, and commands of other processes that reach it only through    *)
(* rows of runtime.sqlite3: a queue of requests, a cancel counter and the  *)
(* session's record, which the worker saves as a whole.                    *)
(*                                                                         *)
(* Each statement of a command and each save of the worker is a step, and  *)
(* the worker may die between any two.  The debuggee, behind the backend,  *)
(* is what the backend knows of it: it moves when the backend is polled.   *)
(***************************************************************************)
EXTENDS Naturals, Sequences, FiniteSets

CONSTANTS
  Requests,      \* ids of runtime_requests, each put by one command
  Workers,       \* processes started as `indago __runtime' for this session
  Ops,           \* the operations commands ask for
  KillOnExpiry,  \* terminate_on_expiry of the launch request
  MaxSteps,      \* max_steps of a trace
  MaxCancels     \* bound on the cancel counter

AllOps == {"inspect", "continue", "step", "pause", "detach", "terminate", "trace"}

SessionAssumption ==
  /\ IsFiniteSet(Requests) /\ IsFiniteSet(Workers)
  /\ Ops \subseteq AllOps /\ KillOnExpiry \in BOOLEAN
  /\ MaxSteps \in Nat \ {0} /\ MaxCancels \in Nat

VARIABLES
  row,      \* the record, none or one: its state and the workers that own it
  young,    \* the launch was less than 15 s ago
  cancel,   \* the cancel counter
  queue,    \* requests in rowid order
  op, state, answer,  \* of a request: what it asks, its state and its response
  command,  \* what the process that puts a request is about to do
  pc,       \* what a worker is about to do
  seen,     \* the record a worker read at its start
  mine,     \* the worker's copy of the record's state
  target,   \* the debuggee, as the backend knows it
  serving,  \* the request being executed, none or one
  reply,    \* its response before it is written
  steps, generation,  \* of the trace
  \* History.
  applied,  \* requests in the order the worker began to execute them
  late,     \* steps of a trace that began after it was cancelled
  ended     \* how the worker ended: expiry, failure, crash

rows == <<row, cancel, queue, op, state, answer>>
worker == <<pc, seen, mine, target, serving, reply, steps, generation>>
history == <<applied, late, ended>>
vars == <<rows, young, command, worker, history>>

Driving == {"start", "loop", "due", "serve", "wait", "trace", "stepping", "save", "write", "close", "fail"}
Refusing == {"detached", "exited", "terminated", "failed"}

Init ==
  /\ row = {} /\ young = TRUE /\ cancel = 0 /\ queue = <<>>
  /\ op = [r \in Requests |-> "inspect"] /\ state = [r \in Requests |-> "none"]
  /\ answer = [r \in Requests |-> {}] /\ command = [r \in Requests |-> "idle"]
  /\ pc = [w \in Workers |-> "none"] /\ seen = [w \in Workers |-> {}]
  /\ mine = "starting" /\ target = "absent" /\ serving = {} /\ reply = "none"
  /\ steps = 0 /\ generation = 0
  /\ applied = <<>> /\ late = 0 /\ ended = {}

Alive(w) == pc[w] \notin {"none", "gone"}

(* live_worker, of a record that was read: its worker runs, or it has none *)
(* yet and was launched a moment ago.                                      *)
Live(records) ==
  \E s \in records :
    IF s.owner = {} THEN s.state = "starting" /\ young ELSE \E w \in s.owner : Alive(w)

(* db.save: the worker's whole record replaces the row.                    *)
Saved(w, s) == row' = {[state |-> s, owner |-> {w}]}

-----------------------------------------------------------------------------
(* Launching. *)

Launch ==
  /\ row = {}
  /\ row' = {[state |-> "starting", owner |-> {}]}
  /\ UNCHANGED <<young, cancel, queue, op, state, answer, command, worker, history>>

(* spawn_runtime throws: no worker runs, and the launcher says so.         *)
SpawnFails ==
  /\ row = {[state |-> "starting", owner |-> {}]} /\ \A w \in Workers : pc[w] = "none"
  /\ row' = {[state |-> "failed", owner |-> {}]}
  /\ UNCHANGED <<young, cancel, queue, op, state, answer, command, worker, history>>

(* The launcher's worker, or one more that is started by hand.             *)
Spawn(w) ==
  /\ row # {} /\ pc[w] = "none"
  /\ pc' = [pc EXCEPT ![w] = "boot"]
  /\ UNCHANGED <<rows, young, command, seen, mine, target, serving, reply, steps, generation, history>>

Ages ==
  /\ young /\ row # {}
  /\ young' = FALSE
  /\ UNCHANGED <<rows, command, worker, history>>

Boot(w) ==
  /\ pc[w] = "boot"
  /\ pc' = [pc EXCEPT ![w] = IF \E s \in row : s.state = "starting" THEN "claim" ELSE "gone"]
  /\ seen' = [seen EXCEPT ![w] = row]
  /\ UNCHANGED <<rows, young, command, mine, target, serving, reply, steps, generation, history>>

(* UPDATE ... WHERE id=? AND record=?                                      *)
UnchangedSince(w) == row = seen[w]

Claim(w) ==
  /\ pc[w] = "claim"
  /\ IF UnchangedSince(w)
     THEN Saved(w, "starting") /\ pc' = [pc EXCEPT ![w] = "start"]
     ELSE UNCHANGED row /\ pc' = [pc EXCEPT ![w] = "gone"]
  /\ UNCHANGED <<young, cancel, queue, op, state, answer, command, seen, mine, target, serving, reply,
                 steps, generation, history>>

-----------------------------------------------------------------------------
(* The debuggee. *)

Attached == target \in {"stopped", "running", "exited"}

(* poll: an event of the debuggee, after which the record is saved.        *)
Event(w, t) ==
  /\ target = "running" /\ t \in {"stopped", "exited"}
  /\ target' = t /\ mine' = t /\ Saved(w, mine')

(* pause: it asks for a stop and polls until it comes, or throws after 3 s.*)
Pause(w) ==
  \/ target # "running" /\ UNCHANGED <<target, mine, row>>
  \/ \E t \in {"stopped", "exited"} : Event(w, t)
PauseThrows == target = "running" /\ UNCHANGED <<target, mine, row>>

(* backend->detach, after a pause: the debuggee may have ended meanwhile.  *)
Freed(kill) ==
  (IF target = "exited" THEN {} ELSE {IF kill THEN "killed" ELSE "left"})
    \cup (IF target = "stopped" THEN {} ELSE {"exited"})

(* backend->start, and polls until the initial stop; it throws, or times   *)
(* out after 10 s.                                                         *)
Start(w) ==
  /\ pc[w] = "start"
  /\ \/ \E t \in {"stopped", "exited"} :
          /\ target' = t /\ mine' = t /\ Saved(w, mine')
          /\ pc' = [pc EXCEPT ![w] = "loop"]
     \/ /\ target' \in {"absent", "running"}
        /\ pc' = [pc EXCEPT ![w] = "fail"] /\ UNCHANGED <<mine, row>>
  /\ UNCHANGED <<young, cancel, queue, op, state, answer, command, seen, serving, reply, steps, generation,
                 history>>

-----------------------------------------------------------------------------
(* The worker's loop. *)

Alone == UNCHANGED <<young, command, seen, cancel, queue, op, answer>>

(* while (alive && !terminal): a poll that may bring an event, or throw,   *)
(* and the heartbeat, which saves.                                         *)
Loop(w) ==
  /\ pc[w] = "loop"
  /\ IF target \in {"stopped", "running"}
     THEN \/ /\ \/ \E t \in {"stopped", "exited"} : Event(w, t)
                \/ UNCHANGED <<target, mine>> /\ Saved(w, mine)
             /\ pc' = [pc EXCEPT ![w] = "due"]
          \/ pc' = [pc EXCEPT ![w] = "fail"] /\ UNCHANGED <<target, mine, row>>
     ELSE pc' = [pc EXCEPT ![w] = "close"] /\ UNCHANGED <<target, mine, row>>
  /\ Alone /\ UNCHANGED <<state, serving, reply, steps, generation, history>>

(* The lifetime has run out: pause, detach, save, break.                   *)
Expire(w) ==
  /\ pc[w] = "due"
  /\ \/ /\ target' \in Freed(KillOnExpiry)
        /\ mine' = (IF KillOnExpiry THEN "terminated" ELSE "detached") /\ Saved(w, mine')
        /\ pc' = [pc EXCEPT ![w] = "close"] /\ ended' = ended \cup {"expiry"}
     \/ PauseThrows /\ pc' = [pc EXCEPT ![w] = "fail"] /\ UNCHANGED ended
  /\ Alone /\ UNCHANGED <<state, serving, reply, steps, generation, applied, late>>

Queued == {i \in 1..Len(queue) : state[queue[i]] = "queued"}

(* ORDER BY rowid LIMIT 1                                                  *)
NextInQueue == {queue[i] : i \in {j \in Queued : \A k \in Queued : j <= k}}

Take(w) ==
  /\ pc[w] = "due"
  /\ IF NextInQueue = {}
     THEN pc' = [pc EXCEPT ![w] = "loop"] /\ UNCHANGED <<state, serving, applied>>
     ELSE \E r \in NextInQueue :
            /\ serving' = {r} /\ state' = [state EXCEPT ![r] = "running"]
            /\ applied' = Append(applied, r) /\ pc' = [pc EXCEPT ![w] = "serve"]
  /\ Alone /\ UNCHANGED <<row, mine, target, reply, steps, generation, late, ended>>

-----------------------------------------------------------------------------
(* Execution of a request.  What it throws becomes a failed response.      *)

Asked(o) == \E r \in serving : op[r] = o

Serves(w, o) == pc[w] = "serve" /\ Asked(o)
Quiet == Alone /\ UNCHANGED <<state, serving, applied, ended>>
Responds(w, status) == pc' = [pc EXCEPT ![w] = "save"] /\ reply' = status

(* Registers, memory, captures, breakpoints: the backend may refuse.       *)
Inspect(w) ==
  /\ Serves(w, "inspect")
  /\ \E status \in {"completed", "failed"} : Responds(w, status)
  /\ Quiet /\ UNCHANGED <<row, mine, target, steps, generation, late>>

(* continue resumes and does not wait; step waits until its budget ends.   *)
Resume(w) ==
  /\ \E o \in {"continue", "step"} :
       /\ Serves(w, o)
       /\ IF target = "stopped"
          THEN /\ target' = "running" /\ mine' = "running"
               /\ IF o = "step"
                  THEN pc' = [pc EXCEPT ![w] = "wait"] /\ UNCHANGED reply
                  ELSE Responds(w, "completed")
          ELSE Responds(w, "failed") /\ UNCHANGED <<target, mine>>
  /\ Quiet /\ UNCHANGED <<row, steps, generation, late>>

Wait(w) ==
  /\ pc[w] = "wait"
  /\ \/ \E t \in {"stopped", "exited"} : Event(w, t) /\ Responds(w, "completed")
     \/ Pause(w) /\ Responds(w, "partial")
     \/ PauseThrows /\ Responds(w, "failed")
  /\ Quiet /\ UNCHANGED <<steps, generation, late>>

PauseOp(w) ==
  /\ Serves(w, "pause")
  /\ \/ Pause(w) /\ Responds(w, "completed")
     \/ PauseThrows /\ Responds(w, "failed")
  /\ Quiet /\ UNCHANGED <<steps, generation, late>>

(* detach, terminate: the loop ends after the response.                    *)
Release(w) ==
  /\ \/ Serves(w, "detach") /\ target' \in Freed(FALSE) /\ mine' = "detached" /\ Responds(w, "completed")
     \/ Serves(w, "terminate") /\ target' \in Freed(TRUE) /\ mine' = "terminated" /\ Responds(w, "completed")
     \/ /\ Serves(w, "detach") \/ Serves(w, "terminate")
        /\ PauseThrows /\ Responds(w, "failed")
  /\ Quiet /\ UNCHANGED <<row, steps, generation, late>>

(* trace reads the cancel counter when it begins.                          *)
TraceBegin(w) ==
  /\ Serves(w, "trace")
  /\ IF target = "stopped"
     THEN /\ pc' = [pc EXCEPT ![w] = "trace"] /\ generation' = cancel /\ steps' = 0 /\ late' = 0
          /\ UNCHANGED reply
     ELSE Responds(w, "failed") /\ UNCHANGED <<generation, steps, late>>
  /\ Quiet /\ UNCHANGED <<row, mine, target>>

CancelSeen == cancel # generation

(* The head of the loop: the step limit, the time, the counter, the range. *)
TraceCheck(w) ==
  /\ pc[w] = "trace"
  /\ \/ steps < MaxSteps /\ ~CancelSeen /\ pc' = [pc EXCEPT ![w] = "stepping"] /\ UNCHANGED reply
     \/ steps < MaxSteps /\ CancelSeen /\ Responds(w, "cancelled")
     \/ Responds(w, "partial")
  /\ Quiet /\ UNCHANGED <<row, mine, target, steps, generation, late>>

(* One instruction is resumed, *)
TraceStep(w) ==
  /\ pc[w] = "stepping" /\ target = "stopped"
  /\ target' = "running" /\ mine' = "running" /\ steps' = steps + 1
  /\ late' = IF cancel # generation THEN late + 1 ELSE late
  /\ Quiet /\ UNCHANGED <<row, pc, reply, generation>>

(* and waited for: its stop, another event, an exit, a cancel, the time.   *)
TraceWait(w) ==
  /\ pc[w] = "stepping" /\ target = "running"
  /\ \/ Event(w, "stopped") /\ (Responds(w, "partial") \/ (pc' = [pc EXCEPT ![w] = "trace"] /\ UNCHANGED reply))
     \/ Event(w, "exited") /\ Responds(w, "partial")
     \/ CancelSeen /\ Pause(w) /\ Responds(w, "cancelled")
     \/ Pause(w) /\ Responds(w, "partial")
     \/ PauseThrows /\ Responds(w, "failed")
  /\ Quiet /\ UNCHANGED <<steps, generation, late>>

(* Mutant: the record is left to the next heartbeat.                       *)
SaveLater(w) ==
  /\ pc[w] = "save"
  /\ pc' = [pc EXCEPT ![w] = "write"]
  /\ Quiet /\ UNCHANGED <<row, mine, target, reply, steps, generation, late>>

(* The record is saved before the response is written.                     *)
Save(w) ==
  /\ pc[w] = "save"
  /\ Saved(w, mine) /\ pc' = [pc EXCEPT ![w] = "write"]
  /\ Quiet /\ UNCHANGED <<mine, target, reply, steps, generation, late>>

Answered(r) ==
  state' = [state EXCEPT ![r] = "finished"] /\ answer' = [answer EXCEPT ![r] = {reply}]

Write(w) ==
  /\ pc[w] = "write"
  /\ \E r \in serving : Answered(r)
  /\ serving' = {} /\ reply' = "none" /\ pc' = [pc EXCEPT ![w] = "loop"]
  /\ UNCHANGED <<row, young, cancel, queue, op, command, seen, mine, target, steps, generation, history>>

(* After the loop.  terminal: a request has released the debuggee.         *)
Released == \E i \in 1..Len(applied) :
  op[applied[i]] \in {"detach", "terminate"} /\ answer[applied[i]] = {"completed"}

Close(w) ==
  /\ pc[w] = "close"
  /\ mine' = IF ~Released /\ mine # "detached" THEN "exited" ELSE mine
  /\ Saved(w, mine') /\ pc' = [pc EXCEPT ![w] = "gone"]
  /\ Alone /\ UNCHANGED <<state, target, serving, reply, steps, generation, history>>

(* The worker's own handler: it pauses and detaches if it still can.       *)
Fail(w) ==
  /\ pc[w] = "fail"
  /\ mine' = "failed" /\ Saved(w, mine') /\ pc' = [pc EXCEPT ![w] = "gone"]
  /\ target' \in (IF Attached THEN Freed(KillOnExpiry) \cup {"orphan"} ELSE {target})
  /\ ended' = ended \cup {"failure"}
  /\ Alone /\ UNCHANGED <<state, serving, reply, steps, generation, applied, late>>

(* The worker dies.                                                        *)
Crash(w) ==
  /\ pc[w] \in Driving
  /\ pc' = [pc EXCEPT ![w] = "gone"]
  /\ target' = IF target \in {"stopped", "running"} THEN "orphan" ELSE target
  /\ ended' = ended \cup {"crash"}
  /\ UNCHANGED <<rows, young, command, seen, mine, serving, reply, steps, generation, applied, late>>

-----------------------------------------------------------------------------
(* The commands. *)

Others == UNCHANGED <<row, young, worker, history>>

(* A command looks at the record,                                          *)
Ask(r, o) ==
  /\ command[r] = "idle" /\ row # {}
  /\ op' = [op EXCEPT ![r] = o]
  /\ command' = [command EXCEPT ![r] =
       IF Live(row) /\ \A s \in row : s.state \notin Refusing THEN "insert" ELSE "refused"]
  /\ Others /\ UNCHANGED <<cancel, queue, state, answer>>

(* puts its request,                                                       *)
Enqueue(r) ==
  /\ command[r] = "insert"
  /\ queue' = Append(queue, r) /\ state' = [state EXCEPT ![r] = "queued"]
  /\ command' = [command EXCEPT ![r] = "poll"]
  /\ Others /\ UNCHANGED <<cancel, op, answer>>

(* and polls: the response, then whether the worker lives, then the time.  *)
PollResponse(r) ==
  /\ command[r] = "poll"
  /\ command' = [command EXCEPT ![r] = IF answer[r] # {} THEN "answered" ELSE "alive?"]
  /\ Others /\ UNCHANGED <<cancel, queue, op, state, answer>>

PollLive(r) ==
  /\ command[r] = "alive?"
  /\ command' \in {[command EXCEPT ![r] = c] : c \in {"pending"} \cup (IF Live(row) THEN {"poll"} ELSE {})}
  /\ Others /\ UNCHANGED <<cancel, queue, op, state, answer>>

Cancel ==
  /\ row # {} /\ cancel < MaxCancels
  /\ cancel' = cancel + 1
  /\ Others /\ UNCHANGED <<command, queue, op, state, answer>>

-----------------------------------------------------------------------------
WorkerStep(w) ==
  \/ Boot(w) \/ Claim(w) \/ Start(w) \/ Loop(w) \/ Expire(w) \/ Take(w)
  \/ Inspect(w) \/ Resume(w) \/ Wait(w) \/ PauseOp(w) \/ Release(w)
  \/ TraceBegin(w) \/ TraceCheck(w) \/ TraceStep(w) \/ TraceWait(w)
  \/ Save(w) \/ Write(w) \/ Close(w) \/ Fail(w)

CommandStep(r) ==
  \/ \E o \in Ops : Ask(r, o)
  \/ Enqueue(r) \/ PollResponse(r) \/ PollLive(r)

Next ==
  \/ Launch \/ SpawnFails \/ Ages \/ Cancel
  \/ \E w \in Workers : Spawn(w) \/ WorkerStep(w) \/ Crash(w)
  \/ \E r \in Requests : CommandStep(r)

Spec == Init /\ [][Next]_vars

(* A worker that runs goes on.                                             *)
FairSpec == Spec /\ \A w \in Workers : WF_vars(WorkerStep(w))

-----------------------------------------------------------------------------
States == {"starting", "stopped", "running", "exited", "detached", "terminated", "failed"}

(* Type invariant.                                                         *)
TypeOK ==
  /\ row \subseteq [state : States, owner : SUBSET Workers] /\ Cardinality(row) <= 1
  /\ young \in BOOLEAN /\ cancel \in 0..MaxCancels
  /\ queue \in Seq(Requests) /\ applied \in Seq(Requests)
  /\ op \in [Requests -> AllOps]
  /\ state \in [Requests -> {"none", "queued", "running", "finished"}]
  /\ \A r \in Requests : answer[r] \subseteq {"completed", "partial", "failed", "cancelled"}
  /\ command \in [Requests -> {"idle", "insert", "poll", "alive?", "refused", "answered", "pending"}]
  /\ pc \in [Workers -> {"none", "boot", "claim", "gone"} \cup Driving]
  /\ mine \in States
  /\ target \in {"absent", "stopped", "running", "exited", "left", "killed", "orphan"}
  /\ serving \subseteq Requests /\ steps \in 0..MaxSteps /\ generation \in 0..MaxCancels
  /\ late \in Nat /\ ended \subseteq {"expiry", "failure", "crash"}

(* Requests are executed in the order they were put, each once; what was   *)
(* put before a worker's death and not begun is never begun.               *)
InOrder == Len(applied) <= Len(queue) /\ \A i \in 1..Len(applied) : applied[i] = queue[i]

(* Whoever has read that the debuggee is detached, or terminated, reads a  *)
(* record that says so, and it goes on saying so.                          *)
AnswerIsRecorded ==
  \A r \in Requests :
    answer[r] = {"completed"} =>
      /\ op[r] = "detach" => \A s \in row : s.state = "detached"
      /\ op[r] = "terminate" => \A s \in row : s.state = "terminated"

(* What the record says of the end is what became of the debuggee: it runs *)
(* on, it was killed, or it had ended before.                              *)
EndIsTrue ==
  \A s \in row :
    /\ s.state = "detached" => target \in {"left", "exited"}
    /\ s.state = "terminated" => target \in {"killed", "exited"}
    /\ s.state = "exited" => target \notin {"stopped", "running"}

(* A request is left half done only by a worker that died; the others were *)
(* answered, or never begun.                                               *)
NoneHalfDone ==
  (\A w \in Workers : pc[w] \in {"none", "gone"}) /\ "crash" \notin ended =>
     \A r \in Requests : state[r] # "running"

(* runtime cancel interrupts a trace: after it, at most the instruction    *)
(* whose check was before it is stepped.                                   *)
CancelStopsTrace == late <= 1

(* A request in the queue is executed and answered, or its worker ends.    *)
RequestsSettle ==
  \A r \in Requests :
    state[r] \in {"queued", "running"} ~> (state[r] = "finished" \/ \A w \in Workers : ~Alive(w))

=============================================================================
