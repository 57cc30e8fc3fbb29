--------------------------- MODULE SessionProofs ---------------------------
(***************************************************************************)
(* Three kinds of session.                                                 *)
(*                                                                         *)
(* Of an analysis: nothing outlives what it refers to, and its deadline is *)
(* over when open returns.  The invariant says what exists at each stage:  *)
(* the session's own token from the constructor on, what a view uses       *)
(* whenever the view was built, and in the destructor only what nobody     *)
(* that is left refers to is gone.                                         *)
(*                                                                         *)
(* Of a debugger: what the worker's record, its queue and its responses    *)
(* say is so, wherever the worker dies.  The invariant relates the copy of *)
(* the record the worker keeps, the row, and the fate of the debuggee.     *)
(*                                                                         *)
(* Of a guest: what a receipt says of its unit is so, whoever wrote it.    *)
(***************************************************************************)
EXTENDS AnalysisOpen, FiniteSetTheorems, TLAPS

\* Of a debugger session, as RuntimeSession names them.
CONSTANTS Requests, Workers, Ops, KillOnExpiry, MaxSteps, MaxCancels
VARIABLES row, young, cancel, queue, op, state, answer, command, pc, seen, mine, target,
          serving, reply, steps, generation, applied, late, ended

\* Of guests; guestPc, guestMine, guestCancel and guestLate are Guest's pc, mine,
\* cancel and late.
CONSTANTS Runs, Modes, NActions, Quota
VARIABLES guestPc, mode, previous, receipt, guestMine, unit, exit, guestCancel, staging,
          overlay, log, guestLate, reading, changed

Run == INSTANCE RuntimeSession
Guest == INSTANCE Guest WITH pc <- guestPc, mine <- guestMine, cancel <- guestCancel, late <- guestLate


-----------------------------------------------------------------------------
Before == {"load", "cfg", "inventory", "stop"}
After == {"drop", "use", "gone"}

Typed ==
  /\ stage \in Before \cup After \cup {"construct", "join"}
  /\ alive \subseteq Objects
  /\ token \in Tokens \cup {None}
  /\ finished \in BOOLEAN

Deadline ==
  /\ stage \in {"construct"} \cup Before => ~finished
  /\ stage \in {"join"} \cup After => finished
  /\ stage = "construct" => watch = None
  /\ watch = "waiting" => stage \in Before \cup {"join"}

Existing ==
  /\ stage = "construct" => alive = {} /\ token = None
  /\ token = "owned" /\ stage \notin {"drop", "gone"} => "owned" \in alive
  /\ "symbolic" \in alive => stage \in {"use", "drop"} /\ (token = "owned" => "owned" \in alive)
  /\ "cfg" \in alive => "binary" \in alive
  /\ {"expression", "variable", "compact"} \cap alive # {} => "cfg" \in alive
  /\ stage \notin {"drop", "gone"} /\ "compact" \in alive => "variable" \in alive
  /\ stage = "inventory" => {"cfg", "binary"} \subseteq alive
  /\ stage = "cfg" => "binary" \in alive
  /\ stage = "load" => alive \subseteq {"owned"}

Used == used # {} => stage = "use" /\ used \subseteq alive

OpenInv == Typed /\ Deadline /\ Existing /\ Used

LEMMA ObjectsAre ==
  Objects = {"symbolic", "expression", "variable", "compact", "cfg", "binary", "owned"}
BY DEF Objects, RefersTo

LEMMA InitOpenInv == Init => OpenInv
BY OpenAssumption DEF Init, OpenInv, Typed, Deadline, Existing, Used, Objects, RefersTo, Tokens,
   Before, After

(* The destructor takes the objects in an order that leaves no user behind. *)
LEMMA DestroyKeeps == ASSUME OpenInv, Destroy PROVE OpenInv'
<1> USE DEF OpenInv
<1>1. CASE alive = {} /\ stage' = "gone" /\ UNCHANGED alive
  BY <1>1 DEF Destroy, Typed, Deadline, Existing, Used, Before, After
<1>2. CASE \E i \in DOMAIN Teardown :
             /\ Teardown[i] \in alive
             /\ \A j \in 1..(i - 1) : Teardown[j] \notin alive
             /\ alive' = alive \ {Teardown[i]}
             /\ UNCHANGED stage
  <2>1. PICK i \in 1..7 :
          /\ Teardown[i] \in alive
          /\ \A j \in 1..(i - 1) : Teardown[j] \notin alive
          /\ alive' = alive \ {Teardown[i]}
          /\ UNCHANGED stage
    BY <1>2 DEF Teardown
  <2>2. stage = "drop" /\ UNCHANGED <<opts, token, watch, finished, requested, used>>
    BY DEF Destroy
  <2>3. Typed' /\ Deadline'
    BY <2>1, <2>2 DEF Typed, Deadline, Before, After
  <2>4. Used'
    BY <2>2 DEF Used
  <2>5. /\ "owned" \in alive /\ "owned" \notin alive' => alive' = {}
        /\ "binary" \in alive /\ "binary" \notin alive' => alive' \subseteq {"owned"}
        /\ "cfg" \in alive /\ "cfg" \notin alive' => alive' \subseteq {"binary", "owned"}
    <3>1. alive \subseteq {"symbolic", "expression", "variable", "compact", "cfg", "binary", "owned"}
      BY ObjectsAre DEF Typed
    <3>2. i = 7 => alive' = {}
      BY <2>1, <3>1 DEF Teardown
    <3>3. i = 6 => alive' \subseteq {"owned"}
      BY <2>1, <3>1 DEF Teardown
    <3>4. i = 5 => alive' \subseteq {"binary", "owned"}
      BY <2>1, <3>1 DEF Teardown
    <3>5. i < 5 => {"cfg", "binary", "owned"} \cap alive \subseteq alive'
      BY <2>1 DEF Teardown
    <3>6. /\ i = 5 => {"binary", "owned"} \cap alive \subseteq alive'
          /\ i = 6 => {"owned"} \cap alive \subseteq alive'
      BY <2>1 DEF Teardown
    <3>7. i < 5 \/ i = 5 \/ i = 6 \/ i = 7
      BY <2>1
    <3> QED BY <3>2, <3>3, <3>4, <3>5, <3>6, <3>7
  <2>6. Existing'
    BY <2>1, <2>2, <2>5 DEF Existing
  <2> QED BY <2>3, <2>4, <2>6
<1> QED BY <1>1, <1>2 DEF Destroy

LEMMA NextOpenInv == OpenInv /\ [Next]_vars => OpenInv'
<1> SUFFICES ASSUME OpenInv, [Next]_vars PROVE OpenInv'
  OBVIOUS
<1> USE ObjectsAre DEF OpenInv, Typed, Deadline, Existing, Used, Before, After
<1>1. CASE UNCHANGED vars
  BY <1>1 DEF vars
<1>2. CASE Construct
  BY <1>2 DEF Construct, Tokens
<1>3. CASE Load
  BY <1>3 DEF Load
<1>4. CASE CfgFails
  BY <1>4 DEF CfgFails
<1>5. CASE CfgBuilt
  BY <1>5 DEF CfgBuilt
<1>6. CASE BuildInventory
  BY <1>6 DEF BuildInventory
<1>7. CASE Stop
  BY <1>7 DEF Stop, Finish
<1>8. CASE Join
  BY <1>8, OpenAssumption DEF Join, Joined
<1>9. CASE DeadlineFires
  BY <1>9 DEF DeadlineFires, Fire
<1>10. CASE WatchEnds
  BY <1>10, OpenAssumption DEF WatchEnds
<1>11. ASSUME NEW v \in {"expression", "variable", "compact"}, View(v) PROVE OpenInv'
  <2>1. stage = "use" /\ UNCHANGED <<stage, alive, token, watch, finished>>
    BY <1>11 DEF View
  <2>2. v \in alive => "cfg" \in alive /\ "binary" \in alive /\ (v = "compact" => "variable" \in alive)
    BY <2>1
  <2>3. used' \subseteq alive
    BY <1>11, <2>2 DEF View, Available
  <2>4. Used'
    BY <2>1, <2>3
  <2>5. Typed' /\ Deadline' /\ Existing'
    BY <2>1
  <2> QED BY <2>4, <2>5
<1>12. CASE SymbolicContext
  BY <1>12 DEF SymbolicContext
<1>13. CASE CallerRequests
  BY <1>13 DEF CallerRequests
<1>14. CASE Close
  BY <1>14 DEF Close
<1>15. CASE Destroy
  BY <1>15, DestroyKeeps
<1> QED BY <1>1, <1>2, <1>3, <1>4, <1>5, <1>6, <1>7, <1>8, <1>9, <1>10, <1>11, <1>12, <1>13, <1>14, <1>15
        DEF Next, Opening, Watching, Using

THEOREM OpenInvHolds == Spec => []OpenInv
<1>1. Init => OpenInv
  BY InitOpenInv
<1>2. OpenInv /\ [Next]_vars => OpenInv'
  BY NextOpenInv
<1> QED BY <1>1, <1>2, PTL DEF Spec

\* The watchdog and the objects of a session never refer to one that is gone
\* (analysis_session.cpp:92, 148).
THEOREM NothingEverDangles == Spec => []NothingDangles
<1>1. OpenInv => NothingDangles
  <2> SUFFICES ASSUME OpenInv PROVE NothingDangles
    OBVIOUS
  <2>1. \A o \in alive : RefersTo[o] \ {"owned"} \subseteq alive
    BY ObjectsAre DEF OpenInv, Typed, Existing, RefersTo
  <2> QED BY <2>1 DEF NothingDangles, OpenInv, Existing, Deadline, Before
<1> QED BY <1>1, OpenInvHolds, PTL

\* A view uses what was built, of whole sessions and of partial ones
\* (analysis_session.cpp:596, 612, 664, 680).
THEOREM ViewsAreSafe == Spec => []ViewsUseWhatIsThere
<1>1. OpenInv => ViewsUseWhatIsThere
  BY DEF OpenInv, Used, ViewsUseWhatIsThere
<1> QED BY <1>1, OpenInvHolds, PTL

\* Once open has said that it is finished, only the caller requests a token
\* (analysis_session.cpp:84).
THEOREM DeadlineIsOver == Spec => DeadlineEndsWithOpen
<1>1. OpenInv /\ [Next]_vars =>
        [requested' # requested /\ stage \in {"join", "drop", "use", "gone"} => CallerRequests]_vars
  <2> SUFFICES ASSUME OpenInv, Next, requested' # requested, stage \in {"join", "drop", "use", "gone"}
               PROVE  CallerRequests
    BY DEF vars
  <2>1. ~Fire
    BY DEF OpenInv, Deadline, Fire, After
  <2> QED BY <2>1 DEF Next, Opening, Watching, Using, Construct, Load, CfgFails, CfgBuilt, BuildInventory, Stop,
                     Join, DeadlineFires, WatchEnds, View, SymbolicContext, Close, Destroy
<1> QED BY <1>1, OpenInvHolds, PTL DEF Spec, DeadlineEndsWithOpen

\* No thread, object or view of a session uses what is gone or was not built
\* (analysis_session.cpp:92, 148, 596).
THEOREM OpenStaysSafe == Spec => []OpenIsSafe
BY NothingEverDangles, ViewsAreSafe, PTL DEF OpenIsSafe

-----------------------------------------------------------------------------

Responses == {"completed", "partial", "failed", "cancelled"}
(* A debugger session.                                                     *)

Posted == {"poll", "alive?", "answered", "pending"}
Executing == {"serve", "wait", "trace", "stepping", "save", "write"}
EndOf == [detach |-> "detached", terminate |-> "terminated"]

Commands == {"idle", "insert", "poll", "alive?", "refused", "answered", "pending"}

(* The launcher spawns one worker for a session (runtime.cpp:1458); a      *)
(* second would be `indago __runtime' typed by hand.                       *)
OneWorker == \A v, w \in Workers : v = w

RowTyped == row \subseteq [state : Run!States, owner : SUBSET Workers] /\ Cardinality(row) <= 1

QueueTyped ==
  /\ young \in BOOLEAN /\ cancel \in 0..MaxCancels
  /\ queue \in Seq(Requests) /\ applied \in Seq(Requests)
  /\ op \in [Requests -> Run!AllOps]
  /\ state \in [Requests -> {"none", "queued", "running", "finished"}]
  /\ answer \in [Requests -> SUBSET Responses]
  /\ command \in [Requests -> Commands]

WorkerTyped ==
  /\ pc \in [Workers -> {"none", "boot", "claim", "gone"} \cup Run!Driving]
  /\ mine \in Run!States
  /\ target \in {"absent", "stopped", "running", "exited", "left", "killed", "orphan"}
  /\ serving \subseteq Requests /\ reply \in Responses \cup {"none"}
  /\ ended \subseteq {"expiry", "failure", "crash"}

TraceTyped == steps \in 0..MaxSteps /\ generation \in 0..MaxCancels /\ late \in Nat

SessionTyped == RowTyped /\ QueueTyped /\ WorkerTyped /\ TraceTyped

(* The requests begun are the first of the queue; of the others the worker *)
(* knows nothing.                                                          *)
Order ==
  /\ Run!InOrder
  /\ \A i \in 1..Len(queue) :
       /\ command[queue[i]] \in Posted
       /\ state[queue[i]] = "queued" <=> i > Len(applied)
       /\ \A j \in 1..Len(queue) : queue[i] = queue[j] => i = j
  /\ \A r \in Requests : command[r] \notin Posted => state[r] = "none"
  /\ \A r \in Requests : state[r] \in {"running", "finished"} => \E i \in 1..Len(applied) : applied[i] = r
  /\ \A r \in Requests : answer[r] # {} => state[r] = "finished"

(* One request is running, and only while the worker executes it.          *)
Serving ==
  /\ \A r \in Requests : state[r] = "running" <=> r \in serving
  /\ \A r, q \in serving : r = q
  /\ "crash" \notin ended /\ (\A w \in Workers : pc[w] \notin Executing) => serving = {}
  /\ \A w \in Workers :
       /\ pc[w] \notin Executing \cup {"gone"} => serving = {}
       /\ pc[w] \in {"save", "write"} => reply # "none"

(* What a state of the record claims of the debuggee.                      *)
Fate(s) ==
  /\ s = "detached" => target \in {"left", "exited"}
  /\ s = "terminated" => target \in {"killed", "exited"}
  /\ s = "exited" => target \notin {"stopped", "running"}

(* What the worker knows of the debuggee, by where it stands.              *)
Launched == row = {} => \A w \in Workers : pc[w] = "none"

Debuggee ==
  \A w \in Workers :
       /\ pc[w] \in {"none", "boot", "claim", "start"} => target = "absent" /\ mine = "starting"
       /\ pc[w] \in {"due", "serve", "wait", "trace", "stepping"} => target \in {"stopped", "running", "exited"}
       /\ pc[w] = "close" => target \notin {"stopped", "running"}

(* No record says it is over while the worker still drives the debuggee:   *)
(* what the worker's own copy says is saved before the response is written.*)
Held ==
  \A w \in Workers :
    /\ pc[w] \notin {"loop", "close", "write", "gone"} => \A s \in row : s.state \notin {"detached", "terminated"}
    /\ pc[w] = "start" => \A s \in row : s.state = "starting"

Ends == Fate(mine) /\ \A s \in row : Fate(s.state)

(* A response is about the request that is served, and is so.              *)
Replies ==
  \A w \in Workers :
    /\ pc[w] \in {"save", "write"} => \A r \in serving :
         reply = "completed" /\ op[r] \in DOMAIN EndOf => mine = EndOf[op[r]]
    /\ pc[w] = "wait" => \A r \in serving : op[r] \notin DOMAIN EndOf
    /\ pc[w] = "write" => \A s \in row : s.state = mine

Answers ==
  \A r \in Requests : answer[r] = {"completed"} /\ op[r] \in DOMAIN EndOf =>
    /\ mine = EndOf[op[r]] /\ row # {} /\ \A s \in row : s.state = mine
    /\ \A w \in Workers : pc[w] \in {"loop", "close", "gone"}

(* A trace that has stepped late has the cancel before it.                 *)
Tracing ==
  /\ generation <= cancel /\ late <= 1 /\ (late > 0 => generation < cancel)
  /\ \A w \in Workers : pc[w] = "stepping" /\ target = "stopped" => late = 0 /\ steps < MaxSteps

SInv == SessionTyped /\ Order /\ Serving /\ Launched /\ Debuggee /\ Held /\ Ends /\ Replies /\ Answers /\ Tracing

LEMMA Facts ==
  ASSUME Run!SessionAssumption, SInv
  PROVE  /\ pc \in [Workers -> {"none", "boot", "claim", "gone"} \cup Run!Driving]
         /\ Order /\ Serving /\ Launched /\ Debuggee /\ Held /\ Ends /\ Replies /\ Answers /\ Tracing
         /\ mine \in Run!States /\ cancel \in Nat /\ generation \in Nat /\ late \in Nat /\ steps \in Nat
         /\ state \in [Requests -> {"none", "queued", "running", "finished"}]
         /\ answer \in [Requests -> SUBSET Responses] /\ command \in [Requests -> Commands]
         /\ op \in [Requests -> Run!AllOps] /\ queue \in Seq(Requests) /\ applied \in Seq(Requests)
         /\ serving \subseteq Requests /\ reply \in Responses \cup {"none"}
BY DEF SInv, SessionTyped, QueueTyped, WorkerTyped, TraceTyped, Run!SessionAssumption, Commands

LEMMA Control ==
  ASSUME Run!SessionAssumption, SInv
  PROVE  /\ pc \in [Workers -> {"none", "boot", "claim", "gone"} \cup Run!Driving]
         /\ Debuggee /\ Held /\ Ends /\ Answers
BY DEF SInv, SessionTyped, QueueTyped, WorkerTyped, TraceTyped, Run!SessionAssumption

LEMMA Types ==
  ASSUME SInv
  PROVE  RowTyped /\ QueueTyped /\ WorkerTyped /\ TraceTyped /\ Serving /\ Tracing /\ Held
BY DEF SInv, SessionTyped

(* The request the query finds is the first that was not begun.            *)
LEMMA NextIs ==
  ASSUME Run!SessionAssumption, SInv, NEW r \in Run!NextInQueue
  PROVE  /\ Len(applied) < Len(queue) /\ r = queue[Len(applied) + 1]
         /\ r \in Requests /\ state[r] = "queued" /\ answer[r] = {} /\ command[r] \in Posted
         /\ r \notin serving
<1> USE Facts
<1>1. PICK j \in Run!Queued : r = queue[j] /\ \A k \in Run!Queued : j <= k
  BY DEF Run!NextInQueue
<1>2. j \in 1..Len(queue) /\ j > Len(applied)
  BY <1>1 DEF Run!Queued, Order
<1>3. Len(applied) + 1 \in 1..Len(queue)
  BY <1>2
<1>4. Len(applied) + 1 \in Run!Queued
  BY <1>3 DEF Run!Queued, Order
<1>5. j = Len(applied) + 1
  BY <1>1, <1>2, <1>4
<1>6. r \in Requests /\ state[r] = "queued" /\ command[r] \in Posted
  BY <1>1, <1>2 DEF Order
<1> QED
  BY <1>1, <1>2, <1>5, <1>6 DEF Order, Serving


LEMMA SavedSays ==
  ASSUME NEW w, NEW x, Run!Saved(w, x)
  PROVE  row' # {} /\ \A s \in row' : s.state = x
BY DEF Run!Saved

\* What a poll may bring, or nothing, or a stop that does not come.
Polled ==
  \/ UNCHANGED <<target, mine, row>>
  \/ /\ target = "running" /\ target' \in {"stopped", "exited"} /\ mine' = target'
     /\ row' # {} /\ \A s \in row' : s.state = mine' 

LEMMA PollSays ==
  ASSUME NEW w, Run!Pause(w) \/ Run!PauseThrows \/ \E t \in {"stopped", "exited"} : Run!Event(w, t)
  PROVE  Polled
BY SavedSays DEF Run!Pause, Run!PauseThrows, Run!Event, Polled

LEMMA QuietOrder ==
  ASSUME Run!SessionAssumption, SInv, UNCHANGED <<command, queue, state, answer, applied>>
  PROVE  Order'
BY Facts DEF Order, Run!InOrder

LEMMA StepOrder ==
  ASSUME OneWorker, Run!SessionAssumption, SInv, NEW w \in Workers,
         Run!Spawn(w) \/ Run!WorkerStep(w) \/ Run!Crash(w)
  PROVE  Order'
<1> USE Facts
<1>1. CASE Run!Take(w)
  <2>1. CASE Run!NextInQueue = {}
    BY <1>1, <2>1, QuietOrder DEF Run!Take, Run!Alone
  <2>2. CASE Run!NextInQueue # {}
    <3>1. PICK r \in Run!NextInQueue : state' = [state EXCEPT ![r] = "running"] /\ applied' = Append(applied, r)
      BY <1>1, <2>2 DEF Run!Take
    <3>2. UNCHANGED <<command, queue, answer>>
      BY <1>1 DEF Run!Take, Run!Alone
    <3>3. /\ Len(applied) < Len(queue) /\ r = queue[Len(applied) + 1]
          /\ r \in Requests /\ state[r] = "queued" /\ answer[r] = {} /\ command[r] \in Posted
      BY NextIs
    <3>4. applied' \in Seq(Requests) /\ Len(applied') = Len(applied) + 1
          /\ \A i \in 1..Len(applied') : applied'[i] = IF i = Len(applied) + 1 THEN r ELSE applied[i]
      BY <3>1, <3>3
    <3>5. Run!InOrder'
      <4>1. Len(applied) \in Nat /\ Len(queue) \in Nat
        OBVIOUS
      <4>2. \A i \in 1..Len(applied) : applied[i] = queue[i]
        BY DEF Order, Run!InOrder
      <4>3. ASSUME NEW i \in 1..Len(applied')
            PROVE  applied'[i] = queue[i]
        <5>1. CASE i = Len(applied) + 1
          BY <3>3, <3>4, <5>1
        <5>2. CASE i # Len(applied) + 1
          <6>1. i \in 1..Len(applied)
            BY <3>4, <4>1, <5>2
          <6> QED BY <3>4, <4>2, <5>2, <6>1
        <5> QED BY <5>1, <5>2
      <4> QED BY <3>2, <3>3, <3>4, <4>1, <4>3 DEF Run!InOrder
    <3>6. \A q \in Requests : state'[q] = IF q = r THEN "running" ELSE state[q]
      BY <3>1
    <3>7. ASSUME NEW i \in 1..Len(queue)
          PROVE  state'[queue[i]] = "queued" <=> i > Len(applied')
      <4>1. queue[i] = r <=> i = Len(applied) + 1
        BY <3>3 DEF Order
      <4> QED BY <3>4, <3>6, <4>1 DEF Order
    <3>8. \A q \in Requests : state'[q] \in {"running", "finished"} => \E i \in 1..Len(applied') : applied'[i] = q
      <4> SUFFICES ASSUME NEW q \in Requests, state'[q] \in {"running", "finished"}
                   PROVE  \E i \in 1..Len(applied') : applied'[i] = q
        OBVIOUS
      <4>1. CASE q = r
        BY <3>4, <4>1
      <4>2. CASE q # r
        <5>1. PICK i \in 1..Len(applied) : applied[i] = q
          BY <3>6, <4>2 DEF Order
        <5>2. i \in 1..Len(applied') /\ applied'[i] = q
          BY <3>4, <5>1
        <5> QED BY <5>2
      <4> QED BY <4>1, <4>2
    <3>9. /\ \A q \in Requests : command[q] \notin Posted => state'[q] = "none"
          /\ \A q \in Requests : answer[q] # {} => state'[q] = "finished"
      BY <3>3, <3>6 DEF Order
    <3>10. \A i \in 1..Len(queue) : command[queue[i]] \in Posted /\ \A j \in 1..Len(queue) : queue[i] = queue[j] => i = j
      BY DEF Order
    <3> HIDE DEF Posted, Run!NextInQueue
    <3> QED BY <3>2, <3>5, <3>7, <3>8, <3>9, <3>10 DEF Order
  <2> QED BY <2>1, <2>2
<1>2. CASE Run!Write(w)
  <2>1. PICK r \in serving : state' = [state EXCEPT ![r] = "finished"] /\ answer' = [answer EXCEPT ![r] = {reply}]
    BY <1>2 DEF Run!Write, Run!Answered
  <2>2. UNCHANGED <<command, queue, applied>>
    BY <1>2 DEF Run!Write, Run!history
  <2>3. r \in Requests /\ state[r] = "running"
    BY DEF Serving
  <2>4. \A q \in Requests : state'[q] = (IF q = r THEN "finished" ELSE state[q])
                            /\ answer'[q] = (IF q = r THEN {reply} ELSE answer[q])
    BY <2>1, <2>3
  <2> QED BY <2>2, <2>3, <2>4 DEF Order, Run!InOrder
<1>3. CASE ~(Run!Take(w) \/ Run!Write(w))
  <2>1. UNCHANGED <<command, queue, state, answer, applied>>
    BY <1>3 DEF Run!WorkerStep, Run!Spawn, Run!Crash, Run!Boot, Run!Claim, Run!Start, Run!Loop, Run!Expire,
       Run!Inspect, Run!Resume, Run!Wait, Run!PauseOp,
      Run!Release, Run!TraceBegin, Run!TraceCheck, Run!TraceStep, Run!TraceWait, Run!Save, Run!Close,
      Run!Fail, Run!rows, Run!history, Run!Alone, Run!Quiet
  <2> QED BY <2>1, QuietOrder
<1> QED BY <1>1, <1>2, <1>3

LEMMA StepServing ==
  ASSUME OneWorker, Run!SessionAssumption, SInv, NEW w \in Workers,
         Run!Spawn(w) \/ Run!WorkerStep(w) \/ Run!Crash(w)
  PROVE  Serving'
<1> USE Facts DEF OneWorker, Serving
<1>1. CASE Run!Spawn(w)
  BY <1>1 DEF Run!Spawn, Run!rows, Run!history, Executing
<1>2. CASE Run!Boot(w)
  BY <1>2 DEF Run!Boot, Run!rows, Run!history, Executing
<1>3. CASE Run!Claim(w)
  BY <1>3 DEF Run!Claim, Run!history, Executing
<1>4. CASE Run!Start(w)
  BY <1>4 DEF Run!Start, Run!history, Executing
<1>5. CASE Run!Loop(w)
  BY <1>5 DEF Run!Loop, Run!Alone, Run!history, Executing
<1>6. CASE Run!Expire(w)
  BY <1>6 DEF Run!Expire, Run!Alone, Executing
<1>7. CASE Run!Take(w)
  BY <1>7, NextIs DEF Run!Take, Run!Alone, Executing
<1>8. CASE Run!Inspect(w)
  BY <1>8 DEF Run!Inspect, Run!Serves, Run!Responds, Run!Quiet, Run!Alone, Executing
<1>9. CASE Run!Resume(w)
  BY <1>9 DEF Run!Resume, Run!Serves, Run!Responds, Run!Quiet, Run!Alone, Executing
<1>10. CASE Run!Wait(w)
  BY <1>10 DEF Run!Wait, Run!Responds, Run!Quiet, Run!Alone, Executing
<1>11. CASE Run!PauseOp(w)
  BY <1>11 DEF Run!PauseOp, Run!Serves, Run!Responds, Run!Quiet, Run!Alone, Executing
<1>12. CASE Run!Release(w)
  BY <1>12 DEF Run!Release, Run!Serves, Run!Responds, Run!Quiet, Run!Alone, Executing
<1>13. CASE Run!TraceBegin(w)
  BY <1>13 DEF Run!TraceBegin, Run!Serves, Run!Responds, Run!Quiet, Run!Alone, Executing
<1>14. CASE Run!TraceCheck(w)
  BY <1>14 DEF Run!TraceCheck, Run!Responds, Run!Quiet, Run!Alone, Executing
<1>15. CASE Run!TraceStep(w)
  BY <1>15 DEF Run!TraceStep, Run!Quiet, Run!Alone, Executing
<1>16. CASE Run!TraceWait(w)
  BY <1>16 DEF Run!TraceWait, Run!Responds, Run!Quiet, Run!Alone, Executing
<1>17. CASE Run!Save(w)
  BY <1>17 DEF Run!Save, Run!Quiet, Run!Alone, Executing
<1>18. CASE Run!Write(w)
  BY <1>18 DEF Run!Write, Run!Answered, Run!history, Executing
<1>19. CASE Run!Close(w)
  BY <1>19 DEF Run!Close, Run!Alone, Run!history, Executing
<1>20. CASE Run!Fail(w)
  BY <1>20 DEF Run!Fail, Run!Alone, Executing
<1>21. CASE Run!Crash(w)
  BY <1>21 DEF Run!Crash, Run!rows, Run!Driving, Executing
<1> QED
  BY <1>1, <1>2, <1>3, <1>4, <1>5, <1>6, <1>7, <1>8, <1>9, <1>10, <1>11, <1>12, <1>13, <1>14, <1>15, <1>16,
     <1>17, <1>18, <1>19, <1>20, <1>21 DEF Run!WorkerStep

LEMMA StepLaunched ==
  ASSUME OneWorker, Run!SessionAssumption, SInv, NEW w \in Workers,
         Run!Spawn(w) \/ Run!WorkerStep(w) \/ Run!Crash(w)
  PROVE  Launched'
<1> USE Facts DEF OneWorker, Launched
<1>1. CASE Run!Spawn(w)
  BY <1>1 DEF Run!Spawn, Run!rows, Run!history
<1>2. CASE Run!Boot(w)
  BY <1>2 DEF Run!Boot, Run!rows, Run!history
<1>3. CASE Run!Claim(w)
  BY <1>3, SavedSays DEF Run!Claim, Run!UnchangedSince, Run!history
<1>4. CASE Run!Start(w)
  BY <1>4, SavedSays DEF Run!Start, Run!history
<1>5. CASE Run!Loop(w)
  BY <1>5, PollSays, SavedSays DEF Run!Loop, Polled, Run!Alone, Run!history
<1>6. CASE Run!Expire(w)
  BY <1>6, SavedSays DEF Run!Expire, Run!PauseThrows, Run!Alone
<1>7. CASE Run!Take(w)
  BY <1>7 DEF Run!Take, Run!Alone
<1>8. CASE Run!Inspect(w)
  BY <1>8 DEF Run!Inspect, Run!Serves, Run!Responds, Run!Quiet, Run!Alone
<1>9. CASE Run!Resume(w)
  BY <1>9 DEF Run!Resume, Run!Serves, Run!Responds, Run!Quiet, Run!Alone
<1>10. CASE Run!Wait(w)
  BY <1>10, PollSays DEF Run!Wait, Polled, Run!Responds, Run!Quiet, Run!Alone
<1>11. CASE Run!PauseOp(w)
  BY <1>11, PollSays DEF Run!PauseOp, Polled, Run!Serves, Run!Responds, Run!Quiet, Run!Alone
<1>12. CASE Run!Release(w)
  BY <1>12 DEF Run!Release, Run!Serves, Run!PauseThrows, Run!Responds, Run!Quiet, Run!Alone
<1>13. CASE Run!TraceBegin(w)
  BY <1>13 DEF Run!TraceBegin, Run!Serves, Run!Responds, Run!Quiet, Run!Alone
<1>14. CASE Run!TraceCheck(w)
  BY <1>14 DEF Run!TraceCheck, Run!Responds, Run!Quiet, Run!Alone
<1>15. CASE Run!TraceStep(w)
  BY <1>15 DEF Run!TraceStep, Run!Quiet, Run!Alone
<1>16. CASE Run!TraceWait(w)
  BY <1>16, PollSays DEF Run!TraceWait, Polled, Run!Responds, Run!Quiet, Run!Alone
<1>17. CASE Run!Save(w)
  BY <1>17, SavedSays DEF Run!Save, Run!Quiet, Run!Alone
<1>18. CASE Run!Write(w)
  BY <1>18 DEF Run!Write, Run!history
<1>19. CASE Run!Close(w)
  BY <1>19, SavedSays DEF Run!Close, Run!Alone, Run!history
<1>20. CASE Run!Fail(w)
  BY <1>20, SavedSays DEF Run!Fail, Run!Alone
<1>21. CASE Run!Crash(w)
  BY <1>21 DEF Run!Crash, Run!rows, Run!Driving
<1> QED
  BY <1>1, <1>2, <1>3, <1>4, <1>5, <1>6, <1>7, <1>8, <1>9, <1>10, <1>11, <1>12, <1>13, <1>14, <1>15, <1>16,
     <1>17, <1>18, <1>19, <1>20, <1>21 DEF Run!WorkerStep

LEMMA StepDebuggee ==
  ASSUME OneWorker, Run!SessionAssumption, SInv, NEW w \in Workers,
         Run!Spawn(w) \/ Run!WorkerStep(w) \/ Run!Crash(w)
  PROVE  Debuggee'
<1> USE Facts DEF OneWorker, Debuggee
<1>1. CASE Run!Spawn(w)
  BY <1>1 DEF Run!Spawn, Serving, Executing, Held, Fate, Ends
<1>2. CASE Run!Boot(w)
  BY <1>2 DEF Run!Boot, Serving, Executing, Held, Fate, Ends
<1>3. CASE Run!Claim(w)
  BY <1>3 DEF Run!Claim, Serving, Executing, Held, Fate, Ends
<1>4. CASE Run!Start(w)
  BY <1>4 DEF Run!Start, Serving, Executing, Held, Fate, Ends
<1>5. CASE Run!Loop(w)
  BY <1>5, PollSays DEF Run!Loop, Polled, Run!Alone, Serving, Executing, Held, Fate, Ends
<1>6. CASE Run!Expire(w)
  BY <1>6 DEF Run!Expire, Run!Freed, Run!PauseThrows, Run!Alone, Serving, Executing, Held, Fate, Ends
<1>7. CASE Run!Take(w)
  BY <1>7 DEF Run!Take, Run!Alone, Serving, Executing, Held, Fate, Ends
<1>8. CASE Run!Inspect(w)
  BY <1>8 DEF Run!Inspect, Run!Serves, Run!Responds, Run!Quiet, Run!Alone, Serving, Executing, Held, Fate, Ends
<1>9. CASE Run!Resume(w)
  BY <1>9 DEF Run!Resume, Run!Serves, Run!Responds, Run!Quiet, Run!Alone, Serving, Executing, Held, Fate, Ends
<1>10. CASE Run!Wait(w)
  BY <1>10, PollSays DEF Run!Wait, Polled, Run!Responds, Run!Quiet, Run!Alone, Serving, Executing, Held,
     Fate, Ends
<1>11. CASE Run!PauseOp(w)
  BY <1>11, PollSays DEF Run!PauseOp, Polled, Run!Serves, Run!Responds, Run!Quiet, Run!Alone, Serving,
     Executing, Held, Fate, Ends
<1>12. CASE Run!Release(w)
  BY <1>12 DEF Run!Release, Run!Serves, Run!Freed, Run!PauseThrows, Run!Responds, Run!Quiet, Run!Alone,
     Serving, Executing, Held, Fate, Ends
<1>13. CASE Run!TraceBegin(w)
  BY <1>13 DEF Run!TraceBegin, Run!Serves, Run!Responds, Run!Quiet, Run!Alone, Serving, Executing, Held,
     Fate, Ends
<1>14. CASE Run!TraceCheck(w)
  BY <1>14 DEF Run!TraceCheck, Run!Responds, Run!Quiet, Run!Alone, Serving, Executing, Held, Fate, Ends
<1>15. CASE Run!TraceStep(w)
  BY <1>15 DEF Run!TraceStep, Run!Quiet, Run!Alone, Serving, Executing, Held, Fate, Ends
<1>16. CASE Run!TraceWait(w)
  BY <1>16, PollSays DEF Run!TraceWait, Polled, Run!Responds, Run!Quiet, Run!Alone, Serving, Executing, Held,
     Fate, Ends
<1>17. CASE Run!Save(w)
  BY <1>17 DEF Run!Save, Run!Quiet, Run!Alone, Serving, Executing, Held, Fate, Ends
<1>18. CASE Run!Write(w)
  BY <1>18 DEF Run!Write, Serving, Executing, Held, Fate, Ends
<1>19. CASE Run!Close(w)
  BY <1>19 DEF Run!Close, Run!Alone, Serving, Executing, Held, Fate, Ends
<1>20. CASE Run!Fail(w)
  BY <1>20 DEF Run!Fail, Run!Attached, Run!Freed, Run!Alone, Serving, Executing, Held, Fate, Ends
<1>21. CASE Run!Crash(w)
  BY <1>21 DEF Run!Crash, Run!Driving, Serving, Executing, Held, Fate, Ends
<1> QED
  BY <1>1, <1>2, <1>3, <1>4, <1>5, <1>6, <1>7, <1>8, <1>9, <1>10, <1>11, <1>12, <1>13, <1>14, <1>15, <1>16,
     <1>17, <1>18, <1>19, <1>20, <1>21 DEF Run!WorkerStep

LEMMA StepHeld ==
  ASSUME OneWorker, Run!SessionAssumption, SInv, NEW w \in Workers,
         Run!Spawn(w) \/ Run!WorkerStep(w) \/ Run!Crash(w)
  PROVE  Held'
<1> USE Control DEF OneWorker, Held
<1>1. CASE Run!Spawn(w)
  BY <1>1 DEF Run!Spawn, Run!rows, Run!history, Debuggee, Ends, Fate, Run!States
<1>2. CASE Run!Boot(w)
  BY <1>2 DEF Run!Boot, Run!rows, Run!history, Debuggee, Ends, Fate, Run!States
<1>3. CASE Run!Claim(w)
  BY <1>3, SavedSays DEF Run!Claim, Run!UnchangedSince, Run!history, Debuggee, Ends, Fate, Run!States
<1>4. CASE Run!Start(w)
  BY <1>4, SavedSays DEF Run!Start, Run!history, Debuggee, Ends, Fate, Run!States
<1>5. CASE Run!Loop(w)
  BY <1>5, PollSays, SavedSays DEF Run!Loop, Polled, Run!Alone, Run!history, Debuggee, Ends, Fate, Run!States
<1>6. CASE Run!Expire(w)
  BY <1>6, SavedSays DEF Run!Expire, Run!PauseThrows, Run!Alone, Debuggee, Ends, Fate, Run!States
<1>7. CASE Run!Take(w)
  BY <1>7 DEF Run!Take, Run!Alone, Debuggee, Ends, Fate, Run!States
<1>8. CASE Run!Inspect(w)
  BY <1>8 DEF Run!Inspect, Run!Serves, Run!Responds, Run!Quiet, Run!Alone, Debuggee, Ends, Fate, Run!States
<1>9. CASE Run!Resume(w)
  BY <1>9 DEF Run!Resume, Run!Serves, Run!Responds, Run!Quiet, Run!Alone, Debuggee, Ends, Fate, Run!States
<1>10. CASE Run!Wait(w)
  BY <1>10, PollSays DEF Run!Wait, Polled, Run!Responds, Run!Quiet, Run!Alone, Debuggee, Ends, Fate, Run!States
<1>11. CASE Run!PauseOp(w)
  BY <1>11, PollSays DEF Run!PauseOp, Polled, Run!Serves, Run!Responds, Run!Quiet, Run!Alone, Debuggee, Ends,
     Fate, Run!States
<1>12. CASE Run!Release(w)
  BY <1>12 DEF Run!Release, Run!Serves, Run!PauseThrows, Run!Responds, Run!Quiet, Run!Alone, Debuggee, Ends,
     Fate, Run!States
<1>13. CASE Run!TraceBegin(w)
  BY <1>13 DEF Run!TraceBegin, Run!Serves, Run!Responds, Run!Quiet, Run!Alone, Debuggee, Ends, Fate, Run!States
<1>14. CASE Run!TraceCheck(w)
  BY <1>14 DEF Run!TraceCheck, Run!Responds, Run!Quiet, Run!Alone, Debuggee, Ends, Fate, Run!States
<1>15. CASE Run!TraceStep(w)
  BY <1>15 DEF Run!TraceStep, Run!Quiet, Run!Alone, Debuggee, Ends, Fate, Run!States
<1>16. CASE Run!TraceWait(w)
  BY <1>16, PollSays DEF Run!TraceWait, Polled, Run!Responds, Run!Quiet, Run!Alone, Debuggee, Ends, Fate,
     Run!States
<1>17. CASE Run!Save(w)
  BY <1>17, SavedSays DEF Run!Save, Run!Quiet, Run!Alone, Debuggee, Ends, Fate, Run!States
<1>18. CASE Run!Write(w)
  BY <1>18 DEF Run!Write, Run!history, Debuggee, Ends, Fate, Run!States
<1>19. CASE Run!Close(w)
  BY <1>19, SavedSays DEF Run!Close, Run!Alone, Run!history, Debuggee, Ends, Fate, Run!States
<1>20. CASE Run!Fail(w)
  BY <1>20, SavedSays DEF Run!Fail, Run!Alone, Debuggee, Ends, Fate, Run!States
<1>21. CASE Run!Crash(w)
  BY <1>21 DEF Run!Crash, Run!rows, Run!Driving, Debuggee, Ends, Fate, Run!States
<1> QED
  BY <1>1, <1>2, <1>3, <1>4, <1>5, <1>6, <1>7, <1>8, <1>9, <1>10, <1>11, <1>12, <1>13, <1>14, <1>15, <1>16,
     <1>17, <1>18, <1>19, <1>20, <1>21 DEF Run!WorkerStep

LEMMA StepEnds ==
  ASSUME OneWorker, Run!SessionAssumption, SInv, NEW w \in Workers,
         Run!Spawn(w) \/ Run!WorkerStep(w) \/ Run!Crash(w)
  PROVE  Ends'
<1> USE Control DEF OneWorker, Ends
<1>1. CASE Run!Spawn(w)
  BY <1>1 DEF Run!Spawn, Run!rows, Debuggee, Held, Fate, Answers, EndOf
<1>2. CASE Run!Boot(w)
  BY <1>2 DEF Run!Boot, Run!rows, Debuggee, Held, Fate, Answers, EndOf
<1>3. CASE Run!Claim(w)
  BY <1>3, SavedSays DEF Run!Claim, Run!UnchangedSince, Debuggee, Held, Fate, Answers, EndOf
<1>4. CASE Run!Start(w)
  BY <1>4, SavedSays DEF Run!Start, Debuggee, Held, Fate, Answers, EndOf
<1>5. CASE Run!Loop(w)
  BY <1>5, PollSays, SavedSays DEF Run!Loop, Polled, Run!Alone, Debuggee, Held, Fate, Answers, EndOf
<1>6. CASE Run!Expire(w)
  BY <1>6, SavedSays DEF Run!Expire, Run!Freed, Run!PauseThrows, Run!Alone, Debuggee, Held, Fate, Answers, EndOf
<1>7. CASE Run!Take(w)
  BY <1>7 DEF Run!Take, Run!Alone, Debuggee, Held, Fate, Answers, EndOf
<1>8. CASE Run!Inspect(w)
  BY <1>8 DEF Run!Inspect, Run!Quiet, Run!Alone, Debuggee, Held, Fate, Answers, EndOf
<1>9. CASE Run!Resume(w)
  BY <1>9 DEF Run!Resume, Run!Quiet, Run!Alone, Debuggee, Held, Fate, Answers, EndOf
<1>10. CASE Run!Wait(w)
  BY <1>10, PollSays DEF Run!Wait, Polled, Run!Quiet, Run!Alone, Debuggee, Held, Fate, Answers, EndOf
<1>11. CASE Run!PauseOp(w)
  BY <1>11, PollSays DEF Run!PauseOp, Polled, Run!Quiet, Run!Alone, Debuggee, Held, Fate, Answers, EndOf
<1>12. CASE Run!Release(w)
  <2>1. target \in {"stopped", "running", "exited"} /\ \A s \in row : s.state \notin {"detached", "terminated"}
    BY <1>12 DEF Run!Release, Run!Serves, Debuggee, Held, Run!PauseThrows
  <2>2. UNCHANGED row
    BY <1>12 DEF Run!Release
  <2>3. CASE UNCHANGED <<target, mine>>
    BY <2>2, <2>3 DEF Fate
  <2>4. CASE target' \in Run!Freed(FALSE) /\ mine' = "detached"
    BY <2>1, <2>2, <2>4 DEF Run!Freed, Fate
  <2>5. CASE target' \in Run!Freed(TRUE) /\ mine' = "terminated"
    BY <2>1, <2>2, <2>5 DEF Run!Freed, Fate
  <2> QED BY <1>12, <2>3, <2>4, <2>5 DEF Run!Release, Run!PauseThrows
<1>13. CASE Run!TraceBegin(w)
  BY <1>13 DEF Run!TraceBegin, Run!Quiet, Run!Alone, Debuggee, Held, Fate, Answers, EndOf
<1>14. CASE Run!TraceCheck(w)
  BY <1>14 DEF Run!TraceCheck, Run!Quiet, Run!Alone, Debuggee, Held, Fate, Answers, EndOf
<1>15. CASE Run!TraceStep(w)
  BY <1>15 DEF Run!TraceStep, Run!Quiet, Run!Alone, Debuggee, Held, Fate, Answers, EndOf
<1>16. CASE Run!TraceWait(w)
  BY <1>16, PollSays DEF Run!TraceWait, Polled, Run!Quiet, Run!Alone, Debuggee, Held, Fate, Answers, EndOf
<1>17. CASE Run!Save(w)
  BY <1>17, SavedSays DEF Run!Save, Run!Quiet, Run!Alone, Debuggee, Held, Fate, Answers, EndOf
<1>18. CASE Run!Write(w)
  BY <1>18 DEF Run!Write, Debuggee, Held, Fate, Answers, EndOf
<1>19. CASE Run!Close(w)
  BY <1>19, SavedSays DEF Run!Close, Run!Released, Run!Alone, Debuggee, Held, Fate, Answers, EndOf
<1>20. CASE Run!Fail(w)
  BY <1>20, SavedSays DEF Run!Fail, Run!Attached, Run!Freed, Run!Alone, Debuggee, Held, Fate, Answers, EndOf
<1>21. CASE Run!Crash(w)
  BY <1>21 DEF Run!Crash, Run!rows, Run!Driving, Debuggee, Held, Fate, Answers, EndOf
<1> QED
  BY <1>1, <1>2, <1>3, <1>4, <1>5, <1>6, <1>7, <1>8, <1>9, <1>10, <1>11, <1>12, <1>13, <1>14, <1>15, <1>16,
     <1>17, <1>18, <1>19, <1>20, <1>21 DEF Run!WorkerStep

LEMMA StepReplies ==
  ASSUME OneWorker, Run!SessionAssumption, SInv, NEW w \in Workers,
         Run!Spawn(w) \/ Run!WorkerStep(w) \/ Run!Crash(w)
  PROVE  Replies'
<1> USE Facts DEF OneWorker, Replies
<1>1. CASE Run!Spawn(w)
  BY <1>1 DEF Run!Spawn, Run!rows, Run!history, Held, Serving, Answers, EndOf, Executing
<1>2. CASE Run!Boot(w)
  BY <1>2 DEF Run!Boot, Run!rows, Run!history, Held, Serving, Answers, EndOf, Executing
<1>3. CASE Run!Claim(w)
  BY <1>3, SavedSays DEF Run!Claim, Run!UnchangedSince, Run!history, Held, Serving, Answers, EndOf, Executing
<1>4. CASE Run!Start(w)
  BY <1>4, SavedSays DEF Run!Start, Run!history, Held, Serving, Answers, EndOf, Executing
<1>5. CASE Run!Loop(w)
  BY <1>5, PollSays, SavedSays DEF Run!Loop, Polled, Run!Alone, Run!history, Held, Serving, Answers, EndOf,
     Executing
<1>6. CASE Run!Expire(w)
  BY <1>6, SavedSays DEF Run!Expire, Run!Freed, Run!PauseThrows, Run!Alone, Held, Serving, Answers, EndOf,
     Executing
<1>7. CASE Run!Take(w)
  BY <1>7 DEF Run!Take, Run!Alone, Held, Serving, Answers, EndOf, Executing
<1>8. CASE Run!Inspect(w)
  BY <1>8 DEF Run!Inspect, Run!Serves, Run!Asked, Run!Responds, Run!Quiet, Run!Alone, Held, Serving, Answers,
     EndOf, Executing
<1>9. CASE Run!Resume(w)
  BY <1>9 DEF Run!Resume, Run!Serves, Run!Asked, Run!Responds, Run!Quiet, Run!Alone, Held, Serving, Answers,
     EndOf, Executing
<1>10. CASE Run!Wait(w)
  BY <1>10, PollSays DEF Run!Wait, Polled, Run!Responds, Run!Quiet, Run!Alone, Held, Serving, Answers, EndOf,
     Executing
<1>11. CASE Run!PauseOp(w)
  BY <1>11, PollSays DEF Run!PauseOp, Polled, Run!Serves, Run!Asked, Run!Responds, Run!Quiet, Run!Alone,
     Held, Serving, Answers, EndOf, Executing
<1>12. CASE Run!Release(w)
  BY <1>12 DEF Run!Release, Run!Serves, Run!Asked, Run!Freed, Run!PauseThrows, Run!Responds, Run!Quiet,
     Run!Alone, Held, Serving, Answers, EndOf, Executing
<1>13. CASE Run!TraceBegin(w)
  BY <1>13 DEF Run!TraceBegin, Run!Serves, Run!Asked, Run!Responds, Run!Quiet, Run!Alone, Held, Serving,
     Answers, EndOf, Executing
<1>14. CASE Run!TraceCheck(w)
  BY <1>14 DEF Run!TraceCheck, Run!Responds, Run!Quiet, Run!Alone, Held, Serving, Answers, EndOf, Executing
<1>15. CASE Run!TraceStep(w)
  BY <1>15 DEF Run!TraceStep, Run!Quiet, Run!Alone, Held, Serving, Answers, EndOf, Executing
<1>16. CASE Run!TraceWait(w)
  BY <1>16, PollSays DEF Run!TraceWait, Polled, Run!Responds, Run!Quiet, Run!Alone, Held, Serving, Answers,
     EndOf, Executing
<1>17. CASE Run!Save(w)
  BY <1>17, SavedSays DEF Run!Save, Run!Quiet, Run!Alone, Held, Serving, Answers, EndOf, Executing
<1>18. CASE Run!Write(w)
  BY <1>18 DEF Run!Write, Run!history, Held, Serving, Answers, EndOf, Executing
<1>19. CASE Run!Close(w)
  BY <1>19, SavedSays DEF Run!Close, Run!Alone, Run!history, Held, Serving, Answers, EndOf, Executing
<1>20. CASE Run!Fail(w)
  BY <1>20, SavedSays DEF Run!Fail, Run!Freed, Run!Alone, Held, Serving, Answers, EndOf, Executing
<1>21. CASE Run!Crash(w)
  BY <1>21 DEF Run!Crash, Run!rows, Held, Serving, Answers, EndOf, Executing
<1> QED
  BY <1>1, <1>2, <1>3, <1>4, <1>5, <1>6, <1>7, <1>8, <1>9, <1>10, <1>11, <1>12, <1>13, <1>14, <1>15, <1>16,
     <1>17, <1>18, <1>19, <1>20, <1>21 DEF Run!WorkerStep

LEMMA StepAnswers ==
  ASSUME OneWorker, Run!SessionAssumption, SInv, NEW w \in Workers,
         Run!Spawn(w) \/ Run!WorkerStep(w) \/ Run!Crash(w)
  PROVE  Answers'
<1> USE Facts DEF OneWorker, Answers
<1>1. CASE Run!Spawn(w)
  BY <1>1 DEF Run!Spawn, Run!rows, Run!history, Serving, Held, Debuggee, Ends, Fate, Replies, Order, EndOf,
     Executing
<1>2. CASE Run!Boot(w)
  BY <1>2 DEF Run!Boot, Run!rows, Run!history, Serving, Held, Debuggee, Ends, Fate, Replies, Order, EndOf,
     Executing
<1>3. CASE Run!Claim(w)
  BY <1>3, SavedSays DEF Run!Claim, Run!UnchangedSince, Run!history, Serving, Held, Debuggee, Ends, Fate,
     Replies, Order, EndOf, Executing
<1>4. CASE Run!Start(w)
  BY <1>4, SavedSays DEF Run!Start, Run!history, Serving, Held, Debuggee, Ends, Fate, Replies, Order, EndOf,
     Executing
<1>5. CASE Run!Loop(w)
  BY <1>5, PollSays, SavedSays DEF Run!Loop, Polled, Run!Alone, Run!history, Serving, Held, Debuggee, Ends,
     Fate, Replies, Order, EndOf, Executing
<1>6. CASE Run!Expire(w)
  BY <1>6, SavedSays DEF Run!Expire, Run!PauseThrows, Run!Alone, Serving, Held, Debuggee, Ends, Fate,
     Replies, Order, EndOf, Executing
<1>7. CASE Run!Take(w)
  BY <1>7 DEF Run!Take, Run!Alone, Serving, Held, Debuggee, Ends, Fate, Replies, Order, EndOf, Executing
<1>8. CASE Run!Inspect(w)
  BY <1>8 DEF Run!Inspect, Run!Serves, Run!Responds, Run!Quiet, Run!Alone, Serving, Held, Debuggee, Ends,
     Fate, Replies, Order, EndOf, Executing
<1>9. CASE Run!Resume(w)
  BY <1>9 DEF Run!Resume, Run!Serves, Run!Responds, Run!Quiet, Run!Alone, Serving, Held, Debuggee, Ends,
     Fate, Replies, Order, EndOf, Executing
<1>10. CASE Run!Wait(w)
  BY <1>10, PollSays DEF Run!Wait, Polled, Run!Responds, Run!Quiet, Run!Alone, Serving, Held, Debuggee, Ends,
     Fate, Replies, Order, EndOf, Executing
<1>11. CASE Run!PauseOp(w)
  BY <1>11, PollSays DEF Run!PauseOp, Polled, Run!Serves, Run!Responds, Run!Quiet, Run!Alone, Serving, Held,
     Debuggee, Ends, Fate, Replies, Order, EndOf, Executing
<1>12. CASE Run!Release(w)
  BY <1>12 DEF Run!Release, Run!Serves, Run!PauseThrows, Run!Responds, Run!Quiet, Run!Alone, Serving, Held,
     Debuggee, Ends, Fate, Replies, Order, EndOf, Executing
<1>13. CASE Run!TraceBegin(w)
  BY <1>13 DEF Run!TraceBegin, Run!Serves, Run!Responds, Run!Quiet, Run!Alone, Serving, Held, Debuggee, Ends,
     Fate, Replies, Order, EndOf, Executing
<1>14. CASE Run!TraceCheck(w)
  BY <1>14 DEF Run!TraceCheck, Run!Responds, Run!Quiet, Run!Alone, Serving, Held, Debuggee, Ends, Fate,
     Replies, Order, EndOf, Executing
<1>15. CASE Run!TraceStep(w)
  BY <1>15 DEF Run!TraceStep, Run!Quiet, Run!Alone, Serving, Held, Debuggee, Ends, Fate, Replies, Order,
     EndOf, Executing
<1>16. CASE Run!TraceWait(w)
  BY <1>16, PollSays DEF Run!TraceWait, Polled, Run!Responds, Run!Quiet, Run!Alone, Serving, Held, Debuggee,
     Ends, Fate, Replies, Order, EndOf, Executing
<1>17. CASE Run!Save(w)
  BY <1>17, SavedSays DEF Run!Save, Run!Quiet, Run!Alone, Serving, Held, Debuggee, Ends, Fate, Replies,
     Order, EndOf, Executing
<1>18. CASE Run!Write(w)
  <2>1. PICK r \in serving : answer' = [answer EXCEPT ![r] = {reply}]
    BY <1>18 DEF Run!Write, Run!Answered
  <2>2. pc[w] = "write" /\ pc'[w] = "loop" /\ UNCHANGED <<row, op, mine>>
    BY <1>18 DEF Run!Write
  <2>3. row # {} /\ \A s \in row : s.state = mine
    BY <2>2 DEF Launched, Replies
  <2>4. ASSUME NEW q \in Requests, answer'[q] = {"completed"}, op[q] \in DOMAIN EndOf
        PROVE  mine = EndOf[op[q]]
    <3>1. CASE q = r
      BY <2>1, <2>2, <2>4, <3>1 DEF Replies
    <3>2. CASE q # r
      <4>1. answer[q] = {"completed"}
        BY <2>1, <2>4, <3>2
      <4> QED BY <2>2, <2>4, <4>1
    <3> QED BY <3>1, <3>2
  <2> QED BY <2>2, <2>3, <2>4
<1>19. CASE Run!Close(w)
  <2>1. /\ pc[w] = "close" /\ mine' = (IF ~Run!Released /\ mine # "detached" THEN "exited" ELSE mine)
        /\ Run!Saved(w, mine') /\ pc' = [pc EXCEPT ![w] = "gone"] /\ UNCHANGED <<op, answer, applied>>
    BY <1>19 DEF Run!Close, Run!Alone, Run!history
  <2>2. pc'[w] = "gone" /\ row' # {} /\ \A s \in row' : s.state = mine'
    BY <2>1, SavedSays
  <2>3. ASSUME NEW r \in Requests, answer[r] = {"completed"}, op[r] \in DOMAIN EndOf
        PROVE  mine' = EndOf[op[r]]
    <3>1. state[r] = "finished"
      BY <2>3 DEF Order
    <3>2. PICK i \in 1..Len(applied) : applied[i] = r
      BY <3>1 DEF Order
    <3>3. Run!Released
      BY <2>3, <3>2 DEF Run!Released, EndOf
    <3> QED BY <2>1, <2>3, <3>3
  <2> QED BY <2>1, <2>2, <2>3
<1>20. CASE Run!Fail(w)
  BY <1>20, SavedSays DEF Run!Fail, Run!Alone, Serving, Held, Debuggee, Ends, Fate, Replies, Order, EndOf,
     Executing
<1>21. CASE Run!Crash(w)
  BY <1>21 DEF Run!Crash, Run!rows, Run!Driving, Serving, Held, Debuggee, Ends, Fate, Replies, Order, EndOf,
     Executing
<1> QED
  BY <1>1, <1>2, <1>3, <1>4, <1>5, <1>6, <1>7, <1>8, <1>9, <1>10, <1>11, <1>12, <1>13, <1>14, <1>15, <1>16,
     <1>17, <1>18, <1>19, <1>20, <1>21 DEF Run!WorkerStep

LEMMA StepTracing ==
  ASSUME OneWorker, Run!SessionAssumption, SInv, NEW w \in Workers,
         Run!Spawn(w) \/ Run!WorkerStep(w) \/ Run!Crash(w)
  PROVE  Tracing'
<1> USE Facts DEF OneWorker, Tracing
<1>1. CASE Run!Spawn(w)
  BY <1>1 DEF Run!Spawn, Run!rows, Run!history, Debuggee
<1>2. CASE Run!Boot(w)
  BY <1>2 DEF Run!Boot, Run!rows, Run!history, Debuggee
<1>3. CASE Run!Claim(w)
  BY <1>3 DEF Run!Claim, Run!history, Debuggee
<1>4. CASE Run!Start(w)
  BY <1>4 DEF Run!Start, Run!history, Debuggee
<1>5. CASE Run!Loop(w)
  BY <1>5 DEF Run!Loop, Run!Event, Run!Alone, Run!history, Debuggee
<1>6. CASE Run!Expire(w)
  BY <1>6 DEF Run!Expire, Run!Freed, Run!PauseThrows, Run!Alone, Debuggee
<1>7. CASE Run!Take(w)
  BY <1>7 DEF Run!Take, Run!Alone, Debuggee
<1>8. CASE Run!Inspect(w)
  BY <1>8 DEF Run!Inspect, Run!Serves, Run!Responds, Run!Quiet, Run!Alone, Debuggee
<1>9. CASE Run!Resume(w)
  BY <1>9 DEF Run!Resume, Run!Serves, Run!Responds, Run!Quiet, Run!Alone, Debuggee
<1>10. CASE Run!Wait(w)
  BY <1>10 DEF Run!Wait, Run!Event, Run!Pause, Run!PauseThrows, Run!Responds, Run!Quiet, Run!Alone, Debuggee
<1>11. CASE Run!PauseOp(w)
  BY <1>11 DEF Run!PauseOp, Run!Serves, Run!Event, Run!Pause, Run!PauseThrows, Run!Responds, Run!Quiet,
     Run!Alone, Debuggee
<1>12. CASE Run!Release(w)
  BY <1>12 DEF Run!Release, Run!Serves, Run!Freed, Run!PauseThrows, Run!Responds, Run!Quiet, Run!Alone, Debuggee
<1>13. CASE Run!TraceBegin(w)
  BY <1>13 DEF Run!TraceBegin, Run!Serves, Run!Responds, Run!Quiet, Run!Alone, Debuggee
<1>14. CASE Run!TraceCheck(w)
  BY <1>14 DEF Run!TraceCheck, Run!CancelSeen, Run!Responds, Run!Quiet, Run!Alone, Debuggee
<1>15. CASE Run!TraceStep(w)
  BY <1>15 DEF Run!TraceStep, Run!Quiet, Run!Alone, Debuggee
<1>16. CASE Run!TraceWait(w)
  BY <1>16 DEF Run!TraceWait, Run!CancelSeen, Run!Event, Run!Pause, Run!PauseThrows, Run!Responds, Run!Quiet,
     Run!Alone, Debuggee
<1>17. CASE Run!Save(w)
  BY <1>17 DEF Run!Save, Run!Quiet, Run!Alone, Debuggee
<1>18. CASE Run!Write(w)
  BY <1>18 DEF Run!Write, Run!history, Debuggee
<1>19. CASE Run!Close(w)
  BY <1>19 DEF Run!Close, Run!Alone, Run!history, Debuggee
<1>20. CASE Run!Fail(w)
  BY <1>20 DEF Run!Fail, Run!Attached, Run!Freed, Run!Alone, Debuggee
<1>21. CASE Run!Crash(w)
  BY <1>21 DEF Run!Crash, Run!rows, Run!Driving, Debuggee
<1> QED
  BY <1>1, <1>2, <1>3, <1>4, <1>5, <1>6, <1>7, <1>8, <1>9, <1>10, <1>11, <1>12, <1>13, <1>14, <1>15, <1>16,
     <1>17, <1>18, <1>19, <1>20, <1>21 DEF Run!WorkerStep

LEMMA SavedTyped ==
  ASSUME NEW w \in Workers, NEW x \in Run!States, Run!Saved(w, x)
  PROVE  RowTyped'
<1>1. Cardinality({[state |-> x, owner |-> {w}]}) = 1
  BY FS_Singleton
<1> QED BY <1>1 DEF Run!Saved, RowTyped

LEMMA FreedSays == \A kill : Run!Freed(kill) \subseteq {"left", "killed", "exited"}
BY DEF Run!Freed

LEMMA StepQueueTyped ==
  ASSUME Run!SessionAssumption, SInv, NEW w \in Workers,
         Run!Spawn(w) \/ Run!WorkerStep(w) \/ Run!Crash(w)
  PROVE  QueueTyped'
<1> USE Types DEF QueueTyped
<1>1. CASE Run!Take(w)
  <2>1. CASE Run!NextInQueue = {}
    BY <1>1, <2>1 DEF Run!Take, Run!Alone
  <2>2. CASE Run!NextInQueue # {}
    <3>1. PICK r \in Run!NextInQueue : state' = [state EXCEPT ![r] = "running"] /\ applied' = Append(applied, r)
      BY <1>1, <2>2 DEF Run!Take
    <3>2. r \in Requests
      BY NextIs
    <3> QED BY <1>1, <3>1, <3>2 DEF Run!Take, Run!Alone
  <2> QED BY <2>1, <2>2
<1>2. CASE Run!Write(w)
  BY <1>2 DEF Run!Write, Run!Answered, Run!history, Serving, WorkerTyped
<1>3. CASE ~(Run!Take(w) \/ Run!Write(w))
  <2>1. UNCHANGED <<young, cancel, queue, applied, op, state, answer, command>>
    BY <1>3 DEF Run!WorkerStep, Run!Spawn, Run!Crash, Run!Boot, Run!Claim, Run!Start, Run!Loop, Run!Expire,
       Run!Inspect, Run!Resume, Run!Wait, Run!PauseOp, Run!Release, Run!TraceBegin, Run!TraceCheck,
       Run!TraceStep, Run!TraceWait, Run!Save, Run!Close, Run!Fail, Run!rows, Run!worker, Run!history,
       Run!Alone, Run!Quiet
  <2> QED BY <2>1
<1> QED BY <1>1, <1>2, <1>3

LEMMA StepTraceTyped ==
  ASSUME Run!SessionAssumption, SInv, NEW w \in Workers,
         Run!Spawn(w) \/ Run!WorkerStep(w) \/ Run!Crash(w)
  PROVE  TraceTyped'
<1> USE Types DEF TraceTyped, Run!SessionAssumption
<1>1. CASE Run!TraceBegin(w)
  BY <1>1 DEF Run!TraceBegin, QueueTyped
<1>2. CASE Run!TraceStep(w)
  BY <1>2 DEF Run!TraceStep, Tracing
<1>3. CASE ~(Run!TraceBegin(w) \/ Run!TraceStep(w))
  <2>1. UNCHANGED <<steps, generation, late>>
    BY <1>3 DEF Run!WorkerStep, Run!Spawn, Run!Crash, Run!Boot, Run!Claim, Run!Start, Run!Loop, Run!Expire,
       Run!Take, Run!Inspect, Run!Resume, Run!Wait, Run!PauseOp, Run!Release, Run!TraceCheck, Run!TraceWait,
       Run!Save, Run!Write, Run!Close, Run!Fail, Run!rows, Run!worker, Run!history, Run!Alone, Run!Quiet
  <2> QED BY <2>1
<1> QED BY <1>1, <1>2, <1>3

LEMMA StepWorkerTyped ==
  ASSUME Run!SessionAssumption, SInv, NEW w \in Workers,
         Run!Spawn(w) \/ Run!WorkerStep(w) \/ Run!Crash(w)
  PROVE  WorkerTyped'
<1> USE Types DEF WorkerTyped, Run!States, Run!Driving, Responses
<1>1. CASE Run!Spawn(w)
  BY <1>1 DEF Run!Spawn, Run!rows, Run!history
<1>2. CASE Run!Boot(w)
  BY <1>2 DEF Run!Boot, Run!rows, Run!history
<1>3. CASE Run!Claim(w)
  BY <1>3 DEF Run!Claim, Run!UnchangedSince, Run!history
<1>4. CASE Run!Start(w)
  BY <1>4 DEF Run!Start, Run!history
<1>5. CASE Run!Loop(w)
  BY <1>5, PollSays DEF Run!Loop, Run!Alone, Run!history, Polled
<1>6. CASE Run!Expire(w)
  BY <1>6, FreedSays DEF Run!Expire, Run!PauseThrows, Run!Alone
<1>7. CASE Run!Take(w)
  BY <1>7, NextIs DEF Run!Take, Run!Alone
<1>8. CASE Run!Inspect(w)
  BY <1>8 DEF Run!Inspect, Run!Serves, Run!Responds, Run!Quiet, Run!Alone
<1>9. CASE Run!Resume(w)
  BY <1>9 DEF Run!Resume, Run!Serves, Run!Responds, Run!Quiet, Run!Alone
<1>10. CASE Run!Wait(w)
  BY <1>10, PollSays DEF Run!Wait, Run!Responds, Run!Quiet, Run!Alone, Polled
<1>11. CASE Run!PauseOp(w)
  BY <1>11, PollSays DEF Run!PauseOp, Run!Serves, Run!Responds, Run!Quiet, Run!Alone, Polled
<1>12. CASE Run!Release(w)
  BY <1>12, FreedSays DEF Run!Release, Run!PauseThrows, Run!Responds, Run!Quiet, Run!Alone
<1>13. CASE Run!TraceBegin(w)
  BY <1>13 DEF Run!TraceBegin, Run!Serves, Run!Responds, Run!Quiet, Run!Alone
<1>14. CASE Run!TraceCheck(w)
  BY <1>14 DEF Run!TraceCheck, Run!CancelSeen, Run!Responds, Run!Quiet, Run!Alone
<1>15. CASE Run!TraceStep(w)
  BY <1>15 DEF Run!TraceStep, Run!Quiet, Run!Alone
<1>16. CASE Run!TraceWait(w)
  BY <1>16, PollSays DEF Run!TraceWait, Run!CancelSeen, Run!Responds, Run!Quiet, Run!Alone, Polled
<1>17. CASE Run!Save(w)
  BY <1>17 DEF Run!Save, Run!Quiet, Run!Alone
<1>18. CASE Run!Write(w)
  BY <1>18 DEF Run!Write, Run!Answered, Run!history
<1>19. CASE Run!Close(w)
  BY <1>19 DEF Run!Close, Run!Alone, Run!history
<1>20. CASE Run!Fail(w)
  BY <1>20 DEF Run!Fail, Run!Attached, Run!Freed, Run!Alone
<1>21. CASE Run!Crash(w)
  BY <1>21 DEF Run!Crash, Run!rows
<1> QED
  BY <1>1, <1>2, <1>3, <1>4, <1>5, <1>6, <1>7, <1>8, <1>9, <1>10, <1>11, <1>12, <1>13, <1>14, <1>15, <1>16,
     <1>17, <1>18, <1>19, <1>20, <1>21 DEF Run!WorkerStep

LEMMA StepRowTyped ==
  ASSUME Run!SessionAssumption, SInv, NEW w \in Workers,
         Run!Spawn(w) \/ Run!WorkerStep(w) \/ Run!Crash(w)
  PROVE  RowTyped'
<1>1. UNCHANGED row \/ \E x \in Run!States : Run!Saved(w, x)
  <2> USE StepWorkerTyped, Types DEF WorkerTyped
  <2>1. CASE Run!Spawn(w)
    BY <2>1 DEF Run!Spawn, Run!rows, Run!history, Run!States
  <2>2. CASE Run!Boot(w)
    BY <2>2 DEF Run!Boot, Run!rows, Run!history, Run!States
  <2>3. CASE Run!Claim(w)
    BY <2>3 DEF Run!Claim, Run!history, Run!States
  <2>4. CASE Run!Start(w)
    BY <2>4 DEF Run!Start, Run!history, Run!States
  <2>5. CASE Run!Loop(w)
    BY <2>5 DEF Run!Loop, Run!Event, Run!Alone, Run!history, Run!States
  <2>6. CASE Run!Expire(w)
    BY <2>6 DEF Run!Expire, Run!PauseThrows, Run!Alone, Run!States
  <2>7. CASE Run!Take(w)
    BY <2>7 DEF Run!Take, Run!Alone, Run!States
  <2>8. CASE Run!Inspect(w)
    BY <2>8 DEF Run!Inspect, Run!Alone, Run!States
  <2>9. CASE Run!Resume(w)
    BY <2>9 DEF Run!Resume, Run!Alone, Run!States
  <2>10. CASE Run!Wait(w)
    BY <2>10 DEF Run!Wait, Run!Event, Run!Pause, Run!PauseThrows, Run!Alone, Run!States
  <2>11. CASE Run!PauseOp(w)
    BY <2>11 DEF Run!PauseOp, Run!Event, Run!Pause, Run!PauseThrows, Run!Alone, Run!States
  <2>12. CASE Run!Release(w)
    BY <2>12 DEF Run!Release, Run!PauseThrows, Run!Alone, Run!States
  <2>13. CASE Run!TraceBegin(w)
    BY <2>13 DEF Run!TraceBegin, Run!Alone, Run!States
  <2>14. CASE Run!TraceCheck(w)
    BY <2>14 DEF Run!TraceCheck, Run!Alone, Run!States
  <2>15. CASE Run!TraceStep(w)
    BY <2>15 DEF Run!TraceStep, Run!Alone, Run!States
  <2>16. CASE Run!TraceWait(w)
    BY <2>16 DEF Run!TraceWait, Run!Event, Run!Pause, Run!PauseThrows, Run!Alone, Run!States
  <2>17. CASE Run!Save(w)
    BY <2>17 DEF Run!Save, Run!Alone, Run!States
  <2>18. CASE Run!Write(w)
    BY <2>18 DEF Run!Write, Run!history, Run!States
  <2>19. CASE Run!Close(w)
    BY <2>19 DEF Run!Close, Run!Alone, Run!history, Run!States
  <2>20. CASE Run!Fail(w)
    BY <2>20 DEF Run!Fail, Run!Alone, Run!States
  <2>21. CASE Run!Crash(w)
    BY <2>21 DEF Run!Crash, Run!rows, Run!States
  <2> QED
    BY <2>1, <2>2, <2>3, <2>4, <2>5, <2>6, <2>7, <2>8, <2>9, <2>10, <2>11, <2>12, <2>13, <2>14, <2>15, <2>16,
       <2>17, <2>18, <2>19, <2>20, <2>21 DEF Run!WorkerStep
<1>2. CASE UNCHANGED row
  BY <1>2, Types DEF RowTyped
<1> QED BY <1>1, <1>2, SavedTyped

LEMMA LaunchKeeps ==
  ASSUME Run!SessionAssumption, SInv, Run!Launch \/ Run!SpawnFails
  PROVE  SInv'
<1> USE DEF SInv
<1>1. /\ UNCHANGED <<young, cancel, queue, op, state, answer, command, Run!worker, Run!history>>
      /\ \E x \in {"starting", "failed"} : row' = {[state |-> x, owner |-> {}]}
      /\ \A w \in Workers : pc[w] = "none"
  BY DEF Run!Launch, Run!SpawnFails, Launched
<1>2. PICK x \in {"starting", "failed"} : row' = {[state |-> x, owner |-> {}]}
  BY <1>1
<1>3. Cardinality({[state |-> x, owner |-> {}]}) = 1
  BY FS_Singleton
<1>4. row' # {} /\ \A s \in row' : s.state = x
  BY <1>2
<1>5. RowTyped'
  BY <1>2, <1>3 DEF RowTyped, Run!States
<1>6. /\ UNCHANGED <<Order, Serving, Debuggee, Tracing, QueueTyped, WorkerTyped, TraceTyped>>
  BY <1>1 DEF Run!worker, Run!history, Order, Run!InOrder, Serving, Debuggee, Tracing, QueueTyped,
     WorkerTyped, TraceTyped
<1>7. UNCHANGED <<mine, target, pc, serving, reply, op, answer, state, applied, command, queue>>
  BY <1>1 DEF Run!worker, Run!history
<1>8. Launched' /\ Held'
  BY <1>1, <1>4, <1>7 DEF Launched, Held
<1>9. Ends'
  BY <1>2, <1>4, <1>7 DEF Ends, Fate
<1>10. Replies'
  BY <1>1, <1>7 DEF Replies
<1>11. Answers'
  <2> SUFFICES ASSUME NEW r \in Requests, answer[r] = {"completed"}, op[r] \in DOMAIN EndOf PROVE FALSE
    BY <1>7 DEF Answers
  <2>1. row # {} /\ \A s \in row : s.state \in {"detached", "terminated"}
    BY DEF Answers, EndOf
  <2> QED BY <2>1 DEF Run!Launch, Run!SpawnFails
<1> QED BY <1>5, <1>6, <1>8, <1>9, <1>10, <1>11 DEF SessionTyped

LEMMA StillKeeps ==
  ASSUME SInv, UNCHANGED <<Run!rows, command, Run!worker, Run!history>>, young' \in BOOLEAN
  PROVE  SInv'
<1>1. UNCHANGED <<RowTyped, WorkerTyped, TraceTyped, Order, Serving>>
  BY DEF RowTyped, WorkerTyped, TraceTyped, Order, Run!InOrder, Serving, Run!rows, Run!worker, Run!history
<1>2. UNCHANGED <<Launched, Debuggee, Held, Ends, Replies, Answers, Tracing>>
  BY DEF Launched, Debuggee, Held, Ends, Fate, Replies, Answers, Tracing, Run!rows, Run!worker, Run!history
<1>3. QueueTyped'
  BY Types DEF QueueTyped, Run!rows, Run!history
<1> QED BY <1>1, <1>2, <1>3 DEF SInv, SessionTyped

LEMMA CancelKeeps ==
  ASSUME Run!SessionAssumption, SInv, Run!Cancel
  PROVE  SInv'
<1>1. /\ cancel < MaxCancels /\ cancel' = cancel + 1
      /\ UNCHANGED <<command, queue, op, state, answer, row, young, Run!worker, Run!history>>
  BY DEF Run!Cancel, Run!Others
<1>2. QueueTyped' /\ Tracing'
  BY <1>1 DEF SInv, SessionTyped, QueueTyped, TraceTyped, Tracing, Run!SessionAssumption, Run!worker,
     Run!history
<1>3. UNCHANGED <<RowTyped, WorkerTyped, TraceTyped, Order, Serving, Launched, Debuggee, Held, Ends, Replies, Answers>>
  BY <1>1 DEF RowTyped, WorkerTyped, TraceTyped, Order, Run!InOrder, Serving, Launched, Debuggee, Held,
       Ends, Fate, Replies, Answers, Run!worker, Run!history
<1> QED BY <1>2, <1>3 DEF SInv, SessionTyped

LEMMA CommandKeeps ==
  ASSUME Run!SessionAssumption, SInv, NEW r \in Requests, Run!CommandStep(r)
  PROVE  SInv'
<1> USE Types, Facts
<1>1. UNCHANGED <<cancel, row, young, Run!worker, Run!history>> /\ UNCHANGED answer
  BY DEF Run!CommandStep, Run!Ask, Run!Enqueue, Run!PollResponse, Run!PollLive, Run!Others
<1>2. UNCHANGED <<RowTyped, WorkerTyped, TraceTyped, Launched, Debuggee, Held, Ends, Tracing>>
  BY <1>1 DEF RowTyped, WorkerTyped, TraceTyped, Launched, Debuggee, Held, Ends, Fate, Tracing, Run!worker,
     Run!history
<1>3. CASE \E o \in Ops : Run!Ask(r, o)
  <2>1. PICK o \in Ops : Run!Ask(r, o)
    BY <1>3
  <2>2. PICK c \in {"insert", "refused"} : command' = [command EXCEPT ![r] = c]
    BY <2>1 DEF Run!Ask
  <2>3. op' = [op EXCEPT ![r] = o] /\ UNCHANGED <<queue, state>> /\ command[r] = "idle" /\ o \in Run!AllOps
    BY <2>1 DEF Run!Ask, Run!SessionAssumption
  <2>4. state[r] = "none" /\ answer[r] = {} /\ r \notin serving
    BY <2>3 DEF Order, Serving, Posted
  <2>5. QueueTyped'
    BY <1>1, <2>2, <2>3 DEF QueueTyped, Commands, Run!history
  <2>6. \A q \in Requests : q # r => op'[q] = op[q] /\ command'[q] = command[q]
    BY <2>2, <2>3
  <2>7. command[r] \notin Posted /\ command'[r] \notin Posted
    BY <2>2, <2>3 DEF Posted
  <2>8. Order'
    <3>1. ASSUME NEW i \in 1..Len(queue)
          PROVE  command'[queue[i]] = command[queue[i]]
      BY <2>6, <2>7 DEF Order
    <3>2. \A q \in Requests : command'[q] \notin Posted => state[q] = "none"
      BY <2>4, <2>6 DEF Order
    <3> QED BY <1>1, <2>3, <3>1, <3>2 DEF Order, Run!InOrder, Run!history
  <2>9. Serving'
    BY <1>1, <2>3 DEF Serving, Run!worker, Run!history
  <2>10. Replies'
    BY <1>1, <2>4, <2>6 DEF Replies, Run!worker
  <2>11. Answers'
    BY <1>1, <2>4, <2>6 DEF Answers, Run!worker
  <2> QED BY <1>2, <2>5, <2>8, <2>9, <2>10, <2>11 DEF SInv, SessionTyped
<1>4. CASE Run!Enqueue(r)
  <2>1. /\ command[r] = "insert" /\ queue' = Append(queue, r) /\ state' = [state EXCEPT ![r] = "queued"]
        /\ command' = [command EXCEPT ![r] = "poll"] /\ UNCHANGED op
    BY <1>4 DEF Run!Enqueue
  <2>2. state[r] = "none" /\ answer[r] = {} /\ r \notin serving
    BY <2>1 DEF Order, Serving, Posted
  <2>3. QueueTyped'
    BY <1>1, <2>1 DEF QueueTyped, Commands, Run!history
  <2>4. \A q \in Requests : /\ state'[q] = (IF q = r THEN "queued" ELSE state[q])
                            /\ command'[q] = (IF q = r THEN "poll" ELSE command[q])
    BY <2>1
  <2>5. /\ Len(queue') = Len(queue) + 1 /\ Len(queue) \in Nat /\ Len(applied) \in Nat
        /\ \A i \in 1..Len(queue') : queue'[i] = IF i = Len(queue) + 1 THEN r ELSE queue[i]
    BY <2>1
  <2>6. \A i \in 1..Len(queue) : queue[i] # r /\ queue[i] \in Requests
    BY <2>1 DEF Order, Posted
  <2>7. UNCHANGED applied /\ Len(applied) <= Len(queue)
    BY <1>1 DEF Run!history, Order, Run!InOrder
  <2>8. Run!InOrder'
    BY <2>5, <2>7 DEF Order, Run!InOrder
  <2>9. ASSUME NEW i \in 1..Len(queue')
        PROVE  /\ command'[queue'[i]] \in Posted
               /\ state'[queue'[i]] = "queued" <=> i > Len(applied)
               /\ \A j \in 1..Len(queue') : queue'[i] = queue'[j] => i = j
    <3>1. CASE i = Len(queue) + 1
      <4>1. queue'[i] = r
        BY <2>5, <3>1
      <4>2. \A j \in 1..Len(queue') : queue'[j] = r => j = i
        BY <2>5, <2>6, <3>1
      <4> QED BY <2>4, <2>7, <3>1, <4>1, <4>2 DEF Posted
    <3>2. CASE i \in 1..Len(queue)
      <4>1. queue'[i] = queue[i] /\ queue[i] # r /\ queue[i] \in Requests
        BY <2>5, <2>6, <3>2
      <4>2. command'[queue[i]] \in Posted /\ (state'[queue[i]] = "queued" <=> i > Len(applied))
        BY <2>4, <3>2, <4>1 DEF Order
      <4>3. \A j \in 1..Len(queue') : queue'[i] = queue'[j] => i = j
        <5>1. \A j \in 1..Len(queue) : queue[i] = queue[j] => i = j
          BY <3>2 DEF Order
        <5> QED BY <2>5, <4>1, <5>1
      <4> QED BY <4>1, <4>2, <4>3
    <3> QED BY <2>5, <3>1, <3>2
  <2>10. Order'
    <3>1. \A q \in Requests : command'[q] \notin Posted => state'[q] = "none"
      BY <2>4 DEF Order, Posted
    <3>2. \A q \in Requests : state'[q] \in {"running", "finished"} => \E i \in 1..Len(applied) : applied[i] = q
      BY <2>4 DEF Order
    <3>3. \A q \in Requests : answer[q] # {} => state'[q] = "finished"
      BY <2>2, <2>4 DEF Order
    <3> QED BY <1>1, <2>7, <2>8, <2>9, <3>1, <3>2, <3>3 DEF Order
  <2>11. Serving'
    BY <1>1, <2>2, <2>4 DEF Serving, Run!worker, Run!history
  <2>12. Replies' /\ Answers'
    BY <1>1, <2>1 DEF Replies, Answers, Run!worker
  <2> QED BY <1>2, <2>3, <2>10, <2>11, <2>12 DEF SInv, SessionTyped
<1>5. CASE Run!PollResponse(r) \/ Run!PollLive(r)
  <2>1. PICK c \in Posted \cup {"pending"} : command' = [command EXCEPT ![r] = c]
    BY <1>5 DEF Run!PollResponse, Run!PollLive, Posted
  <2>2. UNCHANGED <<queue, op, state>> /\ command[r] \in Posted
    BY <1>5 DEF Run!PollResponse, Run!PollLive, Posted
  <2>3. QueueTyped'
    BY <1>1, <2>1, <2>2 DEF QueueTyped, Commands, Posted, Run!history
  <2>4. Order'
    <3>1. \A q \in Requests : command'[q] \in Posted <=> command[q] \in Posted
      BY <2>1, <2>2 DEF Posted
    <3> QED BY <1>1, <2>2, <3>1 DEF Order, Run!InOrder, Run!history
  <2>5. Serving' /\ Replies' /\ Answers'
    BY <1>1, <2>2 DEF Serving, Replies, Answers, Run!worker, Run!history
  <2> QED BY <1>2, <2>3, <2>4, <2>5 DEF SInv, SessionTyped
<1> QED BY <1>3, <1>4, <1>5 DEF Run!CommandStep

LEMMA WorkerKeeps ==
  ASSUME OneWorker, Run!SessionAssumption, SInv, NEW w \in Workers,
         Run!Spawn(w) \/ Run!WorkerStep(w) \/ Run!Crash(w)
  PROVE  SInv'
BY StepQueueTyped, StepTraceTyped, StepWorkerTyped, StepRowTyped, StepOrder, StepServing, StepLaunched,
   StepDebuggee, StepHeld, StepEnds, StepReplies, StepAnswers, StepTracing DEF SInv, SessionTyped

LEMMA SInitInv ==
  ASSUME Run!SessionAssumption, Run!Init
  PROVE  SInv
<1> USE DEF Run!Init
<1>1. Cardinality({}) = 0
  BY FS_EmptySet
<1>2. SessionTyped
  BY <1>1 DEF Run!SessionAssumption, SessionTyped, RowTyped, QueueTyped, WorkerTyped, TraceTyped, Commands,
     Run!AllOps, Run!States, Responses, Run!Driving
<1>3. Order /\ Serving /\ Launched /\ Debuggee /\ Held
  BY DEF Order, Run!InOrder, Serving, Launched, Debuggee, Held, Executing, Posted
<1>4. Ends /\ Replies /\ Answers /\ Tracing
  BY DEF Ends, Fate, Replies, Answers, Tracing, Run!SessionAssumption
<1> QED BY <1>2, <1>3, <1>4 DEF SInv

\* The record, the queue, the responses and the debuggee of a session keep
\* together, wherever its one worker dies (runtime.cpp:1458-1848).
THEOREM SessionInvariant == OneWorker /\ Run!SessionAssumption => (Run!Spec => []SInv)
<1> SUFFICES ASSUME OneWorker, Run!SessionAssumption PROVE Run!Spec => []SInv
  OBVIOUS
<1>1. Run!Init => SInv
  BY SInitInv
<1>2. SInv /\ [Run!Next]_Run!vars => SInv'
  <2> SUFFICES ASSUME SInv, [Run!Next]_Run!vars PROVE SInv'
    OBVIOUS
  <2>1. CASE UNCHANGED Run!vars
    BY <2>1, StillKeeps, Types DEF Run!vars, QueueTyped
  <2>2. CASE Run!Ages
    BY <2>2, StillKeeps DEF Run!Ages
  <2>3. CASE Run!Next
    BY <2>3, LaunchKeeps, <2>2, CancelKeeps, WorkerKeeps, CommandKeeps DEF Run!Next
  <2> QED BY <2>1, <2>3
<1> QED BY <1>1, <1>2, PTL DEF Run!Spec

\* The requests a worker has begun are the first of the queue, in its order,
\* each once (the ORDER BY rowid LIMIT 1 of the worker's loop).
THEOREM RequestsGoInOrder == OneWorker /\ Run!SessionAssumption => (Run!Spec => []Run!InOrder)
<1>1. SInv => Run!InOrder
  BY DEF SInv, Order
<1> QED BY <1>1, SessionInvariant, PTL

\* A record that says detached, terminated or exited tells what became of the
\* debuggee (the loop's expiry, detach and terminate, and the save after the loop).
THEOREM RecordsEndTruly == OneWorker /\ Run!SessionAssumption => (Run!Spec => []Run!EndIsTrue)
<1>1. SInv => Run!EndIsTrue
  BY DEF SInv, Ends, Fate, Run!EndIsTrue
<1> QED BY <1>1, SessionInvariant, PTL

\* Who has read that a detach or a terminate was completed reads a record that
\* says so too: it is saved before the response is written.
THEOREM AnswersAreRecorded == OneWorker /\ Run!SessionAssumption => (Run!Spec => []Run!AnswerIsRecorded)
<1>1. SInv => Run!AnswerIsRecorded
  BY DEF SInv, Answers, EndOf, Run!AnswerIsRecorded
<1> QED BY <1>1, SessionInvariant, PTL

\* A request stays running only when its worker died: an error becomes a failed
\* response.
THEOREM NothingIsHalfDone == OneWorker /\ Run!SessionAssumption => (Run!Spec => []Run!NoneHalfDone)
<1>1. SInv => Run!NoneHalfDone
  BY DEF SInv, Serving, Executing, Run!NoneHalfDone
<1> QED BY <1>1, SessionInvariant, PTL

\* After runtime cancel a trace steps at most one instruction more: each is
\* preceded by a look at the counter.
THEOREM CancelsAreSeen == OneWorker /\ Run!SessionAssumption => (Run!Spec => []Run!CancelStopsTrace)
<1>1. SInv => Run!CancelStopsTrace
  BY DEF SInv, Tracing, Run!CancelStopsTrace
<1> QED BY <1>1, SessionInvariant, PTL

\* The rows, the worker and the debuggee keep their types; the record is one row
\* or none.
THEOREM SessionTypes == OneWorker /\ Run!SessionAssumption => (Run!Spec => []Run!TypeOK)
<1>1. Run!Cardinality(row) = Cardinality(row)
  BY Zenon DEF Run!Cardinality, Cardinality
<1>2. SInv => Run!TypeOK
  BY <1>1 DEF SInv, SessionTyped, RowTyped, QueueTyped, WorkerTyped, TraceTyped, Run!TypeOK, Commands, Responses
<1> QED BY <1>2, SessionInvariant, PTL

-----------------------------------------------------------------------------

(* Guests.                                                                 *)

Admitting == {"idle", "stage", "first"}
Preparing == {"note", "create", "start"}
Ending == {"wait", "collect", "publish", "gone"}

Verdicts == {"none", "starting", "failed", "completed", "partial", "interrupted"}

ReceiptsTyped ==
  receipt \in [Runs -> Guest!Receipts] /\ guestMine \in [Runs -> Guest!Receipts] /\ reading \in [Runs -> SUBSET Guest!Receipts]

RunsTyped ==
  /\ guestPc \in [Runs -> {"idle", "stage", "first", "note", "create", "start", "drive", "wait",
                      "collect", "publish", "gone"}]
  /\ mode \in [Runs -> {"normal", "record", "replay"}] /\ previous \in [Runs -> Runs \cup {None}]
  /\ unit \in [Runs -> {"none", "active", "ended"}]
  /\ exit \in [Runs -> {"none", "ok", "killed", "uncertain"}]
  /\ guestCancel \in [Runs -> BOOLEAN] /\ staging \in [Runs -> BOOLEAN] /\ overlay \in [Runs -> BOOLEAN]
  /\ log \in [Runs -> BOOLEAN] /\ guestLate \in [Runs -> BOOLEAN] /\ changed \in BOOLEAN

(* Where a run's process stands, and what it has written of itself.        *)
GuestPhases ==
  \A r \in Runs :
    /\ guestPc[r] \in Admitting => receipt[r] = Guest!Blank /\ guestMine[r] = Guest!Blank
    /\ guestPc[r] \in Preparing \cup {"drive"} => guestMine[r].status = "starting"
    /\ guestPc[r] \in Admitting \cup Preparing => unit[r] = "none"
    /\ guestMine[r].status = "completed" => guestMine[r].steps = NActions
    /\ guestPc[r] = "publish" /\ guestMine[r].status = "completed" => exit[r] = "ok"
    /\ receipt[r].noted => guestPc[r] \notin Admitting

(* A unit that is over stays so, and who says so had seen it.              *)
UnitsOver ==
  \A r \in Runs :
    /\ guestLate[r] => unit[r] # "active" /\ guestPc[r] \in Ending
    /\ reading[r] # {} => guestLate[r]
    /\ guestPc[r] = "collect" /\ exit[r] # "uncertain" => unit[r] = "ended"
    /\ guestMine[r].stopped => unit[r] = "ended" /\ guestPc[r] \in {"publish", "gone"}
    /\ receipt[r].stopped => unit[r] # "active" /\ guestPc[r] \in Ending

GuestInv == ReceiptsTyped /\ RunsTyped /\ GuestPhases /\ UnitsOver /\ Guest!RetainedIsStill

(* What a receipt is after one of its fields is written.                   *)
LEMMA BlankIs ==
  ASSUME Guest!GuestAssumption
  PROVE  /\ Guest!Blank \in Guest!Receipts /\ Guest!Blank.status = "none" /\ ~Guest!Blank.noted /\ ~Guest!Blank.stopped /\ Guest!Blank.steps = 0
BY DEF Guest!GuestAssumption, Guest!Receipts, Guest!Blank

LEMMA WithStatus ==
  ASSUME NEW c \in Guest!Receipts, NEW s \in Verdicts
  PROVE  LET d == [c EXCEPT !.status = s]
         IN  d \in Guest!Receipts /\ d.status = s /\ d.noted = c.noted /\ d.stopped = c.stopped /\ d.steps = c.steps
BY DEF Guest!Receipts, Verdicts

LEMMA WithEnd ==
  ASSUME NEW c \in Guest!Receipts, NEW s \in Verdicts, NEW b \in BOOLEAN
  PROVE  LET d == [c EXCEPT !.status = s, !.stopped = b]
         IN  d \in Guest!Receipts /\ d.status = s /\ d.noted = c.noted /\ d.stopped = b /\ d.steps = c.steps
BY DEF Guest!Receipts, Verdicts

LEMMA WithNote ==
  ASSUME NEW c \in Guest!Receipts
  PROVE  LET d == [c EXCEPT !.noted = TRUE]
         IN  d \in Guest!Receipts /\ d.status = c.status /\ d.noted /\ d.stopped = c.stopped /\ d.steps = c.steps
BY DEF Guest!Receipts, Verdicts

LEMMA WithStep ==
  ASSUME NEW c \in Guest!Receipts, c.steps < NActions, NActions \in Nat
  PROVE  LET d == [c EXCEPT !.steps = @ + 1]
         IN  d \in Guest!Receipts /\ d.status = c.status /\ d.noted = c.noted /\ d.stopped = c.stopped /\ d.steps = c.steps + 1
BY DEF Guest!Receipts, Verdicts

(* The other runs are left alone.                                          *)
RestIs(r) == \A q \in Runs \ {r} :
  guestPc'[q] = guestPc[q] /\ receipt'[q] = receipt[q] /\ guestMine'[q] = guestMine[q] /\ reading'[q] = reading[q]

LEMMA GuestFacts ==
  ASSUME GuestInv
  PROVE  ReceiptsTyped /\ RunsTyped /\ GuestPhases /\ UnitsOver /\ Guest!RetainedIsStill
BY DEF GuestInv

(* What each action that writes a receipt does to it.                      *)
LEMMA FirstReceiptSays ==
  ASSUME Guest!GuestAssumption, GuestInv, NEW r \in Runs, Guest!FirstReceipt(r)
  PROVE  /\ ReceiptsTyped'
         /\ RestIs(r)
         /\ guestPc[r] = "first"
         /\ guestPc'[r] = "note"
         /\ guestMine'[r].status = "starting"
         /\ ~guestMine'[r].noted
         /\ ~guestMine'[r].stopped
         /\ receipt'[r] = guestMine'[r]
         /\ reading'[r] = reading[r]
         /\ UNCHANGED <<unit, exit, overlay, log, guestLate>>
<1> USE GuestFacts DEF ReceiptsTyped, RunsTyped
<1> DEFINE c == [Guest!Blank EXCEPT !.status = "starting"]
<1>1. c \in Guest!Receipts /\ c.status = "starting" /\ ~c.noted /\ ~c.stopped
  BY BlankIs DEF Guest!Receipts, Guest!GuestAssumption, Guest!FirstReceipt
<1>2. guestMine' = [guestMine EXCEPT ![r] = c] /\ receipt' = [receipt EXCEPT ![r] = c]
  BY DEF Guest!FirstReceipt, Guest!Persist
<1>3. UNCHANGED <<reading, unit, exit, overlay, log, guestLate>> /\ guestPc[r] = "first" /\ guestPc' = [guestPc EXCEPT ![r] = "note"]
  BY DEF Guest!FirstReceipt, Guest!Goto, Guest!Leave, Guest!files
<1> HIDE DEF c
<1> QED BY <1>1, <1>2, <1>3 DEF RestIs

LEMMA NoteSays ==
  ASSUME Guest!GuestAssumption, GuestInv, NEW r \in Runs, Guest!Note(r)
  PROVE  /\ ReceiptsTyped'
         /\ RestIs(r)
         /\ guestPc[r] = "note"
         /\ guestPc'[r] = "create"
         /\ guestMine'[r].status = guestMine[r].status
         /\ guestMine'[r].stopped = guestMine[r].stopped
         /\ guestMine'[r].steps = guestMine[r].steps
         /\ receipt'[r] = guestMine'[r]
         /\ reading'[r] = reading[r]
         /\ UNCHANGED <<unit, exit, overlay, log, guestLate>>
<1> USE GuestFacts DEF ReceiptsTyped, RunsTyped
<1> DEFINE c == [guestMine[r] EXCEPT !.noted = TRUE]
<1>1. c \in Guest!Receipts /\ c.status = guestMine[r].status /\ c.stopped = guestMine[r].stopped /\ c.steps = guestMine[r].steps
  BY WithNote
<1>2. guestMine' = [guestMine EXCEPT ![r] = c] /\ receipt' = [receipt EXCEPT ![r] = c]
  BY DEF Guest!Note, Guest!Persist
<1>3. UNCHANGED <<reading, unit, exit, overlay, log, guestLate>> /\ guestPc[r] = "note" /\ guestPc' = [guestPc EXCEPT ![r] = "create"]
  BY DEF Guest!Note, Guest!Goto, Guest!Leave, Guest!files
<1> HIDE DEF c
<1> QED BY <1>1, <1>2, <1>3 DEF RestIs

LEMMA ActSays ==
  ASSUME Guest!GuestAssumption, GuestInv, NEW r \in Runs, Guest!Act(r)
  PROVE  /\ ReceiptsTyped'
         /\ RestIs(r)
         /\ guestPc[r] = "drive"
         /\ guestMine'[r].status = guestMine[r].status
         /\ guestMine'[r].stopped = guestMine[r].stopped
         /\ guestMine'[r].noted = guestMine[r].noted
         /\ receipt'[r] = guestMine'[r]
         /\ reading'[r] = reading[r]
         /\ UNCHANGED <<guestPc, unit, exit, overlay, log, guestLate>>
<1> USE GuestFacts DEF ReceiptsTyped, RunsTyped
<1> DEFINE c == [guestMine[r] EXCEPT !.steps = @ + 1]
<1>1. c \in Guest!Receipts /\ c.status = guestMine[r].status /\ c.stopped = guestMine[r].stopped /\ c.noted = guestMine[r].noted
  <2>1. guestMine[r] \in Guest!Receipts /\ guestMine[r].steps < NActions /\ NActions \in Nat
    BY DEF Guest!Act, Guest!GuestAssumption
  <2> QED BY <2>1, WithStep
<1>2. guestMine' = [guestMine EXCEPT ![r] = c] /\ receipt' = [receipt EXCEPT ![r] = c]
  BY DEF Guest!Act, Guest!Persist
<1>3. UNCHANGED <<reading, unit, exit, overlay, log, guestLate>> /\ guestPc[r] = "drive" /\ UNCHANGED guestPc
  BY DEF Guest!Act, Guest!Goto, Guest!Leave, Guest!files
<1> HIDE DEF c
<1> QED BY <1>1, <1>2, <1>3 DEF RestIs

LEMMA QuitSays ==
  ASSUME Guest!GuestAssumption, GuestInv, NEW r \in Runs, Guest!Quit(r)
  PROVE  /\ ReceiptsTyped'
         /\ RestIs(r)
         /\ guestPc[r] = "drive"
         /\ guestPc'[r] = "wait"
         /\ guestMine'[r].status = "completed"
         /\ guestMine'[r].stopped = guestMine[r].stopped
         /\ guestMine'[r].steps = NActions
         /\ receipt'[r] = receipt[r]
         /\ reading'[r] = reading[r]
         /\ UNCHANGED <<unit, exit, overlay, log, guestLate>>
<1> USE GuestFacts DEF ReceiptsTyped, RunsTyped
<1> DEFINE c == [guestMine[r] EXCEPT !.status = "completed"]
<1>1. c \in Guest!Receipts /\ c.status = "completed" /\ c.stopped = guestMine[r].stopped /\ c.steps = NActions
  BY WithStatus DEF Guest!Quit, Verdicts
<1>2. guestMine' = [guestMine EXCEPT ![r] = c] /\ receipt' = receipt
  BY DEF Guest!Quit, Guest!Persist
<1>3. UNCHANGED <<reading, unit, exit, overlay, log, guestLate>> /\ guestPc[r] = "drive" /\ guestPc' = [guestPc EXCEPT ![r] = "wait"]
  BY DEF Guest!Quit, Guest!Goto, Guest!Leave, Guest!files
<1> HIDE DEF c
<1> QED BY <1>1, <1>2, <1>3 DEF RestIs

LEMMA FailSays ==
  ASSUME Guest!GuestAssumption, GuestInv, NEW r \in Runs, Guest!Fail(r)
  PROVE  /\ ReceiptsTyped'
         /\ RestIs(r)
         /\ guestPc[r] = "drive"
         /\ guestPc'[r] = "wait"
         /\ guestMine'[r].status = "partial"
         /\ guestMine'[r].stopped = guestMine[r].stopped
         /\ receipt'[r] = receipt[r]
         /\ reading'[r] = reading[r]
         /\ UNCHANGED <<unit, exit, overlay, log, guestLate>>
<1> USE GuestFacts DEF ReceiptsTyped, RunsTyped
<1> DEFINE c == [guestMine[r] EXCEPT !.status = "partial"]
<1>1. c \in Guest!Receipts /\ c.status = "partial" /\ c.stopped = guestMine[r].stopped
  BY WithStatus DEF Verdicts
<1>2. guestMine' = [guestMine EXCEPT ![r] = c] /\ receipt' = receipt
  BY DEF Guest!Fail, Guest!Persist
<1>3. UNCHANGED <<reading, unit, exit, overlay, log, guestLate>> /\ guestPc[r] = "drive" /\ guestPc' = [guestPc EXCEPT ![r] = "wait"]
  BY DEF Guest!Fail, Guest!Goto, Guest!Leave, Guest!files
<1> HIDE DEF c
<1> QED BY <1>1, <1>2, <1>3 DEF RestIs

LEMMA CollectSays ==
  ASSUME Guest!GuestAssumption, GuestInv, NEW r \in Runs, Guest!Collect(r)
  PROVE  /\ ReceiptsTyped'
         /\ RestIs(r)
         /\ guestPc[r] = "collect"
         /\ guestPc'[r] = "publish"
         /\ guestMine'[r].status = Guest!Verdict(r)
         /\ (guestMine'[r].stopped => Guest!Stopped(r))
         /\ guestMine'[r].steps = guestMine[r].steps
         /\ receipt'[r] = receipt[r]
         /\ reading'[r] = reading[r]
         /\ UNCHANGED <<unit, exit, guestLate>>
         /\ \A q \in Runs : overlay'[q] \/ log'[q] => overlay[q] \/ log[q] \/ (q = r /\ Guest!Stopped(r))
<1> USE GuestFacts DEF ReceiptsTyped, RunsTyped
<1> DEFINE c == [guestMine[r] EXCEPT !.status = Guest!Verdict(r), !.stopped = Guest!Stopped(r)]
<1>1. c \in Guest!Receipts /\ c.status = Guest!Verdict(r) /\ (c.stopped => Guest!Stopped(r)) /\ c.steps = guestMine[r].steps
  <2>1. guestMine[r] \in Guest!Receipts /\ guestMine[r].status \in Verdicts
    BY DEF Guest!Receipts, Verdicts
  <2> DEFINE s == Guest!Verdict(r)
             b == Guest!Stopped(r)
  <2>2. s \in Verdicts /\ b \in BOOLEAN
    BY <2>1 DEF Guest!Verdict, Guest!Stopped, Verdicts
  <2> HIDE DEF s, b
  <2>3. LET d == [guestMine[r] EXCEPT !.status = s, !.stopped = b]
        IN  d \in Guest!Receipts /\ d.status = s /\ (d.stopped => b) /\ d.steps = guestMine[r].steps
    BY <2>1, <2>2 DEF Guest!Receipts, Verdicts
  <2> QED BY <2>3 DEF s, b
<1>2. guestMine' = [guestMine EXCEPT ![r] = c] /\ receipt' = receipt
  BY DEF Guest!Collect, Guest!Persist
<1>3. UNCHANGED <<reading, unit, exit, guestLate>> /\ guestPc[r] = "collect" /\ guestPc' = [guestPc EXCEPT ![r] = "publish"] /\ \A q \in Runs : overlay'[q] \/ log'[q] => overlay[q] \/ log[q] \/ (q = r /\ Guest!Stopped(r))
  BY DEF Guest!Collect, Guest!Goto, Guest!Leave, Guest!files
<1> HIDE DEF c
<1> QED BY <1>1, <1>2, <1>3 DEF RestIs

LEMMA CreateSays ==
  ASSUME Guest!GuestAssumption, GuestInv, NEW r \in Runs, Guest!Create(r)
  PROVE  /\ ReceiptsTyped' /\ RestIs(r) /\ guestPc[r] = "create" /\ UNCHANGED <<reading, unit, exit, overlay, log, guestLate>>
         /\ \/ guestPc'[r] = "start" /\ UNCHANGED <<receipt, guestMine>>
            \/ /\ guestPc'[r] = "gone" /\ receipt'[r] = guestMine'[r] /\ guestMine'[r].status = "failed"
               /\ guestMine'[r].stopped = guestMine[r].stopped
<1> USE GuestFacts DEF ReceiptsTyped, RunsTyped
<1> DEFINE c == [guestMine[r] EXCEPT !.status = "failed"]
<1>1. c \in Guest!Receipts /\ c.status = "failed" /\ c.stopped = guestMine[r].stopped
  BY WithStatus DEF Verdicts
<1>2. /\ guestPc[r] = "create" /\ UNCHANGED <<reading, unit, exit, overlay, log, guestLate>>
      /\ \/ guestPc' = [guestPc EXCEPT ![r] = "start"] /\ UNCHANGED <<receipt, guestMine>>
         \/ /\ guestPc' = [guestPc EXCEPT ![r] = "gone"]
            /\ guestMine' = [guestMine EXCEPT ![r] = c] /\ receipt' = [receipt EXCEPT ![r] = c]
  BY DEF Guest!Create, Guest!Goto, Guest!Leave, Guest!Persist
<1> HIDE DEF c
<1> QED BY <1>1, <1>2 DEF RestIs

LEMMA PublishSays ==
  ASSUME Guest!GuestAssumption, GuestInv, NEW r \in Runs, Guest!Publish(r)
  PROVE  /\ ReceiptsTyped' /\ RestIs(r) /\ guestPc[r] = "publish" /\ guestPc'[r] = "gone"
         /\ UNCHANGED <<reading, unit, exit, overlay, log, guestLate>>
         /\ \/ UNCHANGED <<receipt, guestMine>>
            \/ /\ receipt'[r] = guestMine'[r]
               /\ guestMine'[r].stopped = guestMine[r].stopped /\ guestMine'[r].steps = guestMine[r].steps
               /\ guestMine'[r].status = "partial" \/ (guestMine'[r] = guestMine[r] /\ ~changed)
<1> USE GuestFacts DEF ReceiptsTyped, RunsTyped
<1> DEFINE c == IF changed THEN [guestMine[r] EXCEPT !.status = "partial"] ELSE guestMine[r]
<1>1. /\ c \in Guest!Receipts /\ c.stopped = guestMine[r].stopped /\ c.steps = guestMine[r].steps
      /\ c.status = "partial" \/ (c = guestMine[r] /\ ~changed)
  <2>1. CASE changed
    <3>1. c = [guestMine[r] EXCEPT !.status = "partial"]
      BY <2>1
    <3> HIDE DEF c
    <3> QED BY <3>1, WithStatus DEF Verdicts
  <2>2. CASE ~changed
    BY <2>2
  <2> QED BY <2>1, <2>2
<1>2. /\ guestPc[r] = "publish" /\ guestPc' = [guestPc EXCEPT ![r] = "gone"] /\ UNCHANGED <<reading, unit, exit, overlay, log, guestLate>>
      /\ \/ UNCHANGED <<receipt, guestMine>>
         \/ guestMine' = [guestMine EXCEPT ![r] = c] /\ receipt' = [receipt EXCEPT ![r] = c]
  BY DEF Guest!Publish, Guest!Goto, Guest!Leave, Guest!Persist
<1> HIDE DEF c
<1> QED BY <1>1, <1>2 DEF RestIs

LEMMA ReconcileWriteSays ==
  ASSUME Guest!GuestAssumption, GuestInv, NEW r \in Runs, Guest!ReconcileWrite(r)
  PROVE  /\ ReceiptsTyped' /\ RestIs(r) /\ reading[r] # {} /\ reading'[r] = {}
         /\ receipt'[r].status = "interrupted" /\ UNCHANGED <<guestPc, guestMine, unit, exit, overlay, log, guestLate>>
<1> USE GuestFacts DEF ReceiptsTyped, RunsTyped
<1>1. PICK d \in reading[r] :
        receipt' = [receipt EXCEPT ![r] = [d EXCEPT !.status = "interrupted", !.stopped = TRUE]]
  BY DEF Guest!ReconcileWrite
<1> DEFINE c == [d EXCEPT !.status = "interrupted", !.stopped = TRUE]
<1>2. c \in Guest!Receipts /\ c.status = "interrupted"
  BY WithEnd DEF Verdicts
<1>3. /\ receipt' = [receipt EXCEPT ![r] = c] /\ reading' = [reading EXCEPT ![r] = {}]
      /\ UNCHANGED <<guestPc, guestMine, unit, exit, overlay, log, guestLate>>
  BY <1>1 DEF Guest!ReconcileWrite, Guest!files
<1> HIDE DEF c
<1> QED BY <1>2, <1>3 DEF RestIs

LEMMA GuestKeepsTypes ==
  ASSUME Guest!GuestAssumption, GuestInv, NEW r \in Runs,
         Guest!Process(r) \/ Guest!Crash(r) \/ (\E how \in {"ok", "killed"} : Guest!UnitEnds(r, how))
         \/ Guest!Cancel(r) \/ Guest!Deadline(r) \/ Guest!ReconcileRead(r) \/ Guest!ReconcileWrite(r) \/ Guest!Prune(r) \/ Guest!Change
  PROVE  RunsTyped'
<1> USE GuestFacts DEF RunsTyped, Guest!GuestAssumption
<1>1. CASE \E m \in Modes : \E p \in Runs \cup {None} : Guest!Admit(r, m, p)
  BY <1>1 DEF Guest!Admit, Guest!Goto, Guest!request, Guest!files
<1>2. CASE Guest!Stage(r)
  BY <1>2 DEF Guest!Stage, Guest!Goto, Guest!request, Guest!files
<1>3. CASE Guest!FirstReceipt(r)
  BY <1>3 DEF Guest!FirstReceipt, Guest!Persist, Guest!Goto, Guest!request, Guest!files
<1>4. CASE Guest!Note(r)
  BY <1>4 DEF Guest!Note, Guest!Persist, Guest!Goto, Guest!request, Guest!files
<1>5. CASE Guest!Create(r)
  BY <1>5 DEF Guest!Create, Guest!Persist, Guest!Goto, Guest!Leave, Guest!request, Guest!files
<1>6. CASE Guest!StartUnit(r)
  <2>1. /\ \E p \in {"drive", "gone"} : guestPc' = [guestPc EXCEPT ![r] = p]
        /\ unit' = [unit EXCEPT ![r] = "active"] \/ UNCHANGED unit
        /\ staging' = [staging EXCEPT ![r] = FALSE] \/ UNCHANGED staging
        /\ UNCHANGED <<mode, previous, exit, guestCancel, overlay, log, guestLate, changed>>
    BY <1>6 DEF Guest!StartUnit, Guest!Goto, Guest!Leave, Guest!request
  <2>2. /\ guestPc' \in [Runs -> {"idle", "stage", "first", "note", "create", "start", "drive", "wait",
                            "collect", "publish", "gone"}]
    BY <2>1
  <2>3. unit' \in [Runs -> {"none", "active", "ended"}]
    BY <2>1
  <2>4. staging' \in [Runs -> BOOLEAN]
    BY <2>1
  <2> QED BY <2>1, <2>2, <2>3, <2>4
<1>7. CASE Guest!Act(r)
  BY <1>7 DEF Guest!Act, Guest!Persist, Guest!request, Guest!files
<1>8. CASE Guest!Quit(r)
  BY <1>8 DEF Guest!Quit, Guest!Goto, Guest!request, Guest!files
<1>9. CASE Guest!Fail(r)
  BY <1>9 DEF Guest!Fail, Guest!Goto, Guest!request, Guest!files
<1>10. CASE Guest!GiveUp(r)
  BY <1>10 DEF Guest!GiveUp, Guest!Goto, Guest!request, Guest!files
<1>11. CASE Guest!Wait(r)
  BY <1>11 DEF Guest!Wait, Guest!Goto, Guest!request, Guest!files
<1>12. CASE Guest!Collect(r)
  BY <1>12 DEF Guest!Collect, Guest!Goto, Guest!Verdict, Guest!Stopped, Guest!request, Guest!files
<1>13. CASE Guest!Publish(r)
  BY <1>13 DEF Guest!Publish, Guest!Persist, Guest!Leave, Guest!Goto, Guest!request, Guest!files
<1>14. CASE Guest!Crash(r)
  BY <1>14 DEF Guest!Crash, Guest!Goto, Guest!request, Guest!files
<1>15. CASE Guest!Cancel(r)
  BY <1>15 DEF Guest!Cancel, Guest!request, Guest!files
<1>16. CASE Guest!Deadline(r)
  BY <1>16 DEF Guest!Deadline, Guest!request, Guest!files
<1>17. CASE Guest!ReconcileRead(r)
  BY <1>17 DEF Guest!ReconcileRead, Guest!UnitOver, Guest!request, Guest!files
<1>18. CASE Guest!ReconcileWrite(r)
  BY <1>18 DEF Guest!ReconcileWrite, Guest!request, Guest!files
<1>19. CASE Guest!Prune(r)
  BY <1>19 DEF Guest!Prune, Guest!request, Guest!files
<1>20. CASE \E how \in {"ok", "killed"} : Guest!UnitEnds(r, how)
  BY <1>20 DEF Guest!UnitEnds, Guest!request, Guest!files
<1>21. CASE Guest!Change
  BY <1>21 DEF Guest!Change, Guest!request, Guest!files
<1> QED
  BY <1>1, <1>2, <1>3, <1>4, <1>5, <1>6, <1>7, <1>8, <1>9, <1>10, <1>11, <1>12, <1>13, <1>14, <1>15, <1>16,
     <1>17, <1>18, <1>19, <1>20, <1>21 DEF Guest!Process

LEMMA GuestKeepsReceipts ==
  ASSUME Guest!GuestAssumption, GuestInv, NEW r \in Runs,
         Guest!Process(r) \/ Guest!Crash(r) \/ (\E how \in {"ok", "killed"} : Guest!UnitEnds(r, how))
         \/ Guest!Cancel(r) \/ Guest!Deadline(r) \/ Guest!ReconcileRead(r) \/ Guest!ReconcileWrite(r) \/ Guest!Prune(r) \/ Guest!Change
  PROVE  ReceiptsTyped'
<1> USE GuestFacts DEF ReceiptsTyped, Guest!GuestAssumption
<1>1. CASE \E m \in Modes : \E p \in Runs \cup {None} : Guest!Admit(r, m, p)
  BY <1>1 DEF Guest!Admit, Guest!Goto, Guest!request, Guest!files, GuestPhases
<1>2. CASE Guest!Stage(r)
  BY <1>2 DEF Guest!Stage, Guest!Goto, Guest!request, Guest!files, GuestPhases
<1>3. CASE Guest!FirstReceipt(r)
  BY <1>3, FirstReceiptSays
<1>4. CASE Guest!Note(r)
  BY <1>4, NoteSays
<1>5. CASE Guest!Create(r)
  BY <1>5, CreateSays
<1>6. CASE Guest!StartUnit(r)
  BY <1>6 DEF Guest!StartUnit, Guest!Goto, Guest!Leave, Guest!request, Guest!files, GuestPhases
<1>7. CASE Guest!Act(r)
  BY <1>7, ActSays
<1>8. CASE Guest!Quit(r)
  BY <1>8, QuitSays
<1>9. CASE Guest!Fail(r)
  BY <1>9, FailSays
<1>10. CASE Guest!GiveUp(r)
  BY <1>10 DEF Guest!GiveUp, Guest!Goto, Guest!request, Guest!files, GuestPhases
<1>11. CASE Guest!Wait(r)
  BY <1>11 DEF Guest!Wait, Guest!Goto, Guest!request, Guest!files, GuestPhases
<1>12. CASE Guest!Collect(r)
  BY <1>12, CollectSays
<1>13. CASE Guest!Publish(r)
  BY <1>13, PublishSays
<1>14. CASE Guest!Crash(r)
  BY <1>14 DEF Guest!Crash, Guest!Goto, Guest!request, Guest!files, GuestPhases
<1>15. CASE Guest!Cancel(r)
  BY <1>15 DEF Guest!Cancel, Guest!request, Guest!files, GuestPhases
<1>16. CASE Guest!Deadline(r)
  BY <1>16 DEF Guest!Deadline, Guest!request, Guest!files, GuestPhases
<1>17. CASE Guest!ReconcileRead(r)
  BY <1>17 DEF Guest!ReconcileRead, Guest!UnitOver, Guest!request, Guest!files, GuestPhases
<1>18. CASE Guest!ReconcileWrite(r)
  BY <1>18, ReconcileWriteSays
<1>19. CASE Guest!Prune(r)
  BY <1>19 DEF Guest!Prune, Guest!request, Guest!files, GuestPhases
<1>20. CASE \E how \in {"ok", "killed"} : Guest!UnitEnds(r, how)
  BY <1>20 DEF Guest!UnitEnds, Guest!request, Guest!files, GuestPhases
<1>21. CASE Guest!Change
  BY <1>21 DEF Guest!Change, Guest!request, Guest!files, GuestPhases
<1> QED
  BY <1>1, <1>2, <1>3, <1>4, <1>5, <1>6, <1>7, <1>8, <1>9, <1>10, <1>11, <1>12, <1>13, <1>14, <1>15, <1>16,
     <1>17, <1>18, <1>19, <1>20, <1>21 DEF Guest!Process

LEMMA GuestKeepsPhases ==
  ASSUME Guest!GuestAssumption, GuestInv, NEW r \in Runs,
         Guest!Process(r) \/ Guest!Crash(r) \/ (\E how \in {"ok", "killed"} : Guest!UnitEnds(r, how))
         \/ Guest!Cancel(r) \/ Guest!Deadline(r) \/ Guest!ReconcileRead(r) \/ Guest!ReconcileWrite(r) \/ Guest!Prune(r) \/ Guest!Change
  PROVE  GuestPhases'
<1> USE GuestFacts DEF GuestPhases, ReceiptsTyped, RunsTyped
<1>1. CASE \E m \in Modes : \E p \in Runs \cup {None} : Guest!Admit(r, m, p)
  BY <1>1 DEF Guest!Admit, Guest!Goto, Guest!request, Guest!files, Guest!Blank, Admitting, Preparing
<1>2. CASE Guest!Stage(r)
  BY <1>2 DEF Guest!Stage, Guest!Goto, Guest!request, Guest!files, Guest!Blank, Admitting, Preparing
<1>3. CASE Guest!FirstReceipt(r)
  BY <1>3, FirstReceiptSays DEF Admitting, Preparing, RestIs
<1>4. CASE Guest!Note(r)
  BY <1>4, NoteSays DEF Admitting, Preparing, RestIs
<1>5. CASE Guest!Create(r)
  BY <1>5, CreateSays DEF Admitting, Preparing, RestIs
<1>6. CASE Guest!StartUnit(r)
  BY <1>6 DEF Guest!StartUnit, Guest!Goto, Guest!Leave, Guest!request, Guest!files, Guest!Blank, Admitting,
     Preparing
<1>7. CASE Guest!Act(r)
  BY <1>7, ActSays DEF Admitting, Preparing, RestIs
<1>8. CASE Guest!Quit(r)
  BY <1>8, QuitSays DEF Admitting, Preparing, RestIs
<1>9. CASE Guest!Fail(r)
  BY <1>9, FailSays DEF Admitting, Preparing, RestIs
<1>10. CASE Guest!GiveUp(r)
  BY <1>10 DEF Guest!GiveUp, Guest!Goto, Guest!request, Guest!files, Guest!Blank, Admitting, Preparing
<1>11. CASE Guest!Wait(r)
  BY <1>11 DEF Guest!Wait, Guest!Goto, Guest!request, Guest!files, Guest!Blank, Admitting, Preparing
<1>12. CASE Guest!Collect(r)
  BY <1>12, CollectSays DEF Guest!Verdict, Guest!Stopped, Admitting, Preparing, RestIs
<1>13. CASE Guest!Publish(r)
  BY <1>13, PublishSays DEF Admitting, Preparing, RestIs
<1>14. CASE Guest!Crash(r)
  BY <1>14 DEF Guest!Crash, Guest!Goto, Guest!request, Guest!files, Guest!Blank, Admitting, Preparing
<1>15. CASE Guest!Cancel(r)
  BY <1>15 DEF Guest!Cancel, Guest!request, Guest!files, Guest!Blank, Admitting, Preparing
<1>16. CASE Guest!Deadline(r)
  BY <1>16 DEF Guest!Deadline, Guest!request, Guest!files, Guest!Blank, Admitting, Preparing
<1>17. CASE Guest!ReconcileRead(r)
  BY <1>17 DEF Guest!ReconcileRead, Guest!UnitOver, Guest!request, Guest!files, Guest!Blank, Admitting,
     Preparing
<1>18. CASE Guest!ReconcileWrite(r)
  BY <1>18, ReconcileWriteSays DEF Admitting, Preparing, UnitsOver, Ending, RestIs
<1>19. CASE Guest!Prune(r)
  BY <1>19 DEF Guest!Prune, Guest!request, Guest!files, Guest!Blank, Admitting, Preparing
<1>20. CASE \E how \in {"ok", "killed"} : Guest!UnitEnds(r, how)
  BY <1>20 DEF Guest!UnitEnds, Guest!request, Guest!files, Guest!Blank, Admitting, Preparing
<1>21. CASE Guest!Change
  BY <1>21 DEF Guest!Change, Guest!request, Guest!files, Guest!Blank, Admitting, Preparing
<1> QED
  BY <1>1, <1>2, <1>3, <1>4, <1>5, <1>6, <1>7, <1>8, <1>9, <1>10, <1>11, <1>12, <1>13, <1>14, <1>15, <1>16,
     <1>17, <1>18, <1>19, <1>20, <1>21 DEF Guest!Process

LEMMA GuestKeepsOver ==
  ASSUME Guest!GuestAssumption, GuestInv, NEW r \in Runs,
         Guest!Process(r) \/ Guest!Crash(r) \/ (\E how \in {"ok", "killed"} : Guest!UnitEnds(r, how))
         \/ Guest!Cancel(r) \/ Guest!Deadline(r) \/ Guest!ReconcileRead(r) \/ Guest!ReconcileWrite(r) \/ Guest!Prune(r) \/ Guest!Change
  PROVE  UnitsOver'
<1> USE GuestFacts DEF UnitsOver, ReceiptsTyped, RunsTyped
<1>1. CASE \E m \in Modes : \E p \in Runs \cup {None} : Guest!Admit(r, m, p)
  BY <1>1 DEF Guest!Admit, Guest!Goto, Guest!request, Guest!files, GuestPhases, Admitting, Preparing, Ending,
     Guest!Blank
<1>2. CASE Guest!Stage(r)
  BY <1>2 DEF Guest!Stage, Guest!Goto, Guest!request, Guest!files, GuestPhases, Admitting, Preparing, Ending,
     Guest!Blank
<1>3. CASE Guest!FirstReceipt(r)
  BY <1>3, FirstReceiptSays DEF GuestPhases, Admitting, Preparing, Ending, RestIs
<1>4. CASE Guest!Note(r)
  BY <1>4, NoteSays DEF GuestPhases, Admitting, Preparing, Ending, RestIs
<1>5. CASE Guest!Create(r)
  BY <1>5, CreateSays DEF GuestPhases, Admitting, Preparing, Ending, RestIs
<1>6. CASE Guest!StartUnit(r)
  BY <1>6 DEF Guest!StartUnit, Guest!Goto, Guest!Leave, Guest!request, Guest!files, GuestPhases, Admitting,
     Preparing, Ending, Guest!Blank
<1>7. CASE Guest!Act(r)
  BY <1>7, ActSays DEF GuestPhases, Admitting, Preparing, Ending, RestIs
<1>8. CASE Guest!Quit(r)
  BY <1>8, QuitSays DEF GuestPhases, Admitting, Preparing, Ending, RestIs
<1>9. CASE Guest!Fail(r)
  BY <1>9, FailSays DEF GuestPhases, Admitting, Preparing, Ending, RestIs
<1>10. CASE Guest!GiveUp(r)
  BY <1>10 DEF Guest!GiveUp, Guest!Goto, Guest!request, Guest!files, GuestPhases, Admitting, Preparing,
     Ending, Guest!Blank
<1>11. CASE Guest!Wait(r)
  BY <1>11 DEF Guest!Wait, Guest!Goto, Guest!request, Guest!files, GuestPhases, Admitting, Preparing, Ending,
     Guest!Blank
<1>12. CASE Guest!Collect(r)
  BY <1>12, CollectSays DEF Guest!Stopped, GuestPhases, Admitting, Preparing, Ending, RestIs
<1>13. CASE Guest!Publish(r)
  BY <1>13, PublishSays DEF GuestPhases, Admitting, Preparing, Ending, RestIs
<1>14. CASE Guest!Crash(r)
  BY <1>14 DEF Guest!Crash, Guest!Goto, Guest!request, Guest!files, GuestPhases, Admitting, Preparing,
     Ending, Guest!Blank
<1>15. CASE Guest!Cancel(r)
  BY <1>15 DEF Guest!Cancel, Guest!request, Guest!files, GuestPhases, Admitting, Preparing, Ending, Guest!Blank
<1>16. CASE Guest!Deadline(r)
  BY <1>16 DEF Guest!Deadline, Guest!request, Guest!files, GuestPhases, Admitting, Preparing, Ending,
     Guest!Blank
<1>17. CASE Guest!ReconcileRead(r)
  BY <1>17 DEF Guest!ReconcileRead, Guest!UnitOver, Guest!request, Guest!files, GuestPhases, Admitting,
     Preparing, Ending, Guest!Blank
<1>18. CASE Guest!ReconcileWrite(r)
  BY <1>18, ReconcileWriteSays DEF GuestPhases, Admitting, Preparing, Ending, RestIs
<1>19. CASE Guest!Prune(r)
  BY <1>19 DEF Guest!Prune, Guest!request, Guest!files, GuestPhases, Admitting, Preparing, Ending, Guest!Blank
<1>20. CASE \E how \in {"ok", "killed"} : Guest!UnitEnds(r, how)
  BY <1>20 DEF Guest!UnitEnds, Guest!request, Guest!files, GuestPhases, Admitting, Preparing, Ending,
     Guest!Blank
<1>21. CASE Guest!Change
  BY <1>21 DEF Guest!Change, Guest!request, Guest!files, GuestPhases, Admitting, Preparing, Ending, Guest!Blank
<1> QED
  BY <1>1, <1>2, <1>3, <1>4, <1>5, <1>6, <1>7, <1>8, <1>9, <1>10, <1>11, <1>12, <1>13, <1>14, <1>15, <1>16,
     <1>17, <1>18, <1>19, <1>20, <1>21 DEF Guest!Process

LEMMA GuestKeepsStill ==
  ASSUME Guest!GuestAssumption, GuestInv, NEW r \in Runs,
         Guest!Process(r) \/ Guest!Crash(r) \/ (\E how \in {"ok", "killed"} : Guest!UnitEnds(r, how))
         \/ Guest!Cancel(r) \/ Guest!Deadline(r) \/ Guest!ReconcileRead(r) \/ Guest!ReconcileWrite(r) \/ Guest!Prune(r) \/ Guest!Change
  PROVE  Guest!RetainedIsStill'
<1> USE GuestFacts DEF Guest!RetainedIsStill, RunsTyped
<1>1. CASE \E m \in Modes : \E p \in Runs \cup {None} : Guest!Admit(r, m, p)
  BY <1>1 DEF Guest!Admit, Guest!Goto, Guest!request, Guest!files, GuestPhases, UnitsOver, Admitting, Preparing
<1>2. CASE Guest!Stage(r)
  BY <1>2 DEF Guest!Stage, Guest!Goto, Guest!request, Guest!files, GuestPhases, UnitsOver, Admitting, Preparing
<1>3. CASE Guest!FirstReceipt(r)
  BY <1>3, FirstReceiptSays DEF GuestPhases, UnitsOver, Admitting, Preparing, RestIs
<1>4. CASE Guest!Note(r)
  BY <1>4, NoteSays DEF GuestPhases, UnitsOver, Admitting, Preparing, RestIs
<1>5. CASE Guest!Create(r)
  BY <1>5, CreateSays DEF GuestPhases, UnitsOver, Admitting, Preparing, RestIs
<1>6. CASE Guest!StartUnit(r)
  BY <1>6 DEF Guest!StartUnit, Guest!Goto, Guest!Leave, Guest!request, Guest!files, GuestPhases, UnitsOver,
     Admitting, Preparing
<1>7. CASE Guest!Act(r)
  BY <1>7, ActSays DEF GuestPhases, UnitsOver, Admitting, Preparing, RestIs
<1>8. CASE Guest!Quit(r)
  BY <1>8, QuitSays DEF GuestPhases, UnitsOver, Admitting, Preparing, RestIs
<1>9. CASE Guest!Fail(r)
  BY <1>9, FailSays DEF GuestPhases, UnitsOver, Admitting, Preparing, RestIs
<1>10. CASE Guest!GiveUp(r)
  BY <1>10 DEF Guest!GiveUp, Guest!Goto, Guest!request, Guest!files, GuestPhases, UnitsOver, Admitting,
     Preparing
<1>11. CASE Guest!Wait(r)
  BY <1>11 DEF Guest!Wait, Guest!Goto, Guest!request, Guest!files, GuestPhases, UnitsOver, Admitting, Preparing
<1>12. CASE Guest!Collect(r)
  BY <1>12, CollectSays DEF Guest!Verdict, Guest!Stopped, GuestPhases, UnitsOver, Admitting, Preparing, RestIs
<1>13. CASE Guest!Publish(r)
  BY <1>13, PublishSays DEF GuestPhases, UnitsOver, Admitting, Preparing, RestIs
<1>14. CASE Guest!Crash(r)
  BY <1>14 DEF Guest!Crash, Guest!Goto, Guest!request, Guest!files, GuestPhases, UnitsOver, Admitting, Preparing
<1>15. CASE Guest!Cancel(r)
  BY <1>15 DEF Guest!Cancel, Guest!request, Guest!files, GuestPhases, UnitsOver, Admitting, Preparing
<1>16. CASE Guest!Deadline(r)
  BY <1>16 DEF Guest!Deadline, Guest!request, Guest!files, GuestPhases, UnitsOver, Admitting, Preparing
<1>17. CASE Guest!ReconcileRead(r)
  BY <1>17 DEF Guest!ReconcileRead, Guest!UnitOver, Guest!request, Guest!files, GuestPhases, UnitsOver,
     Admitting, Preparing
<1>18. CASE Guest!ReconcileWrite(r)
  BY <1>18, ReconcileWriteSays DEF GuestPhases, UnitsOver, Admitting, Preparing, RestIs
<1>19. CASE Guest!Prune(r)
  BY <1>19 DEF Guest!Prune, Guest!request, Guest!files, GuestPhases, UnitsOver, Admitting, Preparing
<1>20. CASE \E how \in {"ok", "killed"} : Guest!UnitEnds(r, how)
  BY <1>20 DEF Guest!UnitEnds, Guest!request, Guest!files, GuestPhases, UnitsOver, Admitting, Preparing
<1>21. CASE Guest!Change
  BY <1>21 DEF Guest!Change, Guest!request, Guest!files, GuestPhases, UnitsOver, Admitting, Preparing
<1> QED
  BY <1>1, <1>2, <1>3, <1>4, <1>5, <1>6, <1>7, <1>8, <1>9, <1>10, <1>11, <1>12, <1>13, <1>14, <1>15, <1>16,
     <1>17, <1>18, <1>19, <1>20, <1>21 DEF Guest!Process

LEMMA GuestKeeps ==
  ASSUME Guest!GuestAssumption, GuestInv, [Guest!Next]_Guest!vars
  PROVE  GuestInv'
<1>1. CASE UNCHANGED Guest!vars
  BY <1>1 DEF Guest!vars, Guest!request, Guest!files, GuestInv, ReceiptsTyped, RunsTyped, GuestPhases,
     UnitsOver, Guest!RetainedIsStill
<1>2. CASE Guest!Next
  BY <1>2, GuestKeepsTypes, GuestKeepsReceipts, GuestKeepsPhases, GuestKeepsOver, GuestKeepsStill
     DEF Guest!Next, GuestInv
<1> QED BY <1>1, <1>2

LEMMA GuestBegins ==
  ASSUME Guest!GuestAssumption, Guest!Init
  PROVE  GuestInv
<1> USE BlankIs DEF Guest!Init
<1>1. ReceiptsTyped /\ RunsTyped
  BY DEF ReceiptsTyped, RunsTyped
<1>2. GuestPhases /\ UnitsOver /\ Guest!RetainedIsStill
  BY DEF GuestPhases, UnitsOver, Guest!RetainedIsStill, Admitting, Preparing
<1> QED BY <1>1, <1>2 DEF GuestInv

\* The receipts of guests, their processes and their units keep together,
\* wherever a process dies and whoever reconciles (guest.cpp).
THEOREM GuestInvariant == Guest!GuestAssumption => (Guest!Spec => []GuestInv)
<1> SUFFICES ASSUME Guest!GuestAssumption PROVE Guest!Spec => []GuestInv
  OBVIOUS
<1>1. Guest!Init => GuestInv
  BY GuestBegins
<1>2. GuestInv /\ [Guest!Next]_Guest!vars => GuestInv'
  BY GuestKeeps
<1> QED BY <1>1, <1>2, PTL DEF Guest!Spec

\* A receipt that says stopped is true: of the run that wrote it, and of a
\* reconcile that took a passed deadline for the end of the unit.
THEOREM StoppedGuestsAreStopped == Guest!GuestAssumption => (Guest!Spec => []Guest!StoppedIsTrue)
<1>1. GuestInv => Guest!StoppedIsTrue
  BY DEF GuestInv, UnitsOver, Guest!StoppedIsTrue, Ending
<1> QED BY <1>1, GuestInvariant, PTL

\* An overlay or a log that is retained was taken from a unit that had stopped.
THEOREM RetainedIsTakenStill == Guest!GuestAssumption => (Guest!Spec => []Guest!RetainedIsStill)
<1>1. GuestInv => Guest!RetainedIsStill
  BY DEF GuestInv
<1> QED BY <1>1, GuestInvariant, PTL

\* Receipts, processes and units keep their types.
THEOREM GuestTypes == Guest!GuestAssumption => (Guest!Spec => []Guest!TypeOK)
<1>1. GuestInv => Guest!TypeOK
  BY DEF GuestInv, ReceiptsTyped, RunsTyped, Guest!TypeOK
<1> QED BY <1>1, GuestInvariant, PTL

\* A receipt becomes completed only when all actions were done, QEMU quit by
\* itself and the assets were unchanged when they were verified again.
THEOREM CompletedGuestsAreWhole == Guest!GuestAssumption => (Guest!Spec => [][Guest!CompletedIsWhole]_Guest!vars)
<1> SUFFICES ASSUME Guest!GuestAssumption PROVE Guest!Spec => [][Guest!CompletedIsWhole]_Guest!vars
  OBVIOUS
<1>1. GuestInv /\ [Guest!Next]_Guest!vars => [Guest!CompletedIsWhole]_Guest!vars
  <2> SUFFICES ASSUME GuestInv, Guest!Next,
                      NEW q \in Runs, receipt'[q].status = "completed", receipt[q].status # "completed"
               PROVE  guestMine[q].steps = NActions /\ exit[q] = "ok" /\ ~changed
    BY DEF Guest!CompletedIsWhole
  <2>1. PICK r \in Runs :
          \/ Guest!Process(r) \/ Guest!Crash(r) \/ (\E how \in {"ok", "killed"} : Guest!UnitEnds(r, how))
          \/ Guest!Cancel(r) \/ Guest!Deadline(r) \/ Guest!ReconcileRead(r) \/ Guest!ReconcileWrite(r) \/ Guest!Prune(r) \/ Guest!Change
    BY DEF Guest!Next
  <2> USE GuestFacts
  <2>2. ASSUME Guest!FirstReceipt(r) PROVE FALSE
    BY <2>2, FirstReceiptSays DEF RestIs
  <2>3. ASSUME Guest!Note(r) PROVE FALSE
    BY <2>3, NoteSays DEF RestIs, GuestPhases, Preparing
  <2>4. ASSUME Guest!Create(r) PROVE FALSE
    BY <2>4, CreateSays DEF RestIs
  <2>5. ASSUME Guest!Act(r) PROVE FALSE
    BY <2>5, ActSays DEF RestIs, GuestPhases
  <2>6. ASSUME Guest!ReconcileWrite(r) PROVE FALSE
    BY <2>6, ReconcileWriteSays DEF RestIs
  <2>7. Guest!Publish(r)
    BY <2>1, <2>2, <2>3, <2>4, <2>5, <2>6 DEF Guest!Process, Guest!Admit, Guest!Stage, Guest!StartUnit,
       Guest!Quit, Guest!Fail, Guest!GiveUp, Guest!Wait, Guest!Collect,
      Guest!Crash, Guest!UnitEnds, Guest!Cancel, Guest!Deadline, Guest!ReconcileRead, Guest!Prune, Guest!Change
  <2> QED BY <2>7, PublishSays DEF RestIs, GuestPhases
<1> QED BY <1>1, GuestInvariant, PTL DEF Guest!Spec


=============================================================================
