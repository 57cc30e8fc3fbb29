-------------------------- MODULE ModelController --------------------------
(***************************************************************************)
(* harness_explore of src/model_controller.cpp: the built-in owner of one  *)
(* investigation, which asks a paid provider for decisions and carries     *)
(* them out.                                                               *)
(*                                                                         *)
(* A controller is a use of the command.  It claims the row of             *)
(* wb_model_runs, works on a copy of the record stored there, and writes   *)
(* the copy back only while the row names it.  The record is the           *)
(* checkpoint from which the next controller resumes after a crash.        *)
(* Reserved tokens and generation time move with the generation counter,   *)
(* so the counter stands for all three.  The actions a decision proposes   *)
(* are those of HarnessActions: here they are proposed, may wait for a     *)
(* job, and settle.                                                        *)
(***************************************************************************)
EXTENDS Naturals, FiniteSets

CONSTANTS
  Controllers,     \* uses of `harness explore`, each its own runner
  MaxGenerations,  \* max_generations
  Recipe,          \* "general" plans its own work, "assisted_static" runs workflows
  Kinds,           \* kinds of decisions the provider may answer with
  Budget,          \* the investigation's budget for native actions
  Ask,             \* what a decision to analyze asks for
  FlowSteps,       \* requests of a function workflow, of cost 1 each
  MaxRepairs,      \* repair attempts after which it gives up, 2 in the code
  MaxCompactions,  \* compactions of the context, 2 in the code
  MaxTokens        \* bound: owner tokens the investigation is claimed with

NoOne == "nobody"
Nothing == "none"

ASSUME ControllerAssumption ==
  /\ NoOne \notin Controllers
  /\ MaxGenerations \in Nat \ {0}
  /\ Recipe \in {"general", "assisted_static"}
  /\ Kinds \subseteq {"analyze", "function", "reason", "read", "finish"}
  /\ Budget \in Nat /\ Ask \in Nat \ {0} /\ FlowSteps \in Nat \ {0}
  /\ MaxRepairs \in Nat /\ MaxCompactions \in Nat
  /\ MaxTokens \in Nat \ {0}

VARIABLES
  row,        \* wb_model_runs: the record and its runner
  late,       \* the runner's deadline has passed
  inv,        \* the investigation: open, ended by a report, or cancelled
  token,      \* which owner token is current
  leaseLate,  \* the owner's lease has passed
  due,        \* no rate limit is outstanding: its retry time has come
  act,        \* the actions of the investigation, by their key
  left,       \* the part of Budget that is not reserved
  rev,        \* revision of the reasoning record
  pc,         \* where a controller is
  my,         \* its copy of the record
  mine,       \* the owner token it was given
  beating,    \* its heartbeat thread is alive
  cancelled,  \* what that thread reports
  then,       \* where a report that is being finished leads
  sent,       \* generations whose request reached the transport
  unknown,    \* of these, the ones whose outcome nobody knows
  reasoned    \* generations whose reasoning update was applied

store == <<row, late, inv, token, leaseLate, due, act, left, rev>>
local == <<pc, my, mine, beating, cancelled, then>>
ghost == <<sent, unknown, reasoned>>
vars  == <<store, local, ghost>>

Generations == 0..MaxGenerations
Decided(g) == <<"generation", g>>
Flow(n) == <<"function", n>>
Keys == {Decided(g) : g \in Generations} \cup {Flow(n) : n \in 0..(FlowSteps - 1)}
NoAction == [status |-> "absent", cost |-> 0]

NewRecord ==
  [phase |-> "ready", generations |-> 0, repairs |-> 0, compactions |-> 0, retry |-> FALSE,
   pending |-> Nothing, expect |-> 0, pinned |-> 0, bootstrapped |-> FALSE,
   next |-> 0, working |-> FALSE, visited |-> FALSE]

Init ==
  /\ row = [rec |-> NewRecord, runner |-> NoOne]
  /\ late = FALSE /\ inv = "open" /\ token = 1 /\ leaseLate = FALSE /\ due = TRUE
  /\ act = [k \in Keys |-> NoAction]
  /\ left = Budget
  /\ rev = 0
  /\ pc = [c \in Controllers |-> "idle"]
  /\ my = [c \in Controllers |-> NewRecord]
  /\ mine = [c \in Controllers |-> 1]
  /\ beating = [c \in Controllers |-> FALSE]
  /\ cancelled = [c \in Controllers |-> FALSE]
  /\ then = [c \in Controllers |-> <<"leave", "closing">>]
  /\ sent = {} /\ unknown = {} /\ reasoned = {}

Goto(c, label) == pc' = [pc EXCEPT ![c] = label]
Keep(c, rec) == my' = [my EXCEPT ![c] = rec]
Ended == inv # "open"

(* save, with persist: the changed copy replaces the record and renews the *)
(* deadline if the row still names the controller.  Otherwise, or if the   *)
(* storage is busy, it throws, and what catches the exception goes on.     *)
Save(c, rec, good, bad) ==
  /\ Keep(c, rec)
  /\ \/ /\ row.runner = c
        /\ row' = [row EXCEPT !.rec = rec]
        /\ late' = FALSE
        /\ Goto(c, good)
     \/ /\ Goto(c, bad)
        /\ UNCHANGED <<row, late>>

(* ownership: the token is current and its lease alive. *)
Owner(c) == mine[c] = token /\ ~leaseLate

(* running: another controller's deadline has not passed. *)
OtherRunning(c) == row.runner \notin {NoOne, c} /\ ~late

(* What a harness operation requires besides its expected revision. *)
MayAct(c) == Owner(c) /\ ~Ended /\ ~OtherRunning(c)

-----------------------------------------------------------------------------
(* Claiming the run, and its heartbeat. *)

(* Mutant: an interrupted request is simply asked again. *)
ClaimAsksAgain(c) ==
  /\ pc[c] = "idle"
  /\ ~leaseLate
  /\ ~OtherRunning(c)
  /\ row' = [row EXCEPT !.runner = c]
  /\ late' = FALSE
  /\ Keep(c, IF row.rec.phase = "request_inflight" THEN [row.rec EXCEPT !.phase = "ready"] ELSE row.rec)
  /\ mine' = [mine EXCEPT ![c] = token]
  /\ beating' = [beating EXCEPT ![c] = TRUE]
  /\ Goto(c, "top")
  /\ UNCHANGED <<inv, token, leaseLate, due, act, left, rev, cancelled, then, ghost>>

(* The claim loads the checkpoint.  A request that was in flight when its  *)
(* controller was lost is not repeated: the investigation is reported as   *)
(* partial.                                                                *)
Claim(c) ==
  /\ pc[c] = "idle"
  /\ ~leaseLate
  /\ ~OtherRunning(c)
  /\ row' = [row EXCEPT !.runner = c]
  /\ late' = FALSE
  /\ Keep(c, row.rec)
  /\ mine' = [mine EXCEPT ![c] = token]
  /\ beating' = [beating EXCEPT ![c] = TRUE]
  /\ Goto(c, IF row.rec.phase = "request_inflight" THEN "report" ELSE "top")
  /\ UNCHANGED <<inv, token, leaseLate, due, act, left, rev, cancelled, then, ghost>>

(* Both deadlines are renewed, or neither: a lost run or a lost lease ends *)
(* the thread, as does an exception.                                       *)
Heartbeat(c) ==
  /\ beating[c]
  /\ IF row.runner = c /\ mine[c] = token
     THEN /\ late' = FALSE /\ leaseLate' = FALSE
          /\ beating' = beating
          /\ cancelled' = [cancelled EXCEPT ![c] = @ \/ inv = "cancelled"]
     ELSE /\ beating' = [beating EXCEPT ![c] = FALSE]
          /\ cancelled' = [cancelled EXCEPT ![c] = TRUE]
          /\ UNCHANGED <<late, leaseLate>>
  /\ UNCHANGED <<row, inv, token, due, act, left, rev, pc, my, mine, then, ghost>>

HeartbeatThrows(c) ==
  /\ beating[c]
  /\ beating' = [beating EXCEPT ![c] = FALSE]
  /\ cancelled' = [cancelled EXCEPT ![c] = TRUE]
  /\ UNCHANGED <<store, pc, my, mine, then, ghost>>

-----------------------------------------------------------------------------
(* The head of the loop: ended, cancelled, waiting for the provider, the   *)
(* first inventory, a decision to carry out, or the next generation.       *)

Waiting(c) == my[c].retry /\ ~due

Spent(c) == my[c].generations >= MaxGenerations
Bootstraps(c) == Recipe = "assisted_static" /\ ~my[c].bootstrapped

TopStops(c) ==
  /\ pc[c] = "top"
  /\ Ended \/ cancelled[c] \/ Waiting(c)
  /\ Goto(c, "leave")
  /\ UNCHANGED <<store, my, mine, beating, cancelled, then, ghost>>

TopGoes(c) ==
  /\ pc[c] = "top"
  /\ ~Ended /\ ~cancelled[c] /\ ~Waiting(c)

(* The record once its retry time, if any, has come. *)
Going(c) == [my[c] EXCEPT !.retry = FALSE]

Bootstrap(c) ==
  /\ TopGoes(c) /\ Bootstraps(c)
  /\ Save(c, [Going(c) EXCEPT !.bootstrapped = TRUE, !.pending = "analyze",
                              !.phase = "response_saved"], "decide", "closing")
  /\ UNCHANGED <<inv, token, leaseLate, due, act, left, rev, mine, beating, cancelled, then, ghost>>

Resume(c) ==
  /\ TopGoes(c) /\ ~Bootstraps(c)
  /\ my[c].phase = "response_saved"
  /\ Keep(c, Going(c))
  /\ Goto(c, "decide")
  /\ UNCHANGED <<store, mine, beating, cancelled, then, ghost>>

Exhausted(c) ==
  /\ TopGoes(c) /\ ~Bootstraps(c)
  /\ my[c].phase # "response_saved" /\ Spent(c)
  /\ then' = [then EXCEPT ![c] = <<"leave", "closing">>]
  /\ Keep(c, Going(c))
  /\ Goto(c, "report")
  /\ UNCHANGED <<store, mine, beating, cancelled, ghost>>

-----------------------------------------------------------------------------
(* A generation. *)

(* The request is composed from the record, and reserved in it. *)
Reserving(rec) == [rec EXCEPT !.generations = @ + 1, !.phase = "request_inflight"]

(* The reservation is saved before the request. *)
Reserve(c) ==
  /\ TopGoes(c) /\ ~Bootstraps(c)
  /\ my[c].phase # "response_saved" /\ ~Spent(c)
  /\ Save(c, Reserving(Going(c)), "call", "closing")
  /\ UNCHANGED <<inv, token, leaseLate, due, act, left, rev, mine, beating, cancelled, then, ghost>>

(* The request does not fit the context: nothing was sent, so the          *)
(* reservation is returned and the context compacted.                      *)
Refund(c) ==
  /\ pc[c] = "call"
  /\ ~cancelled[c]
  /\ my[c].compactions <= MaxCompactions
  /\ Save(c, [my[c] EXCEPT !.generations = @ - 1, !.phase = "ready", !.compactions = @ + 1],
          IF my[c].compactions >= MaxCompactions THEN "report" ELSE "top", "closing")
  /\ then' = [then EXCEPT ![c] = <<"leave", "closing">>]
  /\ UNCHANGED <<inv, token, leaseLate, due, act, left, rev, mine, beating, cancelled, ghost>>

(* The request goes out, unless the cancellation was seen before. *)
Send(c) ==
  /\ pc[c] = "call"
  /\ ~cancelled[c]
  /\ sent' = sent \cup {my[c].generations}
  /\ Goto(c, "transport")
  /\ UNCHANGED <<store, my, mine, beating, cancelled, then, unknown, reasoned>>

SendCancelled(c) ==
  /\ pc[c] = "call"
  /\ cancelled[c]
  /\ Goto(c, "leave")
  /\ UNCHANGED <<store, my, mine, beating, cancelled, then, ghost>>

(* A decision is saved before it is carried out.  The last generation may  *)
(* only finish.                                                            *)
Respond(c, kind, expect) ==
  /\ pc[c] = "transport"
  /\ my[c].generations = MaxGenerations => kind = "finish"
  /\ Save(c, [my[c] EXCEPT !.pending = kind, !.expect = expect, !.phase = "response_saved"],
          "decide", "repair")
  /\ UNCHANGED <<inv, token, leaseLate, due, act, left, rev, mine, beating, cancelled, then, ghost>>

(* The answer breaks its contract, or the run was cancelled meanwhile. *)
Refuse(c) ==
  /\ pc[c] = "transport"
  /\ Goto(c, "repair")
  /\ UNCHANGED <<store, my, mine, beating, cancelled, then, ghost>>

(* Mutant: the retry time is only reported. *)
RateLimitForgotten(c) ==
  /\ pc[c] = "transport"
  /\ Save(c, [my[c] EXCEPT !.phase = "ready"], "leave", "closing")
  /\ due' = FALSE
  /\ UNCHANGED <<inv, token, leaseLate, act, left, rev, mine, beating, cancelled, then, ghost>>

(* HTTP 429: the provider refused, and says when to come back. *)
RateLimit(c) ==
  /\ pc[c] = "transport"
  /\ Save(c, [my[c] EXCEPT !.phase = "ready", !.retry = TRUE], "leave", "closing")
  /\ due' = FALSE
  /\ UNCHANGED <<inv, token, leaseLate, act, left, rev, mine, beating, cancelled, then, ghost>>

(* Timeout, lost connection, other HTTP status: what the provider did is   *)
(* not known.                                                              *)
TransportFails(c) ==
  /\ pc[c] = "transport"
  /\ unknown' = unknown \cup {my[c].generations}
  /\ IF cancelled[c]
     THEN Goto(c, "leave") /\ UNCHANGED <<row, late, my, then>>
     ELSE /\ Save(c, [my[c] EXCEPT !.phase = "ready"], "report", "closing")
          /\ then' = [then EXCEPT ![c] = <<"leave", "closing">>]
  /\ UNCHANGED <<inv, token, leaseLate, due, act, left, rev, mine, beating, cancelled, sent, reasoned>>

(* The handler of every other exception around the request. *)
Repair(c) ==
  /\ pc[c] = "repair"
  /\ IF cancelled[c]
     THEN Goto(c, "leave") /\ UNCHANGED <<row, late, my, then>>
     ELSE /\ Save(c, [my[c] EXCEPT !.phase = "ready", !.repairs = @ + 1],
                  IF my[c].repairs >= MaxRepairs THEN "report" ELSE "top", "closing")
          /\ then' = [then EXCEPT ![c] = <<"leave", "closing">>]
  /\ UNCHANGED <<inv, token, leaseLate, due, act, left, rev, mine, beating, cancelled, ghost>>

-----------------------------------------------------------------------------
(* Carrying a decision out. *)

(* The saved decision, once it is normalized and guarded: its kind selects *)
(* what carries it out.                                                    *)
Handles(c, kind) == pc[c] = "decide" /\ my[c].pending = kind

Key(c) == IF my[c].pending = "analyze" THEN Decided(my[c].generations) ELSE Flow(my[c].next)
CostOf(c) == IF my[c].pending = "analyze" THEN my[c].pinned ELSE 1

(* Any call while a decision is carried out may throw. *)
DecisionThrows(c) ==
  /\ pc[c] \in {"decide", "propose", "run", "wait"}
  /\ IF my[c].pending = "function" /\ pc[c] # "decide"
     THEN Save(c, [my[c] EXCEPT !.next = FlowSteps], "visited", "error")
     ELSE Goto(c, "error") /\ UNCHANGED <<row, late, my>>
  /\ UNCHANGED <<inv, token, leaseLate, due, act, left, rev, mine, beating, cancelled, then, ghost>>

(* A general request is fitted to the budget that is left and pinned, once *)
(* for its generation.                                                     *)
Prepare(c) ==
  /\ Handles(c, "analyze")
  /\ IF my[c].pinned = 0 /\ Recipe = "general"
     THEN /\ left > 0
          /\ Save(c, [my[c] EXCEPT !.pinned = IF left < Ask THEN left ELSE Ask],
                  "propose", "error")
     ELSE /\ Keep(c, [my[c] EXCEPT !.pinned = IF @ = 0 THEN Ask ELSE @])
          /\ Goto(c, "propose")
          /\ UNCHANGED <<row, late>>
  /\ UNCHANGED <<inv, token, leaseLate, due, act, left, rev, mine, beating, cancelled, then, ghost>>

(* A function workflow begins with the whole of its budget, or resumes at  *)
(* its cursor.                                                             *)
FlowBegins(c) ==
  /\ Handles(c, "function")
  /\ Recipe = "assisted_static" /\ ~my[c].visited
  /\ \/ /\ ~my[c].working /\ left < FlowSteps
        /\ then' = [then EXCEPT ![c] = <<"leave", "error">>]
        /\ Goto(c, "report")
        /\ UNCHANGED <<row, late, my>>
     \/ /\ my[c].working \/ left >= FlowSteps
        /\ Save(c, [my[c] EXCEPT !.working = TRUE], "flow", "error")
        /\ then' = then
  /\ UNCHANGED <<inv, token, leaseLate, due, act, left, rev, mine, beating, cancelled, ghost>>

FlowGoes(c) ==
  /\ pc[c] = "flow"
  /\ Goto(c, IF my[c].next < FlowSteps /\ ~cancelled[c] THEN "propose" ELSE "visited")
  /\ UNCHANGED <<store, my, mine, beating, cancelled, then, ghost>>

(* propose: the action of a key is made once; the same request finds it    *)
(* again, another request under the key is refused.                        *)
Propose(c) ==
  /\ pc[c] = "propose"
  /\ MayAct(c)
  /\ IF act[Key(c)].status = "absent"
     THEN /\ CostOf(c) <= left
          /\ act' = [act EXCEPT ![Key(c)] = [status |-> "proposed", cost |-> CostOf(c)]]
          /\ left' = left - CostOf(c)
     ELSE act[Key(c)].cost = CostOf(c) /\ UNCHANGED <<act, left>>
  /\ Goto(c, "run")
  /\ UNCHANGED <<row, late, inv, token, leaseLate, due, rev, my, mine, beating, cancelled, then, ghost>>

(* run: the action settles, or waits for a job that is still running. *)
Run(c) ==
  /\ pc[c] = "run"
  /\ MayAct(c) \/ (Owner(c) /\ act[Key(c)].status = "settled")
  /\ \/ /\ act[Key(c)].status # "settled"
        /\ act' = [act EXCEPT ![Key(c)].status = "waiting"]
        /\ Goto(c, "wait")
     \/ /\ act' = [act EXCEPT ![Key(c)].status = "settled"]
        /\ Goto(c, IF my[c].pending = "function" THEN "step" ELSE "worked")
  /\ UNCHANGED <<row, late, inv, token, leaseLate, due, left, rev, my, mine, beating, cancelled, then, ghost>>

(* A job that is still running ends this use of the command, once the     *)
(* record is saved.                                                        *)
Wait(c) ==
  /\ pc[c] = "wait"
  /\ row.runner = c
  /\ row' = [row EXCEPT !.rec = my[c]]
  /\ late' = FALSE
  /\ Goto(c, "leave")
  /\ UNCHANGED <<inv, token, leaseLate, due, act, left, rev, my, mine, beating, cancelled, then, ghost>>

FlowStep(c) ==
  /\ pc[c] = "step"
  /\ Save(c, [my[c] EXCEPT !.next = @ + 1], "flow", "error")
  /\ UNCHANGED <<inv, token, leaseLate, due, act, left, rev, mine, beating, cancelled, then, ghost>>

(* The function counts as visited; without a budget for another one the    *)
(* observations are published.                                             *)
FlowEnds(c) ==
  /\ pc[c] = "visited"
  /\ Keep(c, [my[c] EXCEPT !.visited = TRUE])
  /\ \/ Goto(c, "worked") /\ then' = then
     \/ /\ left < FlowSteps
        /\ then' = [then EXCEPT ![c] = <<"worked", "error">>]
        /\ Goto(c, "report")
  /\ UNCHANGED <<store, mine, beating, cancelled, ghost>>

(* reason: an update of the revision it expects. *)
Reason(c) ==
  /\ Handles(c, "reason")
  /\ MayAct(c)
  /\ my[c].expect = rev
  /\ rev' = rev + 1
  /\ reasoned' = reasoned \cup {my[c].generations}
  /\ Goto(c, "worked")
  /\ UNCHANGED <<row, late, inv, token, leaseLate, due, act, left, my, mine, beating, cancelled, then, sent, unknown>>

(* retrieve, record, plan, state and checkpoint change nothing modelled.   *)
Read(c) ==
  /\ Handles(c, "read")
  /\ Goto(c, "worked")
  /\ UNCHANGED <<store, my, mine, beating, cancelled, then, ghost>>

(* finish: an assisted investigation has tried a function before, or is in *)
(* its last generation.                                                    *)
Conclude(c) ==
  /\ Handles(c, "finish")
  /\ Recipe = "assisted_static" /\ my[c].generations < MaxGenerations => my[c].working
  /\ then' = [then EXCEPT ![c] = <<"worked", "error">>]
  /\ Goto(c, "report")
  /\ UNCHANGED <<store, my, mine, beating, cancelled, ghost>>

(* The report is published and ends the investigation, or is refused. *)
Report(c) ==
  /\ pc[c] = "report"
  /\ \/ MayAct(c) /\ inv' = "ended" /\ Goto(c, then[c][1])
     \/ inv' = inv /\ Goto(c, then[c][2])
  /\ UNCHANGED <<row, late, token, leaseLate, due, act, left, rev, my, mine, beating, cancelled, then, ghost>>

(* What the first inventory found may lead to a workflow by itself. *)
LeadsTo(c) ==
  {Nothing} \cup (IF Recipe = "assisted_static" /\ my[c].generations = 0
                    /\ my[c].pending = "analyze" THEN {"function"} ELSE {})

(* The decision is done. *)
Tail(c, repairs) ==
  \E chain \in LeadsTo(c) :
    Save(c, [my[c] EXCEPT !.repairs = repairs, !.pending = chain, !.pinned = 0, !.expect = 0,
                          !.phase = IF chain = Nothing THEN "ready" ELSE "response_saved"],
         "top", "closing")

(* The handler around a decision. *)
Error(c) ==
  /\ pc[c] = "error"
  /\ IF my[c].repairs >= MaxRepairs
     THEN /\ Keep(c, [my[c] EXCEPT !.repairs = @ + 1])
          /\ then' = [then EXCEPT ![c] = <<"leave", "closing">>]
          /\ Goto(c, "report")
          /\ UNCHANGED <<row, late>>
     ELSE Tail(c, my[c].repairs + 1) /\ then' = then
  /\ UNCHANGED <<inv, token, leaseLate, due, act, left, rev, mine, beating, cancelled, ghost>>

Worked(c) ==
  /\ pc[c] = "worked"
  /\ Tail(c, 0)
  /\ UNCHANGED <<inv, token, leaseLate, due, act, left, rev, mine, beating, cancelled, then, ghost>>

-----------------------------------------------------------------------------
(* Leaving. *)

(* A cancelled run cancels the investigation, if it still may. *)
Leave(c) ==
  /\ pc[c] = "leave"
  /\ \/ cancelled[c] /\ ~Ended /\ Owner(c) /\ inv' = "cancelled"
     \/ inv' = inv
  /\ Goto(c, "closing")
  /\ UNCHANGED <<row, late, token, leaseLate, due, act, left, rev, my, mine, beating, cancelled, then, ghost>>

Forget(c) ==
  /\ Goto(c, "done")
  /\ my' = [my EXCEPT ![c] = NewRecord]
  /\ mine' = [mine EXCEPT ![c] = 1]
  /\ beating' = [beating EXCEPT ![c] = FALSE]
  /\ cancelled' = [cancelled EXCEPT ![c] = FALSE]
  /\ then' = [then EXCEPT ![c] = <<"leave", "closing">>]

(* The last record and the release are one transaction, after a look at    *)
(* the investigation, which may have ended in between.                     *)
Release(c) ==
  /\ pc[c] = "closing"
  /\ \/ /\ row.runner = c
        /\ \E terminal \in {FALSE, Ended} :
             row' = [rec |-> [my[c] EXCEPT !.phase = IF terminal THEN "terminal" ELSE @],
                     runner |-> NoOne]
        /\ late' = FALSE
     \/ UNCHANGED <<row, late>>
  /\ Forget(c)
  /\ UNCHANGED <<inv, token, leaseLate, due, act, left, rev, ghost>>

(* The process dies, perhaps with a request at the provider. *)
Crash(c) ==
  /\ pc[c] \notin {"idle", "done"}
  /\ unknown' = IF pc[c] = "transport" THEN unknown \cup {my[c].generations} ELSE unknown
  /\ Forget(c)
  /\ UNCHANGED <<store, sent, reasoned>>

-----------------------------------------------------------------------------
(* Around the controllers. *)

DeadlinePasses ==
  /\ row.runner # NoOne /\ ~late
  /\ late' = TRUE
  /\ UNCHANGED <<row, inv, token, leaseLate, due, act, left, rev, local, ghost>>

LeasePasses ==
  /\ ~leaseLate
  /\ leaseLate' = TRUE
  /\ UNCHANGED <<row, late, inv, token, due, act, left, rev, local, ghost>>

RetryTimeComes ==
  /\ ~due
  /\ due' = TRUE
  /\ UNCHANGED <<row, late, inv, token, leaseLate, act, left, rev, local, ghost>>

(* harness claim: a new owner token once the lease has passed. *)
ClaimOwnership ==
  /\ leaseLate /\ token < MaxTokens
  /\ row.runner = NoOne \/ late
  /\ token' = token + 1
  /\ leaseLate' = FALSE
  /\ UNCHANGED <<row, late, inv, due, act, left, rev, local, ghost>>

(* harness cancel *)
CancelInvestigation ==
  /\ ~leaseLate /\ ~Ended
  /\ inv' = "cancelled"
  /\ UNCHANGED <<row, late, token, leaseLate, due, act, left, rev, local, ghost>>

Step(c) ==
  \/ TopStops(c) \/ Bootstrap(c) \/ Resume(c) \/ Exhausted(c) \/ Reserve(c) \/ Refund(c) \/ Send(c) \/ SendCancelled(c)
  \/ \E kind \in Kinds, expect \in 0..MaxGenerations :
       (kind # "reason" => expect = 0) /\ Respond(c, kind, expect)
  \/ Refuse(c) \/ RateLimit(c) \/ TransportFails(c) \/ Repair(c)
  \/ DecisionThrows(c) \/ Prepare(c) \/ FlowBegins(c) \/ FlowGoes(c) \/ Propose(c) \/ Run(c)
  \/ Wait(c) \/ FlowStep(c) \/ FlowEnds(c) \/ Reason(c) \/ Read(c) \/ Conclude(c)
  \/ Report(c) \/ Error(c) \/ Worked(c) \/ Leave(c) \/ Release(c)

Next ==
  \/ \E c \in Controllers :
       Claim(c) \/ Step(c) \/ Heartbeat(c) \/ HeartbeatThrows(c) \/ Crash(c)
  \/ DeadlinePasses \/ LeasePasses \/ RetryTimeComes \/ ClaimOwnership \/ CancelInvestigation

Spec == Init /\ [][Next]_vars

(* Requests have a time limit, and transactions a busy timeout. *)
FairSpec == Spec /\ \A c \in Controllers : WF_vars(Step(c))

-----------------------------------------------------------------------------
(* Properties. *)

Record ==
  [phase : {"ready", "request_inflight", "response_saved", "terminal"},
   generations : Generations, repairs : 0..(MaxGenerations + MaxRepairs + Cardinality(Controllers)),
   compactions : 0..(MaxCompactions + 1),
   retry : BOOLEAN, pending : Kinds \cup {Nothing, "analyze", "function"},
   expect : Generations, pinned : 0..Ask, bootstrapped : BOOLEAN,
   next : 0..FlowSteps, working : BOOLEAN, visited : BOOLEAN]

TypeOK ==
  /\ row \in [rec : Record, runner : Controllers \cup {NoOne}]
  /\ inv \in {"open", "ended", "cancelled"}
  /\ token \in 1..MaxTokens
  /\ act \in [Keys -> [status : {"absent", "proposed", "waiting", "settled"}, cost : 0..Ask]]
  /\ left \in 0..Budget
  /\ rev \in 0..MaxGenerations
  /\ my \in [Controllers -> Record]
  /\ mine \in [Controllers -> 1..MaxTokens]
  /\ sent \subseteq Generations /\ unknown \subseteq sent /\ reasoned \subseteq sent

(* However controllers crash, stall and resume, every request that reached *)
(* the provider is covered by a reservation in the durable record, so the  *)
(* pinned allowance of generations bounds what can be billed.              *)
SentIsReserved == Cardinality(sent) <= row.rec.generations

(* Two controllers never have a request at the provider at the same time,  *)
(* not even when one of them stalled past its deadline and was replaced.   *)
OneRequestInFlight ==
  Cardinality({c \in Controllers : pc[c] = "transport"}) <= 1

(* A request in flight keeps its mark until its outcome is known or its    *)
(* controller gives it up: while it is at the transport, the record every  *)
(* other controller resumes from says so.                                  *)
InFlightIsMarked ==
  \A c \in Controllers : pc[c] = "transport" =>
    row.rec.phase \in {"request_inflight", "terminal"} /\ row.rec.generations = my[c].generations

(* What may be at the provider: one request, marked and reserved.          *)
OneRequest == SentIsReserved /\ OneRequestInFlight /\ InFlightIsMarked

(* No native action is proposed for a generation whose decision is not in  *)
(* the durable record.                                                     *)
DecisionSavedFirst ==
  \A g \in Generations : act[Decided(g)].status # "absent" =>
    \/ g < row.rec.generations
    \/ g = row.rec.generations /\ row.rec.phase # "request_inflight"

(* A resumed decision proposes the request its first attempt proposed: its *)
(* key is never refused as a conflict.                                     *)
ResumedRequestMatches ==
  \A c \in Controllers :
    pc[c] = "propose" /\ MayAct(c) /\ act[Key(c)].status # "absent" =>
      act[Key(c)].cost = CostOf(c)

(* The steps of a workflow are carried out in order, each after the one    *)
(* before has settled, across waits, crashes and takeovers.                *)
FlowInOrder ==
  \A n \in 1..(FlowSteps - 1) : act[Flow(n)].status # "absent" => act[Flow(n - 1)].status = "settled"

(* A reasoning update of a generation is applied at most once, although    *)
(* the decision may be carried out again after a crash.                    *)
ReasonedOnce ==
  \A c \in Controllers :
    pc[c] = "decide" /\ rev' # rev /\ pc'[c] = "worked" => my[c].generations \notin reasoned

(* No controller sends a request before the time a 429 asked for, whoever  *)
(* received the 429 and however it left.                                   *)
RetryTimeKept == sent' # sent => due

(* Across stalls, crashes and takeovers: a decision is saved before it is  *)
(* carried out, what is asked again is what was asked, a workflow settles  *)
(* in order, a decision moves the reasoning once, and a retry waits until  *)
(* its time.                                                               *)
ResumesRight ==
  DecisionSavedFirst' /\ ResumedRequestMatches' /\ FlowInOrder' /\ ReasonedOnce /\ RetryTimeKept

(* Every step of harness_explore's decision loop, and every step around    *)
(* it, resumes right.                                                      *)
ControllerResumes == [][ResumesRight]_vars

(* Every use of the command ends.                                          *)
ControllerEnds ==
  \A c \in Controllers : pc[c] = "top" ~> pc[c] = "done"
=============================================================================
