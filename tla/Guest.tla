------------------------------- MODULE Guest -------------------------------
(***************************************************************************)
(* Bounded guests, guest.cpp.  A run admits itself against a quota of      *)
(* retained overlays, writes a receipt, stages its files in a private      *)
(* directory, starts QEMU in a unit of the service manager, drives it over *)
(* QMP, and collects what it left.  Other processes cancel it, and, when   *)
(* its deadline has passed, reconcile its receipt and prune its files.     *)
(*                                                                         *)
(* A run's process may die anywhere; its unit is ended by the service      *)
(* manager's own limit.                                                    *)
(***************************************************************************)
EXTENDS Naturals, FiniteSets

CONSTANTS
  Runs,     \* ids of runs, each made by one process
  None,
  Modes,    \* modes a run may ask for
  NActions, \* actions of a run, at most 8
  Quota     \* overlays retained, 4

GuestAssumption ==
  /\ IsFiniteSet(Runs) /\ None \notin Runs /\ NActions \in Nat /\ Quota \in Nat
  /\ Modes \subseteq {"normal", "record", "replay"}

VARIABLES
  pc,       \* what the process of a run is about to do
  mode, previous, \* of its request
  receipt,  \* receipt.json
  mine,     \* the process's copy
  unit,     \* the service manager's unit: none, active, ended
  exit,     \* how it ended: ok, killed, or uncertain
  cancel,   \* the cancel file
  staging,  \* the private directory exists
  overlay,  \* the retained overlay (and serial bytes)
  log,      \* the retained replay log
  late,     \* the deadline of the receipt has passed
  reading,  \* a reconcile's copy of the receipt, none or one
  changed   \* an asset of the profile was changed

files == <<staging, overlay, log>>
request == <<mode, previous>>
vars == <<pc, request, receipt, mine, unit, exit, cancel, files, late, reading, changed>>

Blank == [status |-> "none", noted |-> FALSE, stopped |-> FALSE, steps |-> 0]

Init ==
  /\ pc = [r \in Runs |-> "idle"] /\ mode = [r \in Runs |-> "normal"]
  /\ previous = [r \in Runs |-> None]
  /\ receipt = [r \in Runs |-> Blank] /\ mine = [r \in Runs |-> Blank]
  /\ unit = [r \in Runs |-> "none"] /\ exit = [r \in Runs |-> "none"]
  /\ cancel = [r \in Runs |-> FALSE] /\ staging = [r \in Runs |-> FALSE]
  /\ overlay = [r \in Runs |-> FALSE] /\ log = [r \in Runs |-> FALSE]
  /\ late = [r \in Runs |-> FALSE] /\ reading = [r \in Runs |-> {}] /\ changed = FALSE

Retained == {r \in Runs : overlay[r]}

Persist(r, c) == mine' = [mine EXCEPT ![r] = c] /\ receipt' = [receipt EXCEPT ![r] = c]
Goto(r, p) == pc' = [pc EXCEPT ![r] = p]

-----------------------------------------------------------------------------
(* run and reset. *)

(* The request is checked, the retained overlays are counted, and the      *)
(* profile's assets are verified.                                          *)
Admit(r, m, p) ==
  /\ pc[r] = "idle" /\ p # r
  /\ Cardinality(Retained) < Quota /\ ~changed
  /\ mode' = [mode EXCEPT ![r] = m] /\ previous' = [previous EXCEPT ![r] = p]
  /\ Goto(r, "stage")
  /\ UNCHANGED <<receipt, mine, unit, exit, cancel, files, late, reading, changed>>

(* The private directory and its owner mark; then the first receipt.       *)
Stage(r) ==
  /\ pc[r] = "stage"
  /\ staging' = [staging EXCEPT ![r] = TRUE]
  /\ Goto(r, "first")
  /\ UNCHANGED <<request, receipt, mine, unit, exit, cancel, overlay, log, late, reading, changed>>

FirstReceipt(r) ==
  /\ pc[r] = "first"
  /\ Persist(r, [Blank EXCEPT !.status = "starting"]) /\ Goto(r, "note")
  /\ UNCHANGED <<request, unit, exit, cancel, files, late, reading, changed>>

(* The second names the unit, the deadline and the private directory.      *)
Note(r) ==
  /\ pc[r] = "note"
  /\ Persist(r, [mine[r] EXCEPT !.noted = TRUE]) /\ Goto(r, "create")
  /\ UNCHANGED <<request, unit, exit, cancel, files, late, reading, changed>>

(* The process returns or throws; its private directory goes with it.      *)
Leave(r) == Goto(r, "gone") /\ staging' = [staging EXCEPT ![r] = FALSE]

(* qemu-img makes the overlay, or the run has failed.                      *)
Create(r) ==
  /\ pc[r] = "create"
  /\ \/ Goto(r, "start") /\ UNCHANGED <<receipt, mine, staging>>
     \/ Persist(r, [mine[r] EXCEPT !.status = "failed"]) /\ Leave(r)
  /\ UNCHANGED <<request, unit, exit, cancel, overlay, log, late, reading, changed>>

(* A replay needs an intact log of a recording that completed.             *)
Intact(p) == log[p] /\ mode[p] = "record" /\ receipt[p].status = "completed" /\ receipt[p].stopped

StartUnit(r) ==
  /\ pc[r] = "start"
  /\ IF mode[r] = "replay" => previous[r] # None /\ Intact(previous[r])
     THEN unit' = [unit EXCEPT ![r] = "active"] /\ Goto(r, "drive") /\ UNCHANGED staging
     ELSE Leave(r) /\ UNCHANGED unit
  /\ UNCHANGED <<request, receipt, mine, exit, cancel, overlay, log, late, reading, changed>>

(* An action over QMP, and the receipt with its event.                     *)
Act(r) ==
  /\ pc[r] = "drive" /\ unit[r] = "active" /\ ~cancel[r] /\ mine[r].steps < NActions
  /\ Persist(r, [mine[r] EXCEPT !.steps = @ + 1])
  /\ UNCHANGED <<pc, request, unit, exit, cancel, files, late, reading, changed>>

Quit(r) ==
  /\ pc[r] = "drive" /\ unit[r] = "active" /\ mine[r].steps = NActions
  /\ mine' = [mine EXCEPT ![r].status = "completed"] /\ Goto(r, "wait")
  /\ UNCHANGED <<request, receipt, unit, exit, cancel, files, late, reading, changed>>

(* A cancel, an error of QMP or a checkpoint that failed.                  *)
Fail(r) ==
  /\ pc[r] = "drive"
  /\ mine' = [mine EXCEPT ![r].status = "partial"] /\ cancel' = [cancel EXCEPT ![r] = TRUE]
  /\ Goto(r, "wait")
  /\ UNCHANGED <<request, receipt, unit, exit, files, late, reading, changed>>

(* QEMU quits, the launcher kills it for a cancel, its time or its output, *)
(* or the unit's limit ends it.  The launcher stops the unit and asks the  *)
(* service manager; without an answer its output is not complete.          *)
UnitEnds(r, how) ==
  /\ unit[r] = "active"
  /\ how = "ok" => pc[r] = "wait" /\ mine[r].status = "completed"
  /\ unit' = [unit EXCEPT ![r] = "ended"] /\ exit' = [exit EXCEPT ![r] = IF @ = "none" THEN how ELSE @]
  /\ UNCHANGED <<pc, request, receipt, mine, cancel, files, late, reading, changed>>

(* Without an answer nobody knows whether the unit is still there.         *)
GiveUp(r) ==
  /\ pc[r] = "wait"
  /\ exit' = [exit EXCEPT ![r] = "uncertain"] /\ Goto(r, "collect")
  /\ UNCHANGED <<request, receipt, mine, unit, cancel, files, late, reading, changed>>

Wait(r) ==
  /\ pc[r] = "wait" /\ unit[r] = "ended" /\ Goto(r, "collect")
  /\ UNCHANGED <<request, receipt, mine, unit, exit, cancel, files, late, reading, changed>>

Stopped(r) == exit[r] # "uncertain"

Verdict(r) == IF exit[r] = "ok" /\ ~changed THEN mine[r].status ELSE "partial"

(* Outputs are taken only from a stopped unit, and within their bounds.    *)
Collect(r) ==
  /\ pc[r] = "collect"
  /\ mine' = [mine EXCEPT ![r].status = Verdict(r), ![r].stopped = Stopped(r)]
  /\ \E o, l \in BOOLEAN :
       /\ o \/ l => Stopped(r)
       /\ overlay' = [overlay EXCEPT ![r] = o \/ @]
       /\ log' = [log EXCEPT ![r] = (l /\ mode[r] # "normal") \/ @]
  /\ Goto(r, "publish")
  /\ UNCHANGED <<request, receipt, unit, exit, cancel, staging, late, reading, changed>>

(* The previous run is compared with: without its receipt, or with one of  *)
(* another profile, the process throws.  The assets are verified again.    *)
Publish(r) ==
  /\ pc[r] = "publish"
  /\ \/ /\ previous[r] # None => receipt[previous[r]].status # "none"
        /\ Persist(r, IF changed THEN [mine[r] EXCEPT !.status = "partial"] ELSE mine[r])
     \/ previous[r] # None /\ UNCHANGED <<mine, receipt>>
  /\ Leave(r)
  /\ UNCHANGED <<request, unit, exit, cancel, overlay, log, late, reading, changed>>

Crash(r) ==
  /\ pc[r] \notin {"idle", "gone"} /\ Goto(r, "gone")
  /\ UNCHANGED <<request, receipt, mine, unit, exit, cancel, files, late, reading, changed>>

-----------------------------------------------------------------------------
(* Other processes. *)

Cancel(r) ==
  /\ receipt[r].status # "none"
  /\ cancel' = [cancel EXCEPT ![r] = TRUE]
  /\ UNCHANGED <<pc, request, receipt, mine, unit, exit, files, late, reading, changed>>

(* The deadline, 30 s after it was noted, is past the 3 s of qemu-img and  *)
(* the 20 s of a unit; it may pass while the launcher stops the unit.      *)
Deadline(r) ==
  /\ receipt[r].noted /\ ~late[r] /\ unit[r] # "active"
  /\ pc[r] \in {"wait", "collect", "publish", "gone"}
  /\ late' = [late EXCEPT ![r] = TRUE]
  /\ UNCHANGED <<pc, request, receipt, mine, unit, exit, cancel, files, reading, changed>>

(* Mutant: a deadline that is being approached is taken for one that has   *)
(* passed.                                                                 *)
UnitOverSoon(r) == receipt[r].noted

UnitOver(r) == late[r] /\ unit[r] # "active"

(* reconcile reads the receipt, asks the service manager, and writes it.   *)
ReconcileRead(r) ==
  /\ reading[r] = {} /\ receipt[r].noted /\ ~receipt[r].stopped /\ UnitOver(r)
  /\ reading' = [reading EXCEPT ![r] = {receipt[r]}]
  /\ UNCHANGED <<pc, request, receipt, mine, unit, exit, cancel, files, late, changed>>

ReconcileWrite(r) == \E c \in reading[r] :
  /\ receipt' = [receipt EXCEPT ![r] = [c EXCEPT !.status = "interrupted", !.stopped = TRUE]]
  /\ reading' = [reading EXCEPT ![r] = {}]
  /\ UNCHANGED <<pc, request, mine, unit, exit, cancel, files, late, changed>>

(* prune, of a run whose receipt says it was stopped.                      *)
Prune(r) ==
  /\ receipt[r].stopped
  /\ staging[r] => unit[r] # "active"
  /\ staging' = [staging EXCEPT ![r] = FALSE] /\ overlay' = [overlay EXCEPT ![r] = FALSE]
  /\ log' = [log EXCEPT ![r] = FALSE]
  /\ UNCHANGED <<pc, request, receipt, mine, unit, exit, cancel, late, reading, changed>>

Change ==
  /\ ~changed /\ changed' = TRUE
  /\ UNCHANGED <<pc, request, receipt, mine, unit, exit, cancel, files, late, reading>>

-----------------------------------------------------------------------------
Process(r) ==
  \/ \E m \in Modes : \E p \in Runs \cup {None} : Admit(r, m, p)
  \/ Stage(r) \/ FirstReceipt(r) \/ Note(r) \/ Create(r) \/ StartUnit(r) \/ Act(r) \/ Quit(r)
  \/ Fail(r) \/ GiveUp(r) \/ Wait(r) \/ Collect(r) \/ Publish(r)

Next == \E r \in Runs :
  \/ Process(r) \/ Crash(r) \/ (\E how \in {"ok", "killed"} : UnitEnds(r, how))
  \/ Cancel(r) \/ Deadline(r) \/ ReconcileRead(r) \/ ReconcileWrite(r) \/ Prune(r) \/ Change

Spec == Init /\ [][Next]_vars

(* A process goes on, a unit is ended by its limit, time passes, and the   *)
(* operator reconciles and prunes.                                         *)
FairSpec == Spec /\ \A r \in Runs :
  /\ WF_vars(Process(r) /\ pc[r] # "idle") /\ WF_vars(UnitEnds(r, "killed")) /\ WF_vars(Deadline(r))
  /\ WF_vars(ReconcileRead(r)) /\ WF_vars(ReconcileWrite(r)) /\ WF_vars(Prune(r))

-----------------------------------------------------------------------------
Receipts == [status : {"none", "starting", "failed", "completed", "partial", "interrupted"},
             noted : BOOLEAN, stopped : BOOLEAN, steps : 0..NActions]

(* Type invariant.                                                         *)
TypeOK ==
  /\ pc \in [Runs -> {"idle", "stage", "first", "note", "create", "start", "drive", "wait",
                      "collect", "publish", "gone"}]
  /\ mode \in [Runs -> {"normal", "record", "replay"}] /\ previous \in [Runs -> Runs \cup {None}]
  /\ receipt \in [Runs -> Receipts] /\ mine \in [Runs -> Receipts]
  /\ unit \in [Runs -> {"none", "active", "ended"}]
  /\ exit \in [Runs -> {"none", "ok", "killed", "uncertain"}]
  /\ {cancel, staging, overlay, log, late} \subseteq [Runs -> BOOLEAN]
  /\ \A r \in Runs : reading[r] \subseteq Receipts
  /\ changed \in BOOLEAN

(* A receipt that says stopped is true: no unit of the run is there, and   *)
(* none is started any more; whoever wrote it, the run or a reconcile of   *)
(* one whose process died.                                                 *)
StoppedIsTrue ==
  \A r \in Runs : receipt[r].stopped => unit[r] # "active" /\ pc[r] \notin {"create", "start", "drive"}

(* What is retained was taken from a unit that had stopped.                *)
RetainedIsStill == \A r \in Runs : overlay[r] \/ log[r] => unit[r] = "ended"

(* A receipt becomes completed when all actions were done, QEMU quit by    *)
(* itself and the assets were still those of the profile.                  *)
CompletedIsWhole ==
  \A r \in Runs : receipt'[r].status = "completed" /\ receipt[r].status # "completed" =>
     mine[r].steps = NActions /\ exit[r] = "ok" /\ ~changed

(* Every overlay that counts for the quota can be pruned: also when the    *)
(* process died or threw before it published its receipt.                  *)
OverlayIsFreed == \A r \in Runs : overlay[r] ~> ~overlay[r]
=============================================================================
