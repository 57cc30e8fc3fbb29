----------------------------- MODULE Retention -----------------------------
(***************************************************************************)
(* The storage lease of include/indago/storage_lease.hpp, the publication  *)
(* of content by core.cpp, and the retention plan and quarantine of        *)
(* workbench_bundle.cpp.                                                   *)
(*                                                                         *)
(* Content is addressed by its hash and shared: a file that is already in  *)
(* the store is not written again and keeps its age.  A publisher holds    *)
(* the shared side of the lease as long as its connection is open; a       *)
(* keeper, a use of `retention`, holds the exclusive side.  Neither waits: *)
(* a busy lease refuses the operation.  The operating system releases the  *)
(* lease of a process that dies.                                           *)
(***************************************************************************)
EXTENDS Naturals, FiniteSets

CONSTANTS
  Objects,     \* contents, by their hash
  Publishers,  \* uses of commands that publish one object each
  Keepers,     \* uses of `retention plan` or `retention quarantine`
  Limit        \* candidates of one plan

ASSUME RetentionAssumption ==
  /\ IsFiniteSet(Objects)
  /\ Limit \in Nat
  /\ Publishers \cap Keepers = {}

VARIABLES
  age,       \* absent, young, or past the 24 hours of grace
  core,      \* contents the rows of the core and workbench tables name
  runtime,   \* contents the rows of the runtime tables name
  busy,      \* a job is queued or running, or a session is not terminal
  shared,    \* processes that hold the shared side of the lease
  alone,     \* processes that hold the exclusive side
  pc,
  puts,      \* the object a publisher publishes, if it is at it
  seen,      \* references a keeper found
  found,     \* its candidates
  more,      \* there were more than Limit
  given,     \* the plan its operator submitted, if it did
  plans,     \* plans that were shown to the operator
  away,      \* contents in quarantine
  listed     \* of these, the ones a manifest lists

disk == <<age, core, runtime, busy>>
kept == <<seen, found, more, given>>
vars == <<disk, shared, alone, pc, puts, kept, plans, away, listed>>

Processes == Publishers \cup Keepers
Referenced == core \cup runtime
Stored == {o \in Objects : age[o] # "absent"}

Init ==
  /\ age = [o \in Objects |-> "absent"]
  /\ core = {} /\ runtime = {} /\ busy = FALSE
  /\ shared = {} /\ alone = {}
  /\ pc = [p \in Processes |-> "idle"]
  /\ puts = [p \in Publishers |-> {}]
  /\ seen = [k \in Keepers |-> {}]
  /\ found = [k \in Keepers |-> {}]
  /\ more = [k \in Keepers |-> FALSE]
  /\ given = [k \in Keepers |-> {}]
  /\ plans = {} /\ away = {} /\ listed = {}

Goto(p, label) == pc' = [pc EXCEPT ![p] = label]

(* The process ends, and with it what it remembered and its lease. *)
End(p) ==
  /\ Goto(p, "done")
  /\ shared' = shared \ {p} /\ alone' = alone \ {p}
  /\ puts' = [q \in Publishers |-> IF q = p THEN {} ELSE puts[q]]
  /\ seen' = [k \in Keepers |-> IF k = p THEN {} ELSE seen[k]]
  /\ found' = [k \in Keepers |-> IF k = p THEN {} ELSE found[k]]
  /\ more' = [k \in Keepers |-> k # p /\ more[k]]
  /\ given' = [k \in Keepers |-> IF k = p THEN {} ELSE given[k]]

-----------------------------------------------------------------------------
(* Publishers. *)

(* Db: the connection takes the shared side. *)
Connect(p) ==
  /\ pc[p] = "idle"
  /\ IF alone = {}
     THEN /\ \E o \in Objects : puts' = [puts EXCEPT ![p] = {o}]
          /\ shared' = shared \cup {p} /\ Goto(p, "put")
          /\ UNCHANGED <<alone, kept>>
     ELSE End(p)
  /\ UNCHANGED <<disk, plans, away, listed>>

(* publish_blob, import_target: a staged file moves to its place, unless   *)
(* the content is there.                                                   *)
Put(p) ==
  /\ pc[p] = "put"
  /\ age' = [o \in Objects |-> IF o \in puts[p] \ Stored THEN "young" ELSE age[o]]
  /\ Goto(p, "row")
  /\ UNCHANGED <<core, runtime, busy, shared, alone, puts, kept, plans, away, listed>>

(* The row that names the content, in the core or in the runtime database, *)
(* and the end of the connection.                                          *)
Row(p) ==
  /\ pc[p] = "row"
  /\ \/ core' = core \cup puts[p] /\ runtime' = runtime
     \/ runtime' = runtime \cup puts[p] /\ core' = core
  /\ End(p)
  /\ UNCHANGED <<age, busy, plans, away, listed>>

(* Jobs and sessions begin and end over connections of their own. *)
Work ==
  /\ alone = {}
  /\ busy' = ~busy
  /\ UNCHANGED <<age, core, runtime, shared, alone, pc, puts, kept, plans, away, listed>>

Age(o) ==
  /\ age[o] = "young"
  /\ age' = [age EXCEPT ![o] = "old"]
  /\ UNCHANGED <<core, runtime, busy, shared, alone, pc, puts, kept, plans, away, listed>>

-----------------------------------------------------------------------------
(* Keepers. *)

(* Mutant: retention takes the shared side, as every connection does. *)
LockShared(k) ==
  /\ pc[k] = "idle"
  /\ \E g \in {{}} \cup {{plan} : plan \in plans} : given' = [given EXCEPT ![k] = g]
  /\ alone = {} /\ shared' = shared \cup {k} /\ Goto(k, "core")
  /\ UNCHANGED <<disk, alone, puts, seen, found, more, plans, away, listed>>

(* The exclusive side, or a refusal. *)
Lock(k) ==
  /\ pc[k] = "idle"
  /\ IF shared \cup alone = {}
     THEN /\ \E g \in {{}} \cup {{plan} : plan \in plans} : given' = [given EXCEPT ![k] = g]
          /\ alone' = {k} /\ Goto(k, "core")
          /\ UNCHANGED <<shared, puts, seen, found, more>>
     ELSE End(k)
  /\ UNCHANGED <<disk, plans, away, listed>>

ScanCore(k) ==
  /\ pc[k] = "core"
  /\ seen' = [seen EXCEPT ![k] = core]
  /\ Goto(k, "runtime")
  /\ UNCHANGED <<disk, shared, alone, puts, found, more, given, plans, away, listed>>

ScanRuntime(k) ==
  /\ pc[k] = "runtime"
  /\ seen' = [seen EXCEPT ![k] = @ \cup runtime]
  /\ Goto(k, "check")
  /\ UNCHANGED <<disk, shared, alone, puts, found, more, given, plans, away, listed>>

(* Active jobs and sessions block maintenance. *)
CheckActive(k) ==
  /\ pc[k] = "check"
  /\ IF busy
     THEN End(k)
     ELSE Goto(k, "list") /\ UNCHANGED <<shared, alone, puts, kept>>
  /\ UNCHANGED <<disk, plans, away, listed>>

Candidates(k) == {o \in Objects : age[o] = "old"} \ seen[k]

(* The walk over the store ends when Limit candidates are found and one    *)
(* more is met.                                                            *)
List(k) ==
  /\ pc[k] = "list"
  /\ \E c \in SUBSET Candidates(k) :
       /\ IF Cardinality(Candidates(k)) <= Limit THEN c = Candidates(k) ELSE Cardinality(c) = Limit
       /\ found' = [found EXCEPT ![k] = c]
  /\ more' = [more EXCEPT ![k] = Cardinality(Candidates(k)) > Limit]
  /\ Goto(k, "decide")
  /\ UNCHANGED <<disk, shared, alone, puts, seen, given, plans, away, listed>>

(* Mutant: the digest is not compared. *)
MayMoveAny(k) == given[k] # {}

(* quarantine requires the digest of exactly these candidates. *)
MayMove(k) == given[k] = {found[k]} /\ ~more[k]

(* A plan is shown; a quarantine goes on if its plan still holds. *)
Decide(k) ==
  /\ pc[k] = "decide"
  /\ \/ /\ given[k] = {}
        /\ plans' = plans \cup {found[k]}
        /\ End(k)
     \/ /\ given[k] # {} /\ MayMove(k)
        /\ Goto(k, "move")
        /\ UNCHANGED <<plans, shared, alone, puts, kept>>
     \/ /\ given[k] # {} /\ ~MayMove(k)
        /\ End(k)
        /\ plans' = plans
  /\ UNCHANGED <<disk, away, listed>>

(* rename, one file at a time *)
Move(k, o) ==
  /\ pc[k] = "move"
  /\ o \in found[k] /\ age[o] # "absent"
  /\ age' = [age EXCEPT ![o] = "absent"]
  /\ away' = away \cup {o}
  /\ UNCHANGED <<core, runtime, busy, shared, alone, pc, puts, kept, plans, listed>>

(* The manifest, and the end of the maintenance. *)
Close(k) ==
  /\ pc[k] = "move"
  /\ found[k] \cap Stored = {}
  /\ listed' = listed \cup found[k]
  /\ End(k)
  /\ UNCHANGED <<disk, plans, away>>

(* Any process may die, and another use of the command may follow it. *)
Crash(p) ==
  /\ pc[p] \notin {"idle", "done"}
  /\ End(p)
  /\ UNCHANGED <<disk, plans, away, listed>>

Again(p) ==
  /\ pc[p] = "done"
  /\ Goto(p, "idle")
  /\ UNCHANGED <<disk, shared, alone, puts, kept, plans, away, listed>>

Publish(p) == Connect(p) \/ Put(p) \/ Row(p)
Maintain(k) ==
  \/ Lock(k) \/ ScanCore(k) \/ ScanRuntime(k) \/ CheckActive(k) \/ List(k) \/ Decide(k)
  \/ (\E o \in Objects : Move(k, o)) \/ Close(k)

Next ==
  \/ \E p \in Publishers : Publish(p)
  \/ \E k \in Keepers : Maintain(k)
  \/ \E p \in Processes : Crash(p) \/ Again(p)
  \/ Work
  \/ \E o \in Objects : Age(o)

Spec == Init /\ [][Next]_vars

-----------------------------------------------------------------------------
(* Properties. *)

TypeOK ==
  /\ age \in [Objects -> {"absent", "young", "old"}]
  /\ core \subseteq Objects /\ runtime \subseteq Objects /\ busy \in BOOLEAN
  /\ shared \subseteq Processes /\ alone \subseteq Keepers
  /\ pc \in [Processes -> {"idle", "put", "row", "core", "runtime", "check", "list", "decide",
                           "move", "done"}]
  /\ puts \in [Publishers -> SUBSET Objects]
  /\ seen \in [Keepers -> SUBSET Objects]
  /\ found \in [Keepers -> SUBSET Objects]
  /\ more \in [Keepers -> BOOLEAN]
  /\ given \in [Keepers -> SUBSET SUBSET Objects]
  /\ plans \subseteq SUBSET Objects
  /\ away \subseteq Objects /\ listed \subseteq away

(* Every content that a committed row names is in the store, although an   *)
(* old file without references may be named again while retention looks,   *)
(* and processes die between any two steps.                                *)
ReferencedIsStored == Referenced \subseteq Stored

(* A content leaves the store only when it is older than the grace period, *)
(* by an operator's plan that listed it, while nothing is published.       *)
MovesWerePlanned ==
  [][\A o \in Objects : age[o] # "absent" /\ age'[o] = "absent" =>
       /\ age[o] = "old"
       /\ \E plan \in plans : o \in plan]_vars
=============================================================================
