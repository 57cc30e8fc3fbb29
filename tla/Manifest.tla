------------------------------ MODULE Manifest ------------------------------
(***************************************************************************)
(* System manifests (system_manifest.cpp): the launches a manifest         *)
(* declares are put in an order their dependencies allow, sweep by sweep,  *)
(* and a preflight hashes the components it names within a byte budget,    *)
(* while the objects they are stored in may be lost or damaged.            *)
(***************************************************************************)
EXTENDS Integers, Sequences, FiniteSets, Functions

CONSTANTS
  Launches,     \* numbered in the order of their names
  Unknown,      \* a name no launch has
  Components,   \* numbered in the order of the manifest
  Artifacts,
  SizeOf,       \* artifact -> bytes
  MaxBudget,    \* bound on the bytes of a preflight
  MaxFaults     \* bound on the objects that are lost or damaged

ManifestAssumption ==
  /\ Launches \subseteq Nat /\ Components \subseteq Nat
  /\ SizeOf \in [Artifacts -> Nat] /\ MaxBudget \in Nat

VARIABLES
  needs,      \* launch -> what it depends on
  order,      \* launch_order
  next,       \* the launch the sweep looks at
  progress,   \* whether this sweep has scheduled one
  status,     \* ordering, then cyclic, unknown or stored, then checked
  names,      \* component -> artifact
  object,     \* artifact -> good, damaged or lost
  remaining,  \* bytes of the preflight's budget
  budget,
  integrity,  \* artifacts that were hashed, and what came of it
  verdict,    \* component -> what the preflight says
  faults,
  sound       \* history: artifacts that were good when they were hashed
plan == <<needs, order, next, progress>>
check == <<remaining, budget, integrity, verdict, sound>>
vars == <<plan, status, names, object, check, faults>>

Scheduled == Range(order)
First(S) == CHOOSE x \in S : \A y \in S : x <= y
After(S, n) == LET T == {x \in S : x > n} IN IF T = {} THEN 0 ELSE First(T)

Init ==
  /\ needs \in [Launches -> SUBSET (Launches \cup {Unknown})]
  /\ order = <<>> /\ next = First(Launches) /\ progress = FALSE /\ status = "ordering"
  /\ names \in [Components -> Artifacts]
  /\ object = [a \in Artifacts |-> "good"]
  /\ budget \in 0..MaxBudget /\ remaining = budget
  /\ integrity = [a \in {} |-> ""] /\ verdict = <<>> /\ faults = 0 /\ sound = {}

-----------------------------------------------------------------------------

Ready(l) == needs[l] \subseteq Scheduled

\* Another sweep follows one that has scheduled something, unless all are.
AfterSweep(o, any) ==
  IF Range(o) = Launches THEN "stored" ELSE IF any THEN "ordering" ELSE "cyclic"

\* canonical_manifest looks at one launch of the sweep.
Order ==
  LET fresh == next \notin Scheduled
      takes == fresh /\ Ready(next)
      ends == After(Launches, next) = 0
  IN /\ status = "ordering"
     /\ IF fresh /\ Unknown \in needs[next]
        THEN status' = "unknown" /\ UNCHANGED plan
        ELSE /\ order' = IF takes THEN Append(order, next) ELSE order
             /\ status' = IF ends THEN AfterSweep(order', progress \/ takes) ELSE "ordering"
             /\ progress' = (~ends /\ (progress \/ takes))
             /\ next' = IF ends THEN First(Launches) ELSE After(Launches, next)
             /\ UNCHANGED needs
     /\ UNCHANGED <<names, object, check, faults>>

-----------------------------------------------------------------------------
At == Len(verdict) + 1
Known(a) == a \in DOMAIN integrity

Affordable(a) == SizeOf[a] <= remaining

\* What reading the object comes to; one that cannot be read is not remembered.
Hashed(a) ==
  CASE object[a] = "good" -> "verified" [] object[a] = "damaged" -> "integrity_mismatch"
    [] object[a] = "lost" -> "unavailable"

\* preflight looks at one component: an artifact that was hashed is not hashed
\* again, one that does not fit is not hashed at all.
Preflight ==
  LET a == names[At] IN
    /\ status = "stored" /\ At \in Components
    /\ IF Known(a)
       THEN verdict' = Append(verdict, integrity[a]) /\ UNCHANGED <<remaining, integrity, sound>>
       ELSE IF ~Affordable(a)
       THEN verdict' = Append(verdict, "not_checked") /\ UNCHANGED <<remaining, integrity, sound>>
       ELSE /\ remaining' = remaining - SizeOf[a]
            /\ verdict' = Append(verdict, Hashed(a))
            /\ integrity' = IF object[a] = "lost" THEN integrity
                            ELSE [x \in DOMAIN integrity \cup {a} |->
                                    IF x = a THEN Hashed(a) ELSE integrity[x]]
            /\ sound' = IF object[a] = "good" THEN sound \cup {a} ELSE sound
    /\ status' = IF At + 1 \in Components THEN "stored" ELSE "checked"
    /\ UNCHANGED <<plan, names, object, budget, faults>>

Partial == \E i \in DOMAIN verdict : verdict[i] # "verified"

\* An object is lost or damaged; a lost one is imported again.
Fault(a, how) ==
  /\ faults < MaxFaults /\ faults' = faults + 1 /\ object[a] # how
  /\ object' = [object EXCEPT ![a] = how]
  /\ UNCHANGED <<plan, status, names, check>>

Next ==
  \/ Order \/ Preflight
  \/ \E a \in Artifacts, how \in {"damaged", "lost", "good"} : Fault(a, how)
Spec == Init /\ [][Next]_vars /\ WF_vars(Order) /\ WF_vars(Preflight)

-----------------------------------------------------------------------------
\* canonical_manifest: in the order that is stored every launch has its place,
\* once, behind everything it depends on.
OrderIsGood ==
  /\ \A i \in DOMAIN order : needs[order[i]] \subseteq {order[j] : j \in 1..(i - 1)}
  /\ status \in {"stored", "checked"} => Scheduled = Launches /\ Len(order) = Cardinality(Launches)

\* canonical_manifest: a manifest is only refused when no order exists: a launch
\* depends on what is not there, or some depend on one another.
RefusedForCause ==
  /\ status = "unknown" => \E l \in Launches : Unknown \in needs[l]
  /\ status = "cyclic" => \E S \in SUBSET Launches :
       S # {} /\ \A l \in S : needs[l] \cap S # {}

\* preflight: the bytes that are hashed stay within the budget, however often
\* an artifact is named.
HashedWithinBudget ==
  LET total[S \in SUBSET Artifacts] ==
        IF S = {} THEN 0 ELSE LET a == CHOOSE a \in S : TRUE IN SizeOf[a] + total[S \ {a}]
  IN remaining >= 0 /\ total[DOMAIN integrity] <= budget

\* preflight: one that is not partial has found every component's bytes to be
\* what the manifest names, in this preflight.
CompleteMeansSound ==
  status = "checked" /\ ~Partial => \A c \in Components : names[c] \in sound

\* canonical_manifest: the sweeps come to an end, and so does a preflight.
Ends == <>(status \in {"cyclic", "unknown", "checked"})
=============================================================================
