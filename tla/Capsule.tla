------------------------------ MODULE Capsule ------------------------------
(***************************************************************************)
(* The native capsule of an investigation (harness_workbench.hpp,          *)
(* harness_scope.hpp): a mutation is normalized when it is proposed, again *)
(* when it is dispatched and again in the worker, publishes one knowledge  *)
(* revision together with the pointer to it, and may add one derived       *)
(* component to the scope.  Records are revised by others all the while,   *)
(* and runs and workers die between any two steps.                         *)
(***************************************************************************)
EXTENDS Integers, FiniteSets

CONSTANTS
  Actions,
  Ids,           \* knowledge records
  Roots,         \* artifacts of the investigation's scope
  Out,           \* what the transform makes of an artifact
  SizeOf,        \* artifact -> bytes
  MaxArtifacts, MaxBytes,  \* the grant of derived artifacts
  Repeats,       \* actions of one request: 3 in the code
  MaxRevision,   \* bound on the revisions of a record
  MaxMoves,      \* bound on the revisions others publish
  MaxRuns,       \* bound on the runs of actions
  None

CapsuleAssumption ==
  /\ Roots \subseteq DOMAIN SizeOf /\ DOMAIN Out \subseteq DOMAIN SizeOf
  /\ \A s \in DOMAIN SizeOf : SizeOf[s] \in Nat
  /\ \A s \in DOMAIN Out : Out[s] \in DOMAIN SizeOf
  /\ MaxArtifacts \in Nat /\ MaxBytes \in Nat

VARIABLES
  rev,        \* record -> its head, 0 if there is none
  author,     \* revision -> the action that published it, others, or none
  targets,    \* artifacts of the project
  derived,    \* components that were admitted
  reserved,   \* artifacts and bytes the proposals have taken of the grant
  request,    \* action -> its normalized request
  started,    \* dispatch_started of its record
  pub,        \* publication of its record
  result,
  run,        \* the action that is run, and where it is
  worker,     \* action -> where its worker is
  lost,       \* actions whose worker has lost the runner's lease
  cancelled, moves, runs
world == <<rev, author, targets>>
records == <<derived, reserved, request, started, pub, result, cancelled>>
vars == <<world, records, run, worker, lost, moves, runs>>

Revisions == Ids \X (1..MaxRevision)
Bytes(S) ==
  LET f[T \in SUBSET S] == IF T = {} THEN 0 ELSE LET x == CHOOSE x \in T : TRUE IN SizeOf[x] + f[T \ {x}]
  IN f[S]
Admitted == {d.sha : d \in derived}
Components == Roots \cup Admitted
Shrinks(s) == s \in DOMAIN Out

Init ==
  /\ rev = [k \in Ids |-> 0] /\ author = [x \in Revisions |-> None]
  /\ targets = Roots /\ derived = {} /\ reserved = [artifacts |-> 0, bytes |-> 0]
  /\ request = [a \in Actions |-> None] /\ started = [a \in Actions |-> FALSE]
  /\ pub = [a \in Actions |-> None] /\ result = [a \in Actions |-> None]
  /\ run = None /\ worker = [a \in Actions |-> "none"] /\ lost = {}
  /\ cancelled = FALSE /\ moves = 0 /\ runs = 0

-----------------------------------------------------------------------------
\* Mutant: whose assertion is revised is not looked at.
UntouchedAny(q) == q.id \in Ids /\ q.expected = rev[q.id] /\ q.expected > 0

\* A revision replaces the head, which is what this investigation published last
\* and nobody has touched since, of the same component.
Untouched(q) ==
  /\ q.id \in Ids /\ q.expected = rev[q.id] /\ q.expected > 0
  /\ LET by == author[<<q.id, q.expected>>] IN
       /\ by \in Actions /\ request[by].op \in {"put", "revise"}
       /\ request[by].on = q.on

\* A transform reserves what its output may take.
Reservation(q) == IF q.op = "transform" THEN [artifacts |-> 1, bytes |-> SizeOf[q.on]]
                  ELSE [artifacts |-> 0, bytes |-> 0]

PinsHold(q) == \A pin \in q.pins : rev[pin[1]] = pin[2]

\* normalize_harness_workbench throws, or returns the request with its pins.  A
\* request that was normalized before comes back the same or throws.
Normal(q) ==
  /\ q.on \in Components
  /\ PinsHold(q)
  /\ q.op = "revise" => Untouched(q)
  /\ q.op = "transform" => MaxArtifacts > 0 /\ MaxBytes > 0 /\ Shrinks(q.on)

\* What may be asked: an assertion, its replacement, a computed record, a
\* transform.  Records that are named are pinned to their heads; a replacement
\* keeps the pins of the request it replaces or names its own.
Pinned(K) == {<<k, rev[k]>> : k \in K}
Known == {k \in Ids : rev[k] > 0}
Asked ==
  [op : {"put", "compute"}, on : Components, id : {None}, expected : {0},
   pins : {Pinned(K) : K \in SUBSET Known}]
  \cup {[op |-> "revise", on |-> s, id |-> k, expected |-> rev[k], pins |-> Pinned({k}) \cup p] :
          s \in Components, k \in Known,
          p \in {{}} \cup {request[b].pins : b \in {b \in Actions : request[b] # None}}}
  \cup [op : {"transform"}, on : Components, id : {None}, expected : {0}, pins : {{}}]

Fits(r) ==
  /\ reserved.artifacts + r.artifacts <= MaxArtifacts
  /\ reserved.bytes + r.bytes <= MaxBytes

Alike(q) == {b \in Actions : request[b] = q}

\* harness propose
Propose(a) ==
  /\ request[a] = None /\ ~cancelled
  /\ \E q \in Asked :
       /\ Normal(q)
       /\ \A b \in Alike(q) : result[b] # "unknown"
       /\ Cardinality(Alike(q)) < Repeats
       /\ q.op = "transform" => Fits(Reservation(q))
       /\ request' = [request EXCEPT ![a] = q]
       /\ reserved' = [artifacts |-> reserved.artifacts + Reservation(q).artifacts,
                       bytes |-> reserved.bytes + Reservation(q).bytes]
  /\ UNCHANGED <<world, derived, started, pub, result, run, worker, lost, cancelled, moves, runs>>

-----------------------------------------------------------------------------
\* A run claims an action that has no result, or one whose outcome was unknown
\* and whose publication is there.
Claim(a) ==
  /\ run = None /\ request[a] # None /\ ~cancelled /\ runs < MaxRuns
  /\ result[a] = None \/ (result[a] = "unknown" /\ pub[a] # None)
  /\ run' = [action |-> a, at |-> "begin", got |-> None] /\ runs' = runs + 1
  /\ UNCHANGED <<world, records, worker, lost, moves>>

\* recover_harness_publication: the pointer's revision is there, this action's,
\* and the one that was asked for.
Recovered(a) ==
  LET q == request[a] IN
    IF /\ pub[a] # None /\ author[pub[a]] = a
       /\ q.op = "revise" => pub[a] = <<q.id, q.expected + 1>>
    THEN "completed" ELSE "unknown"

Got(g) == run' = [run EXCEPT !.at = "settle", !.got = g]

\* The look-up itself may fail, and is tried again by a later run.
LooksUp(a) == Got(Recovered(a)) \/ Got("unknown")

\* run_action: what was dispatched is only looked up.
Begin ==
  /\ run # None /\ run.at = "begin"
  /\ LET a == run.action IN
       \/ /\ started[a] /\ LooksUp(a) /\ UNCHANGED <<started, worker>>
       \/ /\ ~started[a] /\ ~Normal(request[a]) /\ Got("failed") /\ UNCHANGED <<started, worker>>
       \/ /\ ~started[a] /\ Normal(request[a]) /\ cancelled /\ Got("cancelled")
          /\ UNCHANGED <<started, worker>>
       \/ /\ ~started[a] /\ Normal(request[a]) /\ ~cancelled
          /\ started' = [started EXCEPT ![a] = TRUE]
          /\ worker' = [worker EXCEPT ![a] = "started"]
          /\ run' = [run EXCEPT !.at = "wait"]
  /\ UNCHANGED <<world, derived, reserved, request, pub, result, lost, cancelled, moves, runs>>

\* The worker looks at everything again.
WorkerChecks(a) ==
  /\ worker[a] = "started"
  /\ worker' = [worker EXCEPT ![a] =
       IF ~cancelled /\ pub[a] = None /\ a \notin lost /\ Normal(request[a]) THEN "checked" ELSE "ended"]
  /\ UNCHANGED <<world, records, run, lost, moves, runs>>

\* A transform first stages and imports its output, which nothing fences.
WorkerImports(a) ==
  /\ worker[a] = "checked" /\ request[a].op = "transform"
  /\ targets' = targets \cup {Out[request[a].on]}
  /\ worker' = [worker EXCEPT ![a] = "imported"]
  /\ UNCHANGED <<rev, author, records, run, lost, moves, runs>>

\* check_publication_dependencies, in the transaction that publishes.
MayPublish(a) == a \notin lost /\ pub[a] = None /\ PinsHold(request[a])

\* The record and the pointer to it are one transaction.
Publish(a) ==
  /\ worker[a] \in {"checked", "imported"}
  /\ worker[a] = IF request[a].op = "transform" THEN "imported" ELSE "checked"
  /\ worker' = [worker EXCEPT ![a] = "ended"]
  /\ \/ /\ MayPublish(a)
        /\ \E k \in Ids :
             /\ IF request[a].op = "revise" THEN k = request[a].id ELSE rev[k] = 0
             /\ rev[k] < MaxRevision
             /\ rev' = [rev EXCEPT ![k] = @ + 1]
             /\ author' = [author EXCEPT ![<<k, rev[k] + 1>>] = a]
             /\ pub' = [pub EXCEPT ![a] = <<k, rev[k] + 1>>]
     \/ /\ ~MayPublish(a) /\ UNCHANGED <<rev, author, pub>>
  /\ UNCHANGED <<targets, derived, reserved, request, started, result, run, lost, cancelled, moves, runs>>

\* It is killed, times out or throws.
WorkerEnds(a) ==
  /\ worker[a] \in {"started", "checked", "imported"}
  /\ worker' = [worker EXCEPT ![a] = "ended"]
  /\ UNCHANGED <<world, records, run, lost, moves, runs>>

\* The run reads what the worker has left behind.
Read ==
  /\ run # None /\ run.at = "wait" /\ worker[run.action] = "ended" /\ LooksUp(run.action)
  /\ UNCHANGED <<world, records, worker, lost, moves, runs>>

Admits(a) ==
  /\ run.got = "completed" /\ request[a].op = "transform" /\ ~cancelled
  /\ request[a].on \in Components /\ Out[request[a].on] \notin Components
  /\ Cardinality(derived) < MaxArtifacts

\* The result is saved together with the component it adds.
Settle ==
  /\ run # None /\ run.at = "settle"
  /\ LET a == run.action IN
       /\ result' = [result EXCEPT ![a] = run.got]
       /\ derived' = IF Admits(a)
                     THEN derived \cup {[sha |-> Out[request[a].on], parent |-> request[a].on, by |-> a]}
                     ELSE derived
  /\ run' = None
  /\ UNCHANGED <<world, reserved, request, started, pub, worker, lost, cancelled, moves, runs>>

\* The run dies, or stalls until its lease is over; its worker may live on.
RunLost ==
  /\ run # None /\ run' = None /\ lost' = lost \cup {run.action}
  /\ UNCHANGED <<world, records, worker, moves, runs>>

-----------------------------------------------------------------------------
Cancel ==
  /\ ~cancelled /\ cancelled' = TRUE
  /\ UNCHANGED <<world, derived, reserved, request, started, pub, result, run, worker, lost, moves, runs>>

\* Somebody else publishes a revision of a record, or a new one.
Others(k) ==
  /\ moves < MaxMoves /\ rev[k] < MaxRevision
  /\ moves' = moves + 1
  /\ rev' = [rev EXCEPT ![k] = @ + 1]
  /\ author' = [author EXCEPT ![<<k, rev[k] + 1>>] = "others"]
  /\ UNCHANGED <<targets, records, run, worker, lost, runs>>

Next ==
  \/ \E a \in Actions : Propose(a) \/ Claim(a) \/ WorkerChecks(a) \/ WorkerImports(a)
                        \/ Publish(a) \/ WorkerEnds(a)
  \/ Begin \/ Read \/ Settle \/ RunLost \/ Cancel
  \/ \E k \in Ids : Others(k)

Spec == Init /\ [][Next]_vars

-----------------------------------------------------------------------------
TypeOK ==
  /\ rev \in [Ids -> 0..MaxRevision]
  /\ author \in [Revisions -> Actions \cup {"others", None}]
  /\ targets \subseteq DOMAIN SizeOf
  /\ \A d \in derived : d.sha \in targets /\ d.parent \in Components /\ d.by \in Actions
  /\ \A a \in Actions : pub[a] # None => pub[a] \in Revisions /\ author[pub[a]] = a
  /\ lost \subseteq Actions

\* normalize_harness_workbench: what an action replaces is an assertion this
\* investigation made and nobody has revised since, whoever revises records
\* between the proposal, the dispatch, the worker's look and the publication.
OnlyOwnRevised ==
  \A x \in Revisions :
    author[x] \in Actions /\ x[2] > 1 =>
      /\ author[<<x[1], x[2] - 1>>] \in Actions
      /\ request[author[<<x[1], x[2] - 1>>]].op \in {"put", "revise"}
      /\ request[author[<<x[1], x[2] - 1>>]].on = request[author[x]].on

\* harness propose and the settlement of a run (harness.cpp:1167, 420): what was
\* derived stays within the grant in number and in bytes, and each component was
\* made by an action that published, from a root or from another one.
WithinGrant ==
  /\ Cardinality(derived) <= MaxArtifacts
  /\ Bytes(Admitted) <= MaxBytes
  /\ \A d \in derived : pub[d.by] # None /\ d.sha = Out[d.parent] /\ d.parent # d.sha

\* run_action: an action that failed or was cancelled has published nothing, and
\* one that completed has.
ResultIsTrue ==
  \A a \in Actions :
    /\ result[a] \in {"failed", "cancelled"} => pub[a] = None /\ worker[a] = "none"
    /\ result[a] = "completed" => pub[a] # None

\* run_action: nothing is published once an action's outcome was settled as
\* unknown, by a worker that has outlived the run that started it.
UnknownIsFinal ==
  \A a \in Actions : result[a] = "unknown" => pub'[a] = pub[a]

\* harness cancel: no component joins the scope of a cancelled investigation.
NothingAfterCancel == cancelled => derived' = derived
=============================================================================
