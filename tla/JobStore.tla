------------------------------ MODULE JobStore ------------------------------
(***************************************************************************)
(* The static-analysis job store of IndagoRev: the tables jobs,            *)
(* job_leases, job_events, idempotency, evidence and the derived index of  *)
(* src/core.cpp, together with the calls that drive them                   *)
(* (StaticService::prepare and ::execute of src/service.cpp, and the       *)
(* commands of src/main.cpp).                                              *)
(*                                                                         *)
(* Every transaction of the store is one step: it runs under BEGIN         *)
(* IMMEDIATE, and an exception closes the connection and rolls it back.    *)
(* What happens between two transactions of one call is interleaved with   *)
(* every other call.  A call is one use of the CLI: it draws a fresh lease *)
(* token, so the call itself stands for its token.                         *)
(*                                                                         *)
(* The clock is abstracted: a lease's deadline may pass at any moment      *)
(* after it was set, and a heartbeat moves it to the future again.         *)
(***************************************************************************)
EXTENDS Naturals, Sequences, FiniteSets

CONSTANTS
  Jobs,        \* job ids that make_id can draw
  Calls,       \* calls of the service; each is its own lease token
  Keys,        \* idempotency keys
  Scopes,      \* sha256 of (artifact, backend, operation, address, view, arguments)
  MapScopes,   \* scopes whose native result carries the program's segments
  Outcomes     \* statuses a result may be published with

NoJob  == "no job"
NoCall == "no call"
NoKey  == "no key"
None   == "none"

(* Statuses a job row has before a result is published for it. *)
Active == {"queued", "running"}

(* The statuses that make a result new knowledge (persist_index). *)
Useful == {"completed", "partial"}

ASSUME OutcomesAssumption ==
  /\ {"completed", "failed", "cancelled"} \subseteq Outcomes
  /\ Outcomes \cap (Active \cup {"absent", None}) = {}

ASSUME NamesAssumption ==
  /\ NoJob \notin Jobs
  /\ NoCall \notin Calls
  /\ NoKey \notin Keys
  /\ MapScopes \subseteq Scopes

(* What a normalized request is, as far as the store tells requests apart. *)
Requests == [key : Keys \cup {NoKey}, scope : Scopes]
NoRequest == [key |-> NoKey, scope |-> None]

Statuses == Active \cup {"absent", "interrupted"} \cup Outcomes
Kinds    == {"queued", "started", "interrupted"} \cup Outcomes

VARIABLES
  status,      \* jobs.status; "absent" before the row exists
  request,     \* jobs.request
  result,      \* status inside jobs.result, None while the column is empty
  owner,       \* job_leases.token, NoCall when there is no row
  expired,     \* jobs whose lease row has deadline < now
  binding,     \* idempotency: the job a key is bound to
  events,      \* job_events of a job, in sequence order
  evidence,    \* evidence rows in rowid order
  heads,       \* analysis_heads: the job whose revision is current in a scope
  layout,      \* the newest artifact_layouts row: the job that recorded it
  basis,       \* index rows of a job: the layout they were normalized with
  mirror,      \* status inside the analyses/<revision>.json convenience file
  cancelFile,  \* jobs with a .cancel file
  cancelling,  \* cancel_job calls between reading the job and writing the file
  pc,          \* where a call is
  job,         \* the job a call works for
  token,       \* lease_token in the call's job record, NoCall if it has none
  outcome,     \* the status of the call's CommandResult
  lost         \* lease_lost of the call's heartbeat thread

rows  == <<status, request, result, owner, expired, binding, events, evidence>>
index == <<heads, layout, basis>>
files == <<mirror, cancelFile, cancelling>>
local == <<pc, job, token, outcome, lost>>
vars  == <<rows, index, files, local>>

PCs == {"idle", "prepared", "attached", "claiming", "claimed", "backend",
        "publishing", "mirroring", "done"}

Row == [job : Jobs, status : Outcomes]

Init ==
  /\ status = [j \in Jobs |-> "absent"]
  /\ request = [j \in Jobs |-> NoRequest]
  /\ result = [j \in Jobs |-> None]
  /\ owner = [j \in Jobs |-> NoCall]
  /\ expired = {}
  /\ binding = [k \in Keys |-> NoJob]
  /\ events = [j \in Jobs |-> << >>]
  /\ evidence = << >>
  /\ heads = [s \in Scopes |-> NoJob]
  /\ layout = NoJob
  /\ basis = [j \in Jobs |-> None]
  /\ mirror = [j \in Jobs |-> None]
  /\ cancelFile = {}
  /\ cancelling = {}
  /\ pc = [c \in Calls |-> "idle"]
  /\ job = [c \in Calls |-> NoJob]
  /\ token = [c \in Calls |-> NoCall]
  /\ outcome = [c \in Calls |-> None]
  /\ lost = [c \in Calls |-> FALSE]

Goto(c, label) == pc' = [pc EXCEPT ![c] = label]

Log(j, kind) == events' = [events EXCEPT ![j] = Append(@, kind)]

-----------------------------------------------------------------------------
(* The derived index. *)

(* Mutant: a failed retry also becomes the head of its scope. *)
PersistIndexAnyStatus(ix, e) ==
  [heads  |-> [ix.heads EXCEPT ![request[e.job].scope] = e.job],
   layout |-> IF request[e.job].scope \in MapScopes THEN e.job ELSE ix.layout,
   basis  |-> [ix.basis EXCEPT ![e.job] = ix.layout]]

(* persist_index for one evidence row e, from the index ix before it: the  *)
(* rows are normalized with the newest layout, and only a useful result    *)
(* becomes the head of its scope and may record a new layout.              *)
PersistIndex(ix, e) ==
  LET scope == request[e.job].scope
      useful == e.status \in Useful
  IN [heads  |-> IF useful THEN [ix.heads EXCEPT ![scope] = e.job] ELSE ix.heads,
      layout |-> IF useful /\ scope \in MapScopes THEN e.job ELSE ix.layout,
      basis  |-> [ix.basis EXCEPT ![e.job] = ix.layout]]

EmptyIndex == [heads  |-> [s \in Scopes |-> NoJob],
               layout |-> NoJob,
               basis  |-> [j \in Jobs |-> None]]

Index == [heads |-> heads, layout |-> layout, basis |-> basis]

SetIndex(ix) ==
  /\ heads' = ix.heads
  /\ layout' = ix.layout
  /\ basis' = ix.basis

(* Mutant: the rebuild reads the evidence newest first. *)
ReplayNewestFirst(rowsById) ==
  LET after[n \in 0..Len(rowsById)] ==
        IF n = 0 THEN EmptyIndex
        ELSE PersistIndex(after[n - 1], rowsById[Len(rowsById) + 1 - n])
  IN after[Len(rowsById)]

(* The index after replaying evidence rows in rowid order. *)
Replay(rowsById) ==
  LET after[n \in 0..Len(rowsById)] ==
        IF n = 0 THEN EmptyIndex ELSE PersistIndex(after[n - 1], rowsById[n])
  IN after[Len(rowsById)]

(* reindex: drop the derived tables and replay the evidence, in one        *)
(* transaction.                                                            *)
Reindex ==
  /\ SetIndex(Replay(evidence))
  /\ UNCHANGED <<rows, files, local>>

-----------------------------------------------------------------------------
(* Submitting a job. *)

(* start_job finds the key bound to the same request: it returns that job. *)
PrepareAgain(c, r) ==
  /\ pc[c] = "idle"
  /\ r.key # NoKey
  /\ binding[r.key] # NoJob
  /\ request[binding[r.key]] = r
  /\ job' = [job EXCEPT ![c] = binding[r.key]]
  /\ Goto(c, IF status[binding[r.key]] = "queued" THEN "prepared" ELSE "attached")
  /\ UNCHANGED <<rows, index, files, token, outcome, lost>>

(* start_job finds the key bound to another request and throws. *)
PrepareRefused(c, r) ==
  /\ pc[c] = "idle"
  /\ r.key # NoKey
  /\ binding[r.key] # NoJob
  /\ request[binding[r.key]] # r
  /\ Goto(c, "done")
  /\ UNCHANGED <<rows, index, files, job, token, outcome, lost>>

(* start_job inserts the job, its binding and its first event. *)
Prepare(c, r, j) ==
  /\ pc[c] = "idle"
  /\ r.key # NoKey => binding[r.key] = NoJob
  /\ status[j] = "absent"
  /\ status' = [status EXCEPT ![j] = "queued"]
  /\ request' = [request EXCEPT ![j] = r]
  /\ binding' = IF r.key = NoKey THEN binding ELSE [binding EXCEPT ![r.key] = j]
  /\ Log(j, "queued")
  /\ job' = [job EXCEPT ![c] = j]
  /\ Goto(c, "prepared")
  /\ UNCHANGED <<result, owner, expired, evidence, index, files, token, outcome, lost>>

(* The __worker command: a spawned or operator-started worker names a job. *)
Attach(c, j) ==
  /\ pc[c] = "idle"
  /\ status[j] # "absent"
  /\ job' = [job EXCEPT ![c] = j]
  /\ Goto(c, "attached")
  /\ UNCHANGED <<rows, index, files, token, outcome, lost>>

(* A result published without a lease for a job the call saw queued: the   *)
(* submit command whose worker could not be spawned publishes "failed",    *)
(* runtime feedback publishes its overlay as "completed".                  *)
PublishUnclaimed(c, o) ==
  /\ pc[c] = "prepared"
  /\ o \in {"failed", "completed"}
  /\ o = "completed" => request[job[c]].key = NoKey
  /\ outcome' = [outcome EXCEPT ![c] = o]
  /\ Goto(c, "publishing")
  /\ UNCHANGED <<rows, index, files, job, token, lost>>

-----------------------------------------------------------------------------
(* Executing a job. *)

(* execute reads the job: a published result is returned as it is. *)
ReadJob(c) ==
  /\ pc[c] \in {"prepared", "attached"}
  /\ Goto(c, IF result[job[c]] = None THEN "claiming" ELSE "done")
  /\ UNCHANGED <<rows, index, files, job, token, outcome, lost>>

(* Mutant: an expired lease may be taken over by the next claim. *)
MayClaimExpired(j) == status[j] \in Active /\ (owner[j] = NoCall \/ j \in expired)

(* Mutant: a terminal job may be claimed again, as a retry of the same row. *)
MayClaimTerminal(j) == status[j] # "absent" /\ owner[j] = NoCall

MayClaim(j) == status[j] \in Active /\ owner[j] = NoCall

(* claim_job: the lease row, the status and the event in one transaction. *)
Claim(c) ==
  /\ pc[c] = "claiming"
  /\ MayClaim(job[c])
  /\ owner' = [owner EXCEPT ![job[c]] = c]
  /\ expired' = expired \ {job[c]}
  /\ status' = [status EXCEPT ![job[c]] = "running"]
  /\ Log(job[c], "started")
  /\ token' = [token EXCEPT ![c] = c]
  /\ Goto(c, "claimed")
  /\ UNCHANGED <<request, result, binding, evidence, index, files, job, outcome, lost>>

(* claim_job throws: the job is terminal or already has an owner. *)
ClaimRefused(c) ==
  /\ pc[c] = "claiming"
  /\ ~MayClaim(job[c])
  /\ Goto(c, "done")
  /\ UNCHANGED <<rows, index, files, job, token, outcome, lost>>

(* The heartbeat thread runs from the claim to the join after the backend. *)
Beating(c) == pc[c] \in {"claimed", "backend"} /\ ~lost[c]

(* heartbeat: the deadline moves on whenever the row still has the token,  *)
(* whether or not it had already passed.                                   *)
Heartbeat(c) ==
  /\ Beating(c)
  /\ owner[job[c]] = token[c]
  /\ expired' = expired \ {job[c]}
  /\ UNCHANGED <<status, request, result, owner, binding, events, evidence,
                 index, files, local>>

(* heartbeat changes no row, or its connection throws (storage or database *)
(* busy): the thread records the loss and ends.                            *)
HeartbeatFails(c) ==
  /\ Beating(c)
  /\ lost' = [lost EXCEPT ![c] = TRUE]
  /\ UNCHANGED <<rows, index, files, pc, job, token, outcome>>

(* execute looks for the cancel file, and either runs the backend or       *)
(* settles for "cancelled".  With the file there, the backend never runs.  *)
StartBackend(c) ==
  /\ pc[c] = "claimed"
  /\ job[c] \notin cancelFile
  /\ Goto(c, "backend")
  /\ UNCHANGED <<rows, index, files, job, token, outcome, lost>>

(* Mutant: the backend's vocabulary is published as it is. *)
FinishRaw(c, o) ==
  /\ outcome' = [outcome EXCEPT ![c] = IF o = "completed" THEN "complete" ELSE o]
  /\ Goto(c, IF lost[c] THEN "done" ELSE "publishing")
  /\ UNCHANGED <<rows, index, files, job, token, lost>>

(* The backend is over (or was skipped): join the heartbeat, then publish  *)
(* unless the lease was lost.                                              *)
Finish(c, o) ==
  /\ outcome' = [outcome EXCEPT ![c] = o]
  /\ Goto(c, IF lost[c] THEN "done" ELSE "publishing")
  /\ UNCHANGED <<rows, index, files, job, token, lost>>

(* "failed" also stands for an exception: integrity check, worker, parse. *)
FinishBackend(c, o) ==
  /\ pc[c] = "backend" \/ (pc[c] = "claimed" /\ o = "failed")
  /\ Finish(c, o)

SkipBackend(c) ==
  /\ pc[c] = "claimed"
  /\ job[c] \in cancelFile
  /\ Finish(c, "cancelled")

-----------------------------------------------------------------------------
(* Publishing a result. *)

(* Mutant: only an expired lease keeps a publication out. *)
LeaseAdmitsAnyToken(c) == owner[job[c]] # NoCall => job[c] \notin expired

LeaseAdmits(c) ==
  owner[job[c]] # NoCall => owner[job[c]] = token[c] /\ job[c] \notin expired

(* Mutant: a late worker may publish once its lease row is gone. *)
MayPublishTerminal(c) == result[job[c]] = None /\ LeaseAdmits(c)

MayPublish(c) ==
  /\ result[job[c]] = None
  /\ status[job[c]] \in Active
  /\ LeaseAdmits(c)

(* publish_result commits: evidence, index, job row, event and lease in    *)
(* one transaction.                                                        *)
Publish(c) ==
  LET j == job[c]
      e == [job |-> j, status |-> outcome[c]]
  IN /\ pc[c] = "publishing"
     /\ MayPublish(c)
     /\ evidence' = Append(evidence, e)
     /\ SetIndex(PersistIndex(Index, e))
     /\ status' = [status EXCEPT ![j] = outcome[c]]
     /\ result' = [result EXCEPT ![j] = outcome[c]]
     /\ Log(j, outcome[c])
     /\ owner' = [owner EXCEPT ![j] = NoCall]
     /\ expired' = expired \ {j}
     /\ Goto(c, "mirroring")
     /\ UNCHANGED <<request, binding, files, job, token, outcome, lost>>

(* publish_result finds a result and returns it, or throws; either way the *)
(* transaction changes nothing.                                            *)
PublishNothing(c) ==
  /\ pc[c] = "publishing"
  /\ ~MayPublish(c)
  /\ Goto(c, "done")
  /\ UNCHANGED <<rows, index, files, job, token, outcome, lost>>

(* After the commit: the convenience file, written only if it is missing.  *)
WriteMirror(c) ==
  /\ pc[c] = "mirroring"
  /\ mirror' = IF mirror[job[c]] = None
               THEN [mirror EXCEPT ![job[c]] = outcome[c]] ELSE mirror
  /\ Goto(c, "done")
  /\ UNCHANGED <<rows, index, cancelFile, cancelling, job, token, outcome, lost>>

(* The process dies, or a call outside the modelled transactions throws    *)
(* (storage busy, a result that breaks its contract, a failed mirror).     *)
(* Its rows stay as they are; its heartbeat stops.                         *)
Abandon(c) ==
  /\ pc[c] \notin {"idle", "done"}
  /\ Goto(c, "done")
  /\ UNCHANGED <<rows, index, files, job, token, outcome, lost>>

-----------------------------------------------------------------------------
(* Time, recovery and cancellation. *)

(* The deadline of a lease row passes. *)
Expire(j) ==
  /\ owner[j] # NoCall
  /\ j \notin expired
  /\ expired' = expired \cup {j}
  /\ UNCHANGED <<status, request, result, owner, binding, events, evidence,
                 index, files, local>>

Recoverable == {j \in Jobs : status[j] = "running" /\ (owner[j] = NoCall \/ j \in expired)}

(* Mutant: recovery leaves the lease rows behind. *)
RecoverJobsKeepLease ==
  /\ Recoverable # {}
  /\ status' = [j \in Jobs |-> IF j \in Recoverable THEN "interrupted" ELSE status[j]]
  /\ events' = [j \in Jobs |-> IF j \in Recoverable THEN Append(events[j], "interrupted")
                               ELSE events[j]]
  /\ UNCHANGED <<owner, expired, request, result, binding, evidence, index, files, local>>

(* recover_jobs: every running job without a live lease is interrupted. *)
RecoverJobs ==
  /\ Recoverable # {}
  /\ status' = [j \in Jobs |-> IF j \in Recoverable THEN "interrupted" ELSE status[j]]
  /\ events' = [j \in Jobs |-> IF j \in Recoverable THEN Append(events[j], "interrupted")
                               ELSE events[j]]
  /\ owner' = [j \in Jobs |-> IF j \in Recoverable THEN NoCall ELSE owner[j]]
  /\ expired' = expired \ Recoverable
  /\ UNCHANGED <<request, result, binding, evidence, index, files, local>>

(* cancel_job reads the job first and writes the file later. *)
CancelRead(j) ==
  /\ status[j] \in Active
  /\ j \notin cancelling
  /\ cancelling' = cancelling \cup {j}
  /\ UNCHANGED <<rows, index, mirror, cancelFile, local>>

CancelWrite(j) ==
  /\ j \in cancelling
  /\ cancelling' = cancelling \ {j}
  /\ cancelFile' = cancelFile \cup {j}
  /\ UNCHANGED <<rows, index, mirror, local>>

-----------------------------------------------------------------------------
CallStep(c) ==
  \/ \E r \in Requests : PrepareAgain(c, r) \/ PrepareRefused(c, r)
  \/ \E r \in Requests, j \in Jobs : Prepare(c, r, j)
  \/ \E j \in Jobs : Attach(c, j)
  \/ \E o \in Outcomes : PublishUnclaimed(c, o) \/ FinishBackend(c, o)
  \/ ReadJob(c) \/ Claim(c) \/ ClaimRefused(c)
  \/ Heartbeat(c) \/ HeartbeatFails(c)
  \/ StartBackend(c) \/ SkipBackend(c)
  \/ Publish(c) \/ PublishNothing(c) \/ WriteMirror(c)
  \/ Abandon(c)

StoreStep ==
  \/ \E j \in Jobs : Expire(j) \/ CancelRead(j) \/ CancelWrite(j)
  \/ RecoverJobs \/ Reindex

Next == (\E c \in Calls : CallStep(c)) \/ StoreStep

Spec == Init /\ [][Next]_vars

-----------------------------------------------------------------------------
(* Properties. *)

(* The variables that model code state are well typed: the rows of the     *)
(* tables, the files and the calls' local state.                           *)
StoreTypeOK ==
  /\ status \in [Jobs -> Statuses]
  /\ request \in [Jobs -> Requests \cup {NoRequest}]
  /\ result \in [Jobs -> Outcomes \cup {None}]
  /\ owner \in [Jobs -> Calls \cup {NoCall}]
  /\ expired \in SUBSET Jobs
  /\ binding \in [Keys -> Jobs \cup {NoJob}]
  /\ events \in [Jobs -> Seq(Kinds)]
  /\ evidence \in Seq(Row)
  /\ mirror \in [Jobs -> Outcomes \cup {None}]
  /\ cancelFile \in SUBSET Jobs
  /\ cancelling \in SUBSET Jobs
  /\ pc \in [Calls -> PCs]
  /\ job \in [Calls -> Jobs \cup {NoJob}]
  /\ token \in [Calls -> Calls \cup {NoCall}]
  /\ outcome \in [Calls -> Outcomes \cup {None}]
  /\ lost \in [Calls -> BOOLEAN]

IndexTypeOK ==
  /\ heads \in [Scopes -> Jobs \cup {NoJob}]
  /\ layout \in Jobs \cup {NoJob}
  /\ basis \in [Jobs -> Jobs \cup {NoJob, None}]

(* Every variable of the store and of the derived index has its type. *)
TypeOK == StoreTypeOK /\ IndexTypeOK

(* A job is granted to one call in its whole life: whatever expires, is    *)
(* recovered, retried or submitted again under the same key, no two calls  *)
(* ever hold a lease on (and so run the backend of) the same job.          *)
ClaimedOnce ==
  \A c, d \in Calls :
    token[c] = c /\ token[d] = d /\ job[c] = job[d] => c = d

(* A lease row exists exactly while the job is running, and names the call *)
(* that claimed it.                                                        *)
LeaseMatchesStatus ==
  \A j \in Jobs :
    /\ (owner[j] # NoCall) <=> (status[j] = "running")
    /\ owner[j] # NoCall => job[owner[j]] = j /\ token[owner[j]] = owner[j]
    /\ j \in expired => owner[j] # NoCall

(* Publication is all or nothing and happens at most once: the result in   *)
(* the job row, its status and its single evidence row always agree, and a *)
(* job without a result (interrupted ones too) has no evidence.            *)
PublishedOnce ==
  /\ \A m, n \in DOMAIN evidence : evidence[m].job = evidence[n].job => m = n
  /\ \A n \in DOMAIN evidence : result[evidence[n].job] = evidence[n].status
  /\ \A j \in Jobs : result[j] # None =>
       /\ status[j] = result[j]
       /\ \E n \in DOMAIN evidence : evidence[n].job = j

(* A result published for a claimed job is the outcome of the call that    *)
(* claimed it, never that of a submitter that holds no lease.              *)
ResultIsTheRunners ==
  \A c \in Calls :
    token[c] = c /\ result[job[c]] # None => result[job[c]] = outcome[c]

(* The event log of a job tells its whole life: it was queued first, it    *)
(* started at most once, and it ends with the one terminal event its       *)
(* status names.                                                           *)
EventsTellStatus ==
  \A j \in Jobs :
    CASE status[j] = "absent"  -> events[j] = << >>
      [] status[j] = "queued"  -> events[j] = <<"queued">>
      [] status[j] = "running" -> events[j] = <<"queued", "started">>
      [] OTHER -> \/ events[j] = <<"queued", "started", status[j]>>
                  \/ events[j] = <<"queued", status[j]>> /\ result[j] # None

(* Where a call is tells what it has: a call past start_job names a job    *)
(* row; it holds a token from its claim on; until it publishes, its job    *)
(* has no result, and once it has published, the result is its outcome.    *)
CallsInOrder ==
  \A c \in Calls :
    /\ pc[c] \notin {"idle", "done"} => job[c] \in Jobs /\ status[job[c]] # "absent"
    /\ token[c] \in {c, NoCall}
    /\ pc[c] \in {"idle", "prepared", "attached", "claiming"} => token[c] = NoCall
    /\ pc[c] \in {"claimed", "backend"} => token[c] = c /\ result[job[c]] = None
    /\ token[c] = c => job[c] \in Jobs /\ status[job[c]] \notin {"absent", "queued"}
    /\ pc[c] \in {"publishing", "mirroring"} => outcome[c] \in Outcomes
    /\ pc[c] = "mirroring" => result[job[c]] = outcome[c]

(* An idempotency key is bound to the one job that was ever submitted      *)
(* under it.                                                               *)
KeyNamesOneJob ==
  /\ \A j \in Jobs : request[j].key # NoKey =>
       binding[request[j].key] = j /\ status[j] # "absent"
  /\ \A k \in Keys : binding[k] # NoJob => request[binding[k]].key = k

(* The head of a scope is the latest completed or partial result published *)
(* in it: a failed, cancelled or timed-out retry never hides an earlier    *)
(* view.                                                                   *)
HeadIsLatestUseful ==
  \A s \in Scopes :
    LET useful == {n \in DOMAIN evidence : /\ evidence[n].status \in Useful
                                            /\ request[evidence[n].job].scope = s}
    IN IF useful = {} THEN heads[s] = NoJob
       ELSE \E n \in useful : /\ heads[s] = evidence[n].job
                              /\ \A m \in useful : m <= n

(* The derived index is a function of the evidence: rebuilding it at any   *)
(* moment reproduces the heads, the layout and the rows it already has.    *)
IndexIsReplay == Index = Replay(evidence)

(* The convenience file never claims a result the database does not have. *)
MirrorFollowsResult ==
  \A j \in Jobs : mirror[j] # None => mirror[j] = result[j]

(* The store keeps the promise of JobLife: seen through jobs.status, every *)
(* step submits, starts, publishes or interrupts a job that is due for it. *)
Life == INSTANCE JobLife WITH phase <- status
ImplementsJobLife == Life!Spec

(* A job that has ended stays as it ended: no later claim, heartbeat,      *)
(* publication, recovery or rebuild changes its status, result or events.  *)
TerminalIsFinal ==
  [][\A j \in Jobs :
       status[j] \notin Active \cup {"absent"} =>
         /\ status'[j] = status[j]
         /\ result'[j] = result[j]
         /\ events'[j] = events[j]]_vars

=============================================================================
