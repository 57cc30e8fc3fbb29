--------------------------- MODULE JobStoreProofs ---------------------------
(***************************************************************************)
(* Safety of the job store, for any number of jobs, calls, keys and        *)
(* scopes.  The inductive invariant IInv is the conjunction of the         *)
(* properties the runs check with CallsInOrder, which ties the place a     *)
(* call has reached to the rows of its job.  IndexInv joins the derived    *)
(* index to it, which is a function of all the evidence.                   *)
(***************************************************************************)
EXTENDS JobStore, SequenceTheorems, WellFoundedInduction, TLAPS

IInv ==
  /\ StoreTypeOK
  /\ CallsInOrder
  /\ ClaimedOnce
  /\ LeaseMatchesStatus
  /\ PublishedOnce
  /\ ResultIsTheRunners
  /\ EventsTellStatus
  /\ KeyNamesOneJob
  /\ MirrorFollowsResult

(* The steps that change no row, no file and no index. *)
QuietStep(c) ==
  \/ \E r \in Requests : PrepareAgain(c, r) \/ PrepareRefused(c, r)
  \/ \E j \in Jobs : Attach(c, j)
  \/ \E o \in Outcomes : PublishUnclaimed(c, o) \/ FinishBackend(c, o)
  \/ ReadJob(c) \/ ClaimRefused(c) \/ HeartbeatFails(c)
  \/ StartBackend(c) \/ SkipBackend(c) \/ PublishNothing(c) \/ Abandon(c)

(* The next-state relation, sorted by what a step can disturb. *)
LEMMA StepCases ==
  ASSUME Next
  PROVE  \/ \E c \in Calls :
              \/ QuietStep(c) \/ Claim(c) \/ Heartbeat(c) \/ Publish(c) \/ WriteMirror(c)
              \/ \E r \in Requests, j \in Jobs : Prepare(c, r, j)
         \/ \E j \in Jobs : Expire(j) \/ CancelRead(j) \/ CancelWrite(j)
         \/ RecoverJobs
         \/ Reindex
BY Zenon DEF Next, CallStep, StoreStep, QuietStep

(* The three shapes an event log takes, one event longer. *)
LEMMA LogAppend ==
  ASSUME NEW x \in Kinds, NEW y \in Kinds, NEW z \in Kinds
  PROVE  /\ Append(<< >>, x) = <<x>>
         /\ Append(<<x>>, y) = <<x, y>>
         /\ Append(<<x, y>>, z) = <<x, y, z>>
<1>1. Append(<< >>, x) = <<x>>
  OBVIOUS
<1>2. Append(<<x>>, y) = <<x, y>>
  <2> DEFINE s == Append(<<x>>, y)
             t == <<x, y>>
  <2>1. s \in Seq(Kinds) /\ Len(s) = 2 /\ s[1] = x /\ s[2] = y
    BY AppendProperties
  <2>2. t \in Seq(Kinds) /\ Len(t) = 2 /\ t[1] = x /\ t[2] = y
    OBVIOUS
  <2>3. \A i \in 1 .. Len(s) : s[i] = t[i]
    <3> HIDE DEF s, t
    <3> QED BY <2>1, <2>2
  <2> HIDE DEF s, t
  <2>4. s = t
    BY <2>1, <2>2, <2>3, SeqEqual
  <2> QED BY <2>4 DEF s, t
<1>3. Append(<<x, y>>, z) = <<x, y, z>>
  <2> DEFINE s == Append(<<x, y>>, z)
             t == <<x, y, z>>
  <2>1. s \in Seq(Kinds) /\ Len(s) = 3 /\ s[1] = x /\ s[2] = y /\ s[3] = z
    BY AppendProperties
  <2>2. t \in Seq(Kinds) /\ Len(t) = 3 /\ t[1] = x /\ t[2] = y /\ t[3] = z
    OBVIOUS
  <2>3. \A i \in 1 .. Len(s) : s[i] = t[i]
    <3> HIDE DEF s, t
    <3> QED BY <2>1, <2>2
  <2> HIDE DEF s, t
  <2>4. s = t
    BY <2>1, <2>2, <2>3, SeqEqual
  <2> QED BY <2>4 DEF s, t
<1> QED
  BY <1>1, <1>2, <1>3

LEMMA TypeInit == Init => StoreTypeOK
<1> SUFFICES ASSUME Init PROVE StoreTypeOK
  OBVIOUS
<1>1. events \in [Jobs -> Seq(Kinds)]
  <2>1. << >> \in Seq(Kinds)
    OBVIOUS
  <2> QED BY <2>1 DEF Init
<1>2. evidence \in Seq(Row)
  BY DEF Init
<1> QED
  BY <1>1, <1>2 DEF Init, StoreTypeOK, Statuses, Active, PCs

(* A quiet step keeps the types. *)
LEMMA TypeQuiet ==
  ASSUME StoreTypeOK, NEW c \in Calls, QuietStep(c)
  PROVE  StoreTypeOK'
<1>1. UNCHANGED <<rows, files>>
  BY DEF QuietStep, PrepareAgain, PrepareRefused, Attach, PublishUnclaimed, Finish,
     FinishBackend, ReadJob, ClaimRefused, HeartbeatFails, StartBackend, SkipBackend,
     PublishNothing, Abandon, rows, files
<1>2. /\ pc' \in [Calls -> PCs]
      /\ job' \in [Calls -> Jobs \cup {NoJob}]
      /\ token' \in [Calls -> Calls \cup {NoCall}]
      /\ outcome' \in [Calls -> Outcomes \cup {None}]
      /\ lost' \in [Calls -> BOOLEAN]
  <2> USE DEF StoreTypeOK, PCs, Goto, local, Finish
  <2>1. CASE \E r \in Requests : PrepareAgain(c, r) \/ PrepareRefused(c, r)
    BY <2>1 DEF PrepareAgain, PrepareRefused, Requests
  <2>2. CASE \E j \in Jobs : Attach(c, j)
    BY <2>2 DEF Attach
  <2>3. ASSUME NEW o \in Outcomes, PublishUnclaimed(c, o)
        PROVE  /\ pc' \in [Calls -> PCs]
               /\ outcome' \in [Calls -> Outcomes \cup {None}]
               /\ UNCHANGED <<job, token, lost>>
    BY <2>3 DEF PublishUnclaimed
  <2>6. ASSUME NEW o \in Outcomes, FinishBackend(c, o)
        PROVE  /\ pc' \in [Calls -> PCs]
               /\ outcome' \in [Calls -> Outcomes \cup {None}]
               /\ UNCHANGED <<job, token, lost>>
    BY <2>6 DEF FinishBackend
  <2>4. CASE SkipBackend(c)
    BY <2>4, OutcomesAssumption DEF SkipBackend
  <2>5. CASE ReadJob(c) \/ ClaimRefused(c) \/ HeartbeatFails(c) \/ StartBackend(c)
             \/ PublishNothing(c) \/ Abandon(c)
    BY <2>5 DEF ReadJob, ClaimRefused, HeartbeatFails, StartBackend, PublishNothing, Abandon
  <2> QED
    BY <2>1, <2>2, <2>3, <2>4, <2>5, <2>6 DEF QuietStep
<1> QED
  BY <1>1, <1>2 DEF StoreTypeOK, rows, files

LEMMA TypeStep ==
  ASSUME StoreTypeOK, CallsInOrder, [Next]_vars
  PROVE  StoreTypeOK'
<1> USE DEF StoreTypeOK
<1>1. ASSUME NEW c \in Calls, QuietStep(c) PROVE StoreTypeOK'
  BY <1>1, TypeQuiet
<1>2. ASSUME NEW c \in Calls, NEW r \in Requests, NEW j \in Jobs, Prepare(c, r, j)
      PROVE  StoreTypeOK'
  <2>1. events' \in [Jobs -> Seq(Kinds)]
    BY <1>2 DEF Prepare, Log, Kinds
  <2>2. status' \in [Jobs -> Statuses]
    BY <1>2 DEF Prepare, Statuses, Active
  <2> QED
    BY <1>2, <2>1, <2>2 DEF Prepare, Goto, PCs, Requests, files
<1>3. ASSUME NEW c \in Calls, Claim(c) PROVE StoreTypeOK'
  <2>1. job[c] \in Jobs
    BY <1>3 DEF Claim, CallsInOrder
  <2>2. events' \in [Jobs -> Seq(Kinds)]
    BY <1>3, <2>1 DEF Claim, Log, Kinds
  <2>3. status' \in [Jobs -> Statuses]
    BY <1>3, <2>1 DEF Claim, Statuses, Active
  <2> QED
    BY <1>3, <2>1, <2>2, <2>3 DEF Claim, Goto, PCs, files
<1>4. ASSUME NEW c \in Calls, Heartbeat(c) PROVE StoreTypeOK'
  BY <1>4 DEF Heartbeat, files, local
<1>5. ASSUME NEW c \in Calls, Publish(c) PROVE StoreTypeOK'
  <2>1. job[c] \in Jobs /\ outcome[c] \in Outcomes
    BY <1>5 DEF Publish, CallsInOrder
  <2>2. events' \in [Jobs -> Seq(Kinds)]
    BY <1>5, <2>1 DEF Publish, Log, Kinds
  <2>3. evidence' \in Seq(Row)
    <3>1. [job |-> job[c], status |-> outcome[c]] \in Row
      BY <2>1 DEF Row
    <3> QED BY <1>5, <3>1 DEF Publish
  <2>4. status' \in [Jobs -> Statuses]
    BY <1>5, <2>1 DEF Publish, Statuses
  <2> QED
    BY <1>5, <2>1, <2>2, <2>3, <2>4 DEF Publish, Goto, PCs, files
<1>6. ASSUME NEW c \in Calls, WriteMirror(c) PROVE StoreTypeOK'
  <2>1. outcome[c] \in Outcomes
    BY <1>6 DEF WriteMirror, CallsInOrder
  <2> QED
    BY <1>6, <2>1 DEF WriteMirror, Goto, PCs, rows
<1>7. ASSUME NEW j \in Jobs, Expire(j) \/ CancelRead(j) \/ CancelWrite(j) PROVE StoreTypeOK'
  BY <1>7 DEF Expire, CancelRead, CancelWrite, rows, files, local
<1>8. CASE RecoverJobs
  <2>1. events' \in [Jobs -> Seq(Kinds)]
    BY <1>8 DEF RecoverJobs, Kinds
  <2>2. status' \in [Jobs -> Statuses]
    BY <1>8 DEF RecoverJobs, Statuses
  <2> QED
    BY <1>8, <2>1, <2>2 DEF RecoverJobs, files, local
<1>9. CASE Reindex
  BY <1>9 DEF Reindex, rows, files, local
<1>10. CASE UNCHANGED vars
  BY <1>10 DEF vars, rows, files, local
<1> QED
  BY <1>1, <1>2, <1>3, <1>4, <1>5, <1>6, <1>7, <1>8, <1>9, <1>10, StepCases

-----------------------------------------------------------------------------
(* What a quiet step can do to the call that takes it. *)
LEMMA QuietFrame ==
  ASSUME IInv, NEW c \in Calls, QuietStep(c)
  PROVE  /\ UNCHANGED <<rows, files, token>>
         /\ \A d \in Calls \ {c} : pc'[d] = pc[d] /\ job'[d] = job[d] /\ outcome'[d] = outcome[d]
         /\ pc'[c] \in {"idle", "claimed", "mirroring"} => pc'[c] = pc[c]
         /\ pc'[c] = "backend" => pc[c] \in {"claimed", "backend"}
         /\ pc'[c] \in {"prepared", "attached", "claiming"} =>
              pc[c] \in {"idle", "prepared", "attached"}
         /\ pc'[c] = "publishing" => outcome'[c] \in Outcomes
         /\ token[c] = c => job'[c] = job[c]
         /\ pc'[c] # "done" => job'[c] \in Jobs /\ status[job'[c]] # "absent"
         /\ token[c] = c /\ outcome'[c] # outcome[c] => result[job[c]] = None
         /\ pc'[c] = "mirroring" => outcome'[c] = outcome[c] /\ job'[c] = job[c]
<1> USE NamesAssumption, OutcomesAssumption
        DEF IInv, CallsInOrder, StoreTypeOK, Goto, rows, files, Finish
<1>1. CASE \E r \in Requests : PrepareAgain(c, r) \/ PrepareRefused(c, r)
  <2> PICK r \in Requests : PrepareAgain(c, r) \/ PrepareRefused(c, r)
    BY <1>1
  <2>1. CASE PrepareAgain(c, r)
    <3>1. binding[r.key] \in Jobs /\ status[binding[r.key]] # "absent"
      <4>1. r.key \in Keys
        BY <2>1 DEF PrepareAgain, Requests
      <4>2. binding[r.key] \in Jobs /\ request[binding[r.key]] = r
        BY <2>1, <4>1 DEF PrepareAgain
      <4> QED BY <4>2, <2>1 DEF PrepareAgain, KeyNamesOneJob
    <3> QED
      BY <2>1, <3>1 DEF PrepareAgain, PCs
  <2>2. CASE PrepareRefused(c, r)
    BY <2>2 DEF PrepareRefused, PCs
  <2> QED
    BY <2>1, <2>2
<1>2. CASE \E j \in Jobs : Attach(c, j)
  BY <1>2 DEF Attach, PCs
<1>3. ASSUME NEW o \in Outcomes, PublishUnclaimed(c, o)
      PROVE  pc[c] = "prepared" /\ pc'[c] = "publishing" /\ outcome'[c] = o /\ token[c] # c
  BY <1>3 DEF PublishUnclaimed, PCs
<1>4. ASSUME NEW o \in Outcomes, FinishBackend(c, o)
      PROVE  /\ pc[c] \in {"claimed", "backend"}
             /\ pc'[c] \in {"publishing", "done"}
             /\ outcome'[c] = o
  BY <1>4 DEF FinishBackend, PCs
<1>5. CASE ReadJob(c) \/ ClaimRefused(c) \/ HeartbeatFails(c) \/ StartBackend(c)
           \/ PublishNothing(c) \/ Abandon(c)
  BY <1>5 DEF ReadJob, ClaimRefused, HeartbeatFails, StartBackend, PublishNothing, Abandon, PCs,
     Beating
<1>6. CASE SkipBackend(c)
  BY <1>6 DEF SkipBackend, PCs
<1>7. ASSUME NEW o \in Outcomes, PublishUnclaimed(c, o) \/ FinishBackend(c, o)
      PROVE  /\ UNCHANGED <<rows, files, token, job>>
             /\ \A d \in Calls \ {c} : pc'[d] = pc[d] /\ outcome'[d] = outcome[d]
  BY <1>7 DEF FinishBackend, PublishUnclaimed
<1>8. CASE \E o \in Outcomes : PublishUnclaimed(c, o) \/ FinishBackend(c, o)
  BY <1>3, <1>4, <1>7, <1>8
<1> QED
  BY <1>1, <1>2, <1>5, <1>6, <1>8 DEF QuietStep
-----------------------------------------------------------------------------
(* At most one call is ever granted a job.  A claim finds the job queued:  *)
(* a running job has a lease row, so any earlier holder, whose job can no  *)
(* longer be queued, contradicts it.                                       *)
LEMMA ClaimFindsQueued ==
  ASSUME IInv, NEW c \in Calls, Claim(c)
  PROVE  /\ job[c] \in Jobs
         /\ status[job[c]] = "queued"
         /\ owner[job[c]] = NoCall
         /\ result[job[c]] = None
         /\ events[job[c]] = <<"queued">>
         /\ \A d \in Calls : token[d] = d => job[d] # job[c]
<1>1. job[c] \in Jobs /\ status[job[c]] \in Active /\ owner[job[c]] = NoCall
  BY DEF Claim, MayClaim, IInv, CallsInOrder
<1>2. status[job[c]] = "queued"
  BY <1>1 DEF IInv, LeaseMatchesStatus, Active
<1>3. result[job[c]] = None
  <2>1. result[job[c]] # None => status[job[c]] \in Outcomes
    BY <1>1 DEF IInv, PublishedOnce, StoreTypeOK
  <2> QED BY <1>1, <2>1, OutcomesAssumption
<1>4. events[job[c]] = <<"queued">>
  BY <1>1, <1>2 DEF IInv, EventsTellStatus
<1>5. \A d \in Calls : token[d] = d => job[d] # job[c]
  BY <1>2 DEF IInv, CallsInOrder
<1> QED
  BY <1>1, <1>2, <1>3, <1>4, <1>5

(* A publication into a claimed job is its holder's. *)
LEMMA PublishIsTheHolders ==
  ASSUME IInv, NEW c \in Calls, Publish(c)
  PROVE  /\ job[c] \in Jobs
         /\ outcome[c] \in Outcomes
         /\ status[job[c]] \in Active
         /\ result[job[c]] = None
         /\ \A d \in Calls : token[d] = d /\ job[d] = job[c] => d = c
<1>1. /\ job[c] \in Jobs
      /\ outcome[c] \in Outcomes
      /\ status[job[c]] \in Active
      /\ result[job[c]] = None
      /\ LeaseAdmits(c)
  BY DEF Publish, MayPublish, IInv, CallsInOrder
<1>2. ASSUME NEW d \in Calls, token[d] = d, job[d] = job[c] PROVE d = c
  <2>1. status[job[c]] = "running"
    BY <1>1, <1>2 DEF IInv, CallsInOrder, Active
  <2>2. owner[job[c]] # NoCall
    BY <1>1, <2>1 DEF IInv, LeaseMatchesStatus
  <2>3. token[c] # NoCall
    BY <1>1, <2>2 DEF LeaseAdmits
  <2>4. token[c] = c
    BY <2>3 DEF IInv, CallsInOrder
  <2> QED
    BY <1>2, <2>4 DEF IInv, ClaimedOnce
<1> QED
  BY <1>1, <1>2

LEMMA ClaimedOnceStep ==
  ASSUME IInv, [Next]_vars
  PROVE  ClaimedOnce'
<1>1. ASSUME NEW c \in Calls, QuietStep(c) PROVE ClaimedOnce'
  BY <1>1, QuietFrame DEF ClaimedOnce, IInv
<1>2. ASSUME NEW c \in Calls, Claim(c) PROVE ClaimedOnce'
  <2>1. job' = job /\ \A d \in Calls \ {c} : token'[d] = token[d]
    BY <1>2 DEF Claim, IInv, StoreTypeOK
  <2> QED
    BY <1>2, <2>1, ClaimFindsQueued DEF ClaimedOnce, IInv
<1>3. ASSUME NEW c \in Calls, NEW r \in Requests, NEW j \in Jobs, Prepare(c, r, j)
      PROVE  ClaimedOnce'
  <2>1. token[c] # c
    BY <1>3, NamesAssumption DEF Prepare, IInv, CallsInOrder
  <2>2. token' = token /\ \A d \in Calls \ {c} : job'[d] = job[d]
    BY <1>3 DEF Prepare, IInv, StoreTypeOK
  <2> QED
    BY <2>1, <2>2 DEF ClaimedOnce, IInv
<1>4. ASSUME UNCHANGED <<job, token>> PROVE ClaimedOnce'
  BY <1>4 DEF ClaimedOnce, IInv
<1>5. ASSUME NEW c \in Calls, Heartbeat(c) \/ Publish(c) \/ WriteMirror(c)
      PROVE  UNCHANGED <<job, token>>
  BY <1>5 DEF Heartbeat, Publish, WriteMirror, local
<1>6. ASSUME NEW j \in Jobs, Expire(j) \/ CancelRead(j) \/ CancelWrite(j)
      PROVE  UNCHANGED <<job, token>>
  BY <1>6 DEF Expire, CancelRead, CancelWrite, local
<1>7. CASE RecoverJobs \/ Reindex \/ UNCHANGED vars
  BY <1>4, <1>7 DEF RecoverJobs, Reindex, vars, local
<1> QED
  BY <1>1, <1>2, <1>3, <1>4, <1>5, <1>6, <1>7, StepCases

LEMMA LeaseStep ==
  ASSUME IInv, [Next]_vars
  PROVE  LeaseMatchesStatus'
<1> USE NamesAssumption DEF LeaseMatchesStatus
<1>1. ASSUME NEW c \in Calls, QuietStep(c) PROVE LeaseMatchesStatus'
  <2>1. UNCHANGED <<status, owner, expired, token>>
    BY <1>1, QuietFrame DEF rows
  <2>2. \A d \in Calls : token[d] = d => job'[d] = job[d]
    BY <1>1, QuietFrame
  <2> QED
    BY <2>1, <2>2 DEF IInv, StoreTypeOK
<1>2. ASSUME NEW c \in Calls, Claim(c) PROVE LeaseMatchesStatus'
  <2>1. job[c] \in Jobs /\ owner[job[c]] = NoCall
    BY <1>2, ClaimFindsQueued
  <2>2. \A d \in Calls : token[d] = d => token'[d] = d
    BY <1>2 DEF Claim, IInv, StoreTypeOK
  <2> QED
    BY <1>2, <2>1, <2>2 DEF Claim, IInv, StoreTypeOK
<1>3. ASSUME NEW c \in Calls, Heartbeat(c) PROVE LeaseMatchesStatus'
  BY <1>3 DEF Heartbeat, IInv, local
<1>4. ASSUME NEW c \in Calls, Publish(c) PROVE LeaseMatchesStatus'
  <2>1. job[c] \in Jobs /\ outcome[c] \in Outcomes
    BY <1>4, PublishIsTheHolders
  <2>2. outcome[c] # "running"
    BY <2>1, OutcomesAssumption DEF Active
  <2> QED
    BY <1>4, <2>1, <2>2 DEF Publish, IInv, StoreTypeOK
<1>5. ASSUME NEW c \in Calls, WriteMirror(c) PROVE LeaseMatchesStatus'
  BY <1>5 DEF WriteMirror, IInv, rows
<1>6. ASSUME NEW c \in Calls, NEW r \in Requests, NEW j \in Jobs, Prepare(c, r, j)
      PROVE  LeaseMatchesStatus'
  <2>1. token[c] = NoCall
    BY <1>6 DEF Prepare, IInv, CallsInOrder
  <2>2. UNCHANGED <<owner, expired, token>> /\ \A d \in Calls \ {c} : job'[d] = job[d]
    BY <1>6 DEF Prepare, IInv, StoreTypeOK
  <2>3. \A i \in Jobs : status'[i] = "running" <=> status[i] = "running"
    BY <1>6 DEF Prepare, IInv, StoreTypeOK
  <2> QED
    BY <2>1, <2>2, <2>3 DEF IInv, StoreTypeOK
<1>7. ASSUME NEW j \in Jobs, Expire(j) PROVE LeaseMatchesStatus'
  BY <1>7 DEF Expire, IInv, local
<1>8. ASSUME NEW j \in Jobs, CancelRead(j) \/ CancelWrite(j) PROVE LeaseMatchesStatus'
  BY <1>8 DEF CancelRead, CancelWrite, IInv, local, rows
<1>9. CASE RecoverJobs
  BY <1>9 DEF RecoverJobs, Recoverable, IInv, local, StoreTypeOK
<1>10. CASE Reindex \/ UNCHANGED vars
  BY <1>10 DEF Reindex, IInv, vars, local, rows
<1> QED
  BY <1>1, <1>2, <1>3, <1>4, <1>5, <1>6, <1>7, <1>8, <1>9, <1>10, StepCases
-----------------------------------------------------------------------------
LEMMA PublishedStep ==
  ASSUME IInv, [Next]_vars
  PROVE  PublishedOnce'
<1> USE DEF PublishedOnce
<1>1. ASSUME UNCHANGED <<evidence, result>>,
             \A j \in Jobs : result[j] # None => status'[j] = status[j]
      PROVE  PublishedOnce'
  BY <1>1 DEF IInv
<1>2. ASSUME NEW c \in Calls, QuietStep(c) PROVE PublishedOnce'
  BY <1>1, <1>2, QuietFrame DEF rows
<1>3. ASSUME NEW c \in Calls, Claim(c) PROVE PublishedOnce'
  <2>1. job[c] \in Jobs /\ result[job[c]] = None
    BY <1>3, ClaimFindsQueued
  <2> QED
    BY <1>1, <1>3, <2>1 DEF Claim, IInv, StoreTypeOK
<1>4. ASSUME NEW c \in Calls, Publish(c) PROVE PublishedOnce'
  <2> DEFINE e == [job |-> job[c], status |-> outcome[c]]
             m == Len(evidence) + 1
  <2>1. /\ job[c] \in Jobs
        /\ outcome[c] \in Outcomes
        /\ result[job[c]] = None
    BY <1>4, PublishIsTheHolders
  <2>2. /\ evidence \in Seq(Row)
        /\ e \in Row
        /\ evidence' = Append(evidence, e)
    BY <1>4, <2>1 DEF Publish, IInv, StoreTypeOK, Row
  <2>3. /\ DOMAIN evidence' = DOMAIN evidence \cup {m}
        /\ evidence'[m] = e
        /\ \A n \in DOMAIN evidence : evidence'[n] = evidence[n] /\ n # m
    BY <2>2
  <2>4. \A n \in DOMAIN evidence : evidence[n] \in Row
    BY <2>2
  <2>5. \A n \in DOMAIN evidence : evidence[n].job # job[c]
    BY <2>1, <2>4, OutcomesAssumption DEF IInv, Row
  <2>6. /\ result' = [result EXCEPT ![job[c]] = outcome[c]]
        /\ status' = [status EXCEPT ![job[c]] = outcome[c]]
        /\ result \in [Jobs -> Outcomes \cup {None}]
        /\ status \in [Jobs -> Statuses]
    BY <1>4 DEF Publish, IInv, StoreTypeOK
  <2>7. \A a, b \in DOMAIN evidence' : evidence'[a].job = evidence'[b].job => a = b
    BY <2>3, <2>5 DEF IInv
  <2>8. \A n \in DOMAIN evidence' : result'[evidence'[n].job] = evidence'[n].status
    BY <2>1, <2>3, <2>4, <2>5, <2>6 DEF IInv, Row
  <2>9. ASSUME NEW j \in Jobs, result'[j] # None
        PROVE  status'[j] = result'[j] /\ \E n \in DOMAIN evidence' : evidence'[n].job = j
    <3>1. CASE j = job[c]
      BY <2>1, <2>3, <2>6, <3>1
    <3>2. CASE j # job[c]
      BY <2>3, <2>6, <2>9, <3>2 DEF IInv
    <3> QED
      BY <3>1, <3>2
  <2> QED
    BY <2>7, <2>8, <2>9
<1>5. ASSUME NEW c \in Calls, Heartbeat(c) \/ WriteMirror(c) PROVE PublishedOnce'
  BY <1>1, <1>5 DEF Heartbeat, WriteMirror, rows
<1>6. ASSUME NEW c \in Calls, NEW r \in Requests, NEW j \in Jobs, Prepare(c, r, j)
      PROVE  PublishedOnce'
  <2>1. result[j] # None => status[j] \in Outcomes
    BY DEF IInv, StoreTypeOK
  <2>2. result[j] = None
    BY <1>6, <2>1, OutcomesAssumption DEF Prepare
  <2> QED
    BY <1>1, <1>6, <2>2 DEF Prepare, IInv, StoreTypeOK
<1>7. ASSUME NEW j \in Jobs, Expire(j) \/ CancelRead(j) \/ CancelWrite(j)
      PROVE  PublishedOnce'
  BY <1>1, <1>7 DEF Expire, CancelRead, CancelWrite, rows
<1>8. CASE RecoverJobs
  <2>1. \A j \in Recoverable : result[j] # None => status[j] \in Outcomes
    BY DEF IInv, StoreTypeOK, Recoverable
  <2>2. \A j \in Recoverable : result[j] = None
    BY <2>1, OutcomesAssumption DEF Recoverable, Active
  <2> QED
    BY <1>1, <1>8, <2>2 DEF RecoverJobs
<1>9. CASE Reindex \/ UNCHANGED vars
  BY <1>1, <1>9 DEF Reindex, vars, rows
<1> QED
  BY <1>2, <1>3, <1>4, <1>5, <1>6, <1>7, <1>8, <1>9, StepCases

LEMMA ResultStep ==
  ASSUME IInv, [Next]_vars
  PROVE  ResultIsTheRunners'
<1> USE DEF ResultIsTheRunners
<1>1. ASSUME NEW c \in Calls, QuietStep(c) PROVE ResultIsTheRunners'
  <2>1. UNCHANGED <<result, token>>
    BY <1>1, QuietFrame DEF rows
  <2> QED
    BY <1>1, <2>1, QuietFrame DEF IInv
<1>2. ASSUME UNCHANGED <<result, token, job, outcome>> PROVE ResultIsTheRunners'
  BY <1>2 DEF IInv
<1>3. ASSUME NEW c \in Calls, Claim(c) PROVE ResultIsTheRunners'
  <2>1. result[job[c]] = None
    BY <1>3, ClaimFindsQueued
  <2> QED
    BY <1>3, <2>1 DEF Claim, IInv, StoreTypeOK
<1>4. ASSUME NEW c \in Calls, Publish(c) PROVE ResultIsTheRunners'
  <2>1. /\ UNCHANGED <<token, job, outcome>>
        /\ result' = [result EXCEPT ![job[c]] = outcome[c]]
    BY <1>4 DEF Publish
  <2> QED
    BY <1>4, <2>1, PublishIsTheHolders DEF IInv, StoreTypeOK, CallsInOrder
<1>5. ASSUME NEW c \in Calls, NEW r \in Requests, NEW j \in Jobs, Prepare(c, r, j)
      PROVE  ResultIsTheRunners'
  <2>1. token[c] # c
    BY <1>5, NamesAssumption DEF Prepare, IInv, CallsInOrder
  <2>2. UNCHANGED <<result, token, outcome>> /\ \A d \in Calls \ {c} : job'[d] = job[d]
    BY <1>5 DEF Prepare, IInv, StoreTypeOK
  <2> QED
    BY <2>1, <2>2 DEF IInv
<1>6. ASSUME NEW c \in Calls, Heartbeat(c) \/ WriteMirror(c) PROVE ResultIsTheRunners'
  BY <1>2, <1>6 DEF Heartbeat, WriteMirror, rows, local
<1>7. ASSUME NEW j \in Jobs, Expire(j) \/ CancelRead(j) \/ CancelWrite(j)
      PROVE  ResultIsTheRunners'
  BY <1>2, <1>7 DEF Expire, CancelRead, CancelWrite, rows, local
<1>8. CASE RecoverJobs \/ Reindex \/ UNCHANGED vars
  BY <1>2, <1>8 DEF RecoverJobs, Reindex, vars, rows, local
<1> QED
  BY <1>1, <1>3, <1>4, <1>5, <1>6, <1>7, <1>8, StepCases

LEMMA EventsStep ==
  ASSUME IInv, [Next]_vars
  PROVE  EventsTellStatus'
<1> USE DEF EventsTellStatus
<1>1. ASSUME UNCHANGED <<status, events, result>> PROVE EventsTellStatus'
  BY <1>1 DEF IInv
<1>2. ASSUME NEW c \in Calls, QuietStep(c) PROVE EventsTellStatus'
  BY <1>1, <1>2, QuietFrame DEF rows
<1>3. ASSUME NEW c \in Calls, Claim(c) PROVE EventsTellStatus'
  <2>1. job[c] \in Jobs /\ events[job[c]] = <<"queued">>
    BY <1>3, ClaimFindsQueued
  <2>2. /\ events' = [events EXCEPT ![job[c]] = Append(<<"queued">>, "started")]
        /\ status' = [status EXCEPT ![job[c]] = "running"]
        /\ result' = result
    BY <1>3, <2>1 DEF Claim, Log
  <2>3. Append(<<"queued">>, "started") = <<"queued", "started">>
    BY LogAppend DEF Kinds
  <2> QED
    BY <2>1, <2>2, <2>3 DEF IInv, StoreTypeOK
<1>4. ASSUME NEW c \in Calls, Publish(c) PROVE EventsTellStatus'
  <2>1. /\ job[c] \in Jobs
        /\ outcome[c] \in Outcomes
        /\ status[job[c]] \in Active
    BY <1>4, PublishIsTheHolders
  <2>2. /\ events' = [events EXCEPT ![job[c]] = Append(events[job[c]], outcome[c])]
        /\ status' = [status EXCEPT ![job[c]] = outcome[c]]
        /\ result' = [result EXCEPT ![job[c]] = outcome[c]]
    BY <1>4 DEF Publish, Log
  <2>3. events[job[c]] = <<"queued">> \/ events[job[c]] = <<"queued", "started">>
    BY <2>1 DEF IInv, Active
  <2>4. /\ Append(<<"queued">>, outcome[c]) = <<"queued", outcome[c]>>
        /\ Append(<<"queued", "started">>, outcome[c]) = <<"queued", "started", outcome[c]>>
    BY <2>1, LogAppend DEF Kinds
  <2>5. outcome[c] \notin Active \cup {"absent", None}
    BY <2>1, OutcomesAssumption
  <2>6. \A j \in Jobs \ {job[c]} :
          status'[j] = status[j] /\ events'[j] = events[j] /\ result'[j] = result[j]
    BY <2>2 DEF IInv, StoreTypeOK
  <2>7. /\ status'[job[c]] = outcome[c]
        /\ result'[job[c]] = outcome[c]
        /\ \/ events'[job[c]] = <<"queued", outcome[c]>>
           \/ events'[job[c]] = <<"queued", "started", outcome[c]>>
    BY <2>1, <2>2, <2>3, <2>4 DEF IInv, StoreTypeOK
  <2> QED
    BY <2>5, <2>6, <2>7 DEF IInv, Active
<1>5. ASSUME NEW c \in Calls, NEW r \in Requests, NEW j \in Jobs, Prepare(c, r, j)
      PROVE  EventsTellStatus'
  <2>1. events[j] = << >>
    BY <1>5 DEF Prepare, IInv
  <2>2. /\ events' = [events EXCEPT ![j] = Append(<< >>, "queued")]
        /\ status' = [status EXCEPT ![j] = "queued"]
        /\ result' = result
    BY <1>5, <2>1 DEF Prepare, Log
  <2>3. Append(<< >>, "queued") = <<"queued">>
    BY LogAppend DEF Kinds
  <2> QED
    BY <2>2, <2>3 DEF IInv, StoreTypeOK
<1>6. ASSUME NEW c \in Calls, Heartbeat(c) \/ WriteMirror(c) PROVE EventsTellStatus'
  BY <1>1, <1>6 DEF Heartbeat, WriteMirror, rows
<1>7. ASSUME NEW j \in Jobs, Expire(j) \/ CancelRead(j) \/ CancelWrite(j)
      PROVE  EventsTellStatus'
  BY <1>1, <1>7 DEF Expire, CancelRead, CancelWrite, rows
<1>8. CASE RecoverJobs
  <2>1. Append(<<"queued", "started">>, "interrupted") = <<"queued", "started", "interrupted">>
    BY LogAppend DEF Kinds
  <2>2. \A j \in Recoverable : events[j] = <<"queued", "started">>
    BY DEF IInv, Recoverable
  <2> QED
    BY <1>8, <2>1, <2>2 DEF RecoverJobs, IInv
<1>9. CASE Reindex \/ UNCHANGED vars
  BY <1>1, <1>9 DEF Reindex, vars, rows
<1> QED
  BY <1>2, <1>3, <1>4, <1>5, <1>6, <1>7, <1>8, <1>9, StepCases

LEMMA KeyStep ==
  ASSUME IInv, [Next]_vars
  PROVE  KeyNamesOneJob'
<1> USE DEF KeyNamesOneJob
<1>1. ASSUME UNCHANGED <<request, binding>>,
             \A j \in Jobs : status[j] # "absent" => status'[j] # "absent"
      PROVE  KeyNamesOneJob'
  BY <1>1 DEF IInv
<1>2. ASSUME NEW c \in Calls, QuietStep(c) PROVE KeyNamesOneJob'
  BY <1>1, <1>2, QuietFrame DEF rows
<1>3. ASSUME NEW c \in Calls, Claim(c) PROVE KeyNamesOneJob'
  BY <1>1, <1>3 DEF Claim, IInv, StoreTypeOK
<1>4. ASSUME NEW c \in Calls, Publish(c) PROVE KeyNamesOneJob'
  <2>1. outcome[c] # "absent"
    BY <1>4, PublishIsTheHolders, OutcomesAssumption
  <2> QED
    BY <1>1, <1>4, <2>1 DEF Publish, IInv, StoreTypeOK
<1>5. ASSUME NEW c \in Calls, NEW r \in Requests, NEW j \in Jobs, Prepare(c, r, j)
      PROVE  KeyNamesOneJob'
  <2>1. /\ status' = [status EXCEPT ![j] = "queued"]
        /\ request' = [request EXCEPT ![j] = r]
        /\ status[j] = "absent"
        /\ request[j].key = NoKey
    BY <1>5 DEF Prepare, IInv
  <2>2. CASE r.key = NoKey
    <3>1. binding' = binding
      BY <1>5, <2>2 DEF Prepare
    <3>2. \A k \in Keys : binding[k] # NoJob => binding[k] # j
      BY <2>1, NamesAssumption DEF IInv
    <3> QED
      BY <2>1, <2>2, <3>1, <3>2 DEF IInv, StoreTypeOK
  <2>3. CASE r.key # NoKey
    <3>1. binding' = [binding EXCEPT ![r.key] = j] /\ binding[r.key] = NoJob /\ r.key \in Keys
      BY <1>5, <2>3 DEF Prepare, Requests
    <3>2. \A i \in Jobs \ {j} : request[i].key # r.key
      BY <2>3, <3>1, NamesAssumption DEF IInv
    <3>3. \A k \in Keys : binding[k] # NoJob => binding[k] # j
      BY <2>1, NamesAssumption DEF IInv
    <3>4. \A i \in Jobs : request'[i].key # NoKey =>
            binding'[request'[i].key] = i /\ status'[i] # "absent"
      <4> SUFFICES ASSUME NEW i \in Jobs, request'[i].key # NoKey
                   PROVE  binding'[request'[i].key] = i /\ status'[i] # "absent"
        OBVIOUS
      <4>1. CASE i = j
        BY <2>1, <3>1, <4>1 DEF IInv, StoreTypeOK
      <4>2. CASE i # j
        <5>1. request'[i] = request[i] /\ status'[i] = status[i]
          BY <2>1, <4>2 DEF IInv, StoreTypeOK
        <5> QED
          BY <3>1, <3>2, <4>2, <5>1 DEF IInv, StoreTypeOK
      <4> QED
        BY <4>1, <4>2
    <3>5. \A k \in Keys : binding'[k] # NoJob => request'[binding'[k]].key = k
      BY <2>1, <3>1, <3>3 DEF IInv, StoreTypeOK
    <3> QED
      BY <3>4, <3>5
  <2> QED
    BY <2>2, <2>3
<1>6. ASSUME NEW c \in Calls, Heartbeat(c) \/ WriteMirror(c) PROVE KeyNamesOneJob'
  BY <1>1, <1>6 DEF Heartbeat, WriteMirror, rows
<1>7. ASSUME NEW j \in Jobs, Expire(j) \/ CancelRead(j) \/ CancelWrite(j)
      PROVE  KeyNamesOneJob'
  BY <1>1, <1>7 DEF Expire, CancelRead, CancelWrite, rows
<1>8. CASE RecoverJobs
  BY <1>1, <1>8 DEF RecoverJobs
<1>9. CASE Reindex \/ UNCHANGED vars
  BY <1>1, <1>9 DEF Reindex, vars, rows
<1> QED
  BY <1>2, <1>3, <1>4, <1>5, <1>6, <1>7, <1>8, <1>9, StepCases
LEMMA MirrorStep ==
  ASSUME IInv, [Next]_vars
  PROVE  MirrorFollowsResult'
<1> USE DEF MirrorFollowsResult
<1>1. ASSUME UNCHANGED mirror,
             \A j \in Jobs : result[j] # None => result'[j] = result[j]
      PROVE  MirrorFollowsResult'
  <2>1. \A j \in Jobs : mirror[j] # None => result[j] # None
    BY DEF IInv
  <2> QED
    BY <1>1, <2>1 DEF IInv
<1>2. ASSUME NEW c \in Calls, QuietStep(c) PROVE MirrorFollowsResult'
  BY <1>1, <1>2, QuietFrame DEF rows, files
<1>3. ASSUME NEW c \in Calls, Claim(c) \/ Heartbeat(c) PROVE MirrorFollowsResult'
  BY <1>1, <1>3 DEF Claim, Heartbeat, files
<1>4. ASSUME NEW c \in Calls, Publish(c) PROVE MirrorFollowsResult'
  <2>1. result[job[c]] = None
    BY <1>4, PublishIsTheHolders
  <2> QED
    BY <1>1, <1>4, <2>1 DEF Publish, files, IInv, StoreTypeOK
<1>5. ASSUME NEW c \in Calls, WriteMirror(c) PROVE MirrorFollowsResult'
  <2>1. result[job[c]] = outcome[c]
    BY <1>5 DEF WriteMirror, IInv, CallsInOrder
  <2> QED
    BY <1>5, <2>1 DEF WriteMirror, rows, IInv, StoreTypeOK
<1>6. ASSUME NEW c \in Calls, NEW r \in Requests, NEW j \in Jobs, Prepare(c, r, j)
      PROVE  MirrorFollowsResult'
  BY <1>1, <1>6 DEF Prepare, files
<1>7. ASSUME NEW j \in Jobs, Expire(j) \/ CancelRead(j) \/ CancelWrite(j)
      PROVE  MirrorFollowsResult'
  BY <1>1, <1>7 DEF Expire, CancelRead, CancelWrite, rows, files
<1>8. CASE RecoverJobs \/ Reindex \/ UNCHANGED vars
  BY <1>1, <1>8 DEF RecoverJobs, Reindex, vars, rows, files
<1> QED
  BY <1>2, <1>3, <1>4, <1>5, <1>6, <1>7, <1>8, StepCases

LEMMA CallsStep ==
  ASSUME IInv, [Next]_vars
  PROVE  CallsInOrder'
<1> USE NamesAssumption, OutcomesAssumption
<1> DEFINE InOrder(c) ==
      /\ pc[c] \notin {"idle", "done"} => job[c] \in Jobs /\ status[job[c]] # "absent"
      /\ token[c] \in {c, NoCall}
      /\ pc[c] \in {"idle", "prepared", "attached", "claiming"} => token[c] = NoCall
      /\ pc[c] \in {"claimed", "backend"} => token[c] = c /\ result[job[c]] = None
      /\ token[c] = c => job[c] \in Jobs /\ status[job[c]] \notin {"absent", "queued"}
      /\ pc[c] \in {"publishing", "mirroring"} => outcome[c] \in Outcomes
      /\ pc[c] = "mirroring" => result[job[c]] = outcome[c]
<1>0. \A c \in Calls : InOrder(c)
  BY DEF IInv, CallsInOrder
(* What a step of the store alone must not do. *)
<1>1. ASSUME UNCHANGED <<pc, job, token, outcome, result>>,
             \A j \in Jobs : status[j] # "absent" => status'[j] # "absent",
             \A j \in Jobs : status[j] \notin {"absent", "queued"}
                            => status'[j] \notin {"absent", "queued"}
      PROVE  CallsInOrder'
  <2>1. \A c \in Calls : InOrder(c)'
    BY <1>0, <1>1
  <2> QED
    BY <2>1 DEF CallsInOrder
<1>2. ASSUME NEW c \in Calls, QuietStep(c) PROVE CallsInOrder'
  <2>1. UNCHANGED <<status, result, token>>
    BY <1>2, QuietFrame DEF rows
  <2>2. \A d \in Calls \ {c} : InOrder(d)'
    BY <1>0, <1>2, <2>1, QuietFrame
  <2>3. token[c] = c /\ outcome'[c] # outcome[c] => result[job[c]] = None
    BY <1>2, QuietFrame
  <2>4. /\ pc'[c] \in {"idle", "claimed", "mirroring"} => pc'[c] = pc[c]
        /\ pc'[c] = "backend" => pc[c] \in {"claimed", "backend"}
        /\ pc'[c] \in {"prepared", "attached", "claiming"} =>
             pc[c] \in {"idle", "prepared", "attached"}
        /\ pc'[c] = "publishing" => outcome'[c] \in Outcomes
        /\ token[c] = c => job'[c] = job[c]
        /\ pc'[c] # "done" => job'[c] \in Jobs /\ status[job'[c]] # "absent"
    BY <1>2, QuietFrame
  <2>5. pc'[c] = "mirroring" => outcome'[c] = outcome[c] /\ job'[c] = job[c]
    BY <1>2, QuietFrame
  <2>6. InOrder(c)'
    BY <1>0, <2>1, <2>3, <2>4, <2>5
  <2> QED
    BY <2>2, <2>6 DEF CallsInOrder
<1>3. ASSUME NEW c \in Calls, Claim(c) PROVE CallsInOrder'
  <2>1. job[c] \in Jobs /\ result[job[c]] = None /\ status[job[c]] = "queued"
    BY <1>3, ClaimFindsQueued
  <2>2. /\ pc' = [pc EXCEPT ![c] = "claimed"]
        /\ token' = [token EXCEPT ![c] = c]
        /\ status' = [status EXCEPT ![job[c]] = "running"]
        /\ UNCHANGED <<job, outcome, result>>
    BY <1>3 DEF Claim, Goto
  <2>3. \A d \in Calls : InOrder(d)'
    BY <1>0, <2>1, <2>2 DEF IInv, StoreTypeOK
  <2> QED
    BY <2>3 DEF CallsInOrder
<1>4. ASSUME NEW c \in Calls, Publish(c) PROVE CallsInOrder'
  <2>1. /\ job[c] \in Jobs
        /\ outcome[c] \in Outcomes
        /\ result[job[c]] = None
        /\ \A d \in Calls : token[d] = d /\ job[d] = job[c] => d = c
    BY <1>4, PublishIsTheHolders
  <2>2. /\ pc[c] = "publishing"
        /\ pc' = [pc EXCEPT ![c] = "mirroring"]
        /\ status' = [status EXCEPT ![job[c]] = outcome[c]]
        /\ result' = [result EXCEPT ![job[c]] = outcome[c]]
        /\ UNCHANGED <<job, token, outcome>>
    BY <1>4 DEF Publish, Goto
  <2>3. outcome[c] \notin {"absent", "queued", None}
    BY <2>1 DEF Active
  <2>4. \A d \in Calls \ {c} : pc[d] = "mirroring" => job[d] # job[c]
    BY <1>0, <2>1
  <2>5. \A d \in Calls \ {c} : InOrder(d)'
    BY <1>0, <2>1, <2>2, <2>3, <2>4 DEF IInv, StoreTypeOK
  <2>6. InOrder(c)'
    BY <1>0, <2>1, <2>2, <2>3 DEF IInv, StoreTypeOK
  <2> QED
    BY <2>5, <2>6 DEF CallsInOrder
<1>5. ASSUME NEW c \in Calls, WriteMirror(c) PROVE CallsInOrder'
  <2>1. /\ pc' = [pc EXCEPT ![c] = "done"]
        /\ UNCHANGED <<status, result, job, token, outcome>>
    BY <1>5 DEF WriteMirror, Goto, rows
  <2>2. \A d \in Calls : InOrder(d)'
    BY <1>0, <2>1 DEF IInv, StoreTypeOK
  <2> QED
    BY <2>2 DEF CallsInOrder
<1>6. ASSUME NEW c \in Calls, NEW r \in Requests, NEW j \in Jobs, Prepare(c, r, j)
      PROVE  CallsInOrder'
  <2>1. /\ pc[c] = "idle"
        /\ status[j] = "absent"
        /\ pc' = [pc EXCEPT ![c] = "prepared"]
        /\ job' = [job EXCEPT ![c] = j]
        /\ status' = [status EXCEPT ![j] = "queued"]
        /\ UNCHANGED <<result, token, outcome>>
    BY <1>6 DEF Prepare, Goto
  <2>2. \A d \in Calls : InOrder(d)'
    BY <1>0, <2>1 DEF IInv, StoreTypeOK
  <2> QED
    BY <2>2 DEF CallsInOrder
<1>7. ASSUME NEW c \in Calls, Heartbeat(c) PROVE CallsInOrder'
  BY <1>1, <1>7 DEF Heartbeat, local
<1>8. ASSUME NEW j \in Jobs, Expire(j) \/ CancelRead(j) \/ CancelWrite(j) PROVE CallsInOrder'
  BY <1>1, <1>8 DEF Expire, CancelRead, CancelWrite, rows, local
<1>9. CASE RecoverJobs
  BY <1>1, <1>9 DEF RecoverJobs, local
<1>10. CASE Reindex \/ UNCHANGED vars
  BY <1>1, <1>10 DEF Reindex, vars, rows, local
<1> QED
  BY <1>2, <1>3, <1>4, <1>5, <1>6, <1>7, <1>8, <1>9, <1>10, StepCases

-----------------------------------------------------------------------------
LEMMA InitIInv == Init => IInv
<1> SUFFICES ASSUME Init PROVE IInv
  OBVIOUS
<1> USE NamesAssumption, OutcomesAssumption DEF Init
<1>1. StoreTypeOK
  BY TypeInit
<1>2. CallsInOrder
  BY DEF CallsInOrder
<1>3. ClaimedOnce /\ LeaseMatchesStatus /\ ResultIsTheRunners
  BY DEF ClaimedOnce, LeaseMatchesStatus, ResultIsTheRunners
<1>4. PublishedOnce
  BY DEF PublishedOnce
<1>5. EventsTellStatus /\ KeyNamesOneJob /\ MirrorFollowsResult
  BY DEF EventsTellStatus, KeyNamesOneJob, MirrorFollowsResult, NoRequest
<1> QED
  BY <1>1, <1>2, <1>3, <1>4, <1>5 DEF IInv

LEMMA StepIInv == IInv /\ [Next]_vars => IInv'
<1> SUFFICES ASSUME IInv, [Next]_vars PROVE IInv'
  OBVIOUS
<1>1. StoreTypeOK'
  BY TypeStep DEF IInv
<1> QED
  BY <1>1, CallsStep, ClaimedOnceStep, LeaseStep, PublishedStep, ResultStep, EventsStep,
     KeyStep, MirrorStep DEF IInv

(* The inductive invariant holds of every behaviour of the store. *)
THEOREM StoreInvariant == Spec => []IInv
BY InitIInv, StepIInv, PTL DEF Spec

(* The tables, files and calls are well typed. *)
THEOREM StoreTypes == Spec => []StoreTypeOK
<1>1. IInv => StoreTypeOK
  BY DEF IInv
<1> QED
  BY <1>1, StoreInvariant, PTL

(* No two calls are ever granted the same job (claim_job, recover_jobs).   *)
THEOREM NoJobRunsTwice == Spec => []ClaimedOnce
<1>1. IInv => ClaimedOnce
  BY DEF IInv
<1> QED
  BY <1>1, StoreInvariant, PTL

(* A lease row exists exactly while the job is running, and names the call *)
(* that claimed it.                                                        *)
THEOREM LeaseIffRunning == Spec => []LeaseMatchesStatus
<1>1. IInv => LeaseMatchesStatus
  BY DEF IInv
<1> QED
  BY <1>1, StoreInvariant, PTL

(* publish_result publishes a job's evidence, result and status together,  *)
(* and once.                                                               *)
THEOREM PublicationIsAtomicAndUnique == Spec => []PublishedOnce
<1>1. IInv => PublishedOnce
  BY DEF IInv
<1> QED
  BY <1>1, StoreInvariant, PTL

(* The result of a claimed job is its holder's outcome, whatever expires.  *)
THEOREM HolderDecidesResult == Spec => []ResultIsTheRunners
<1>1. IInv => ResultIsTheRunners
  BY DEF IInv
<1> QED
  BY <1>1, StoreInvariant, PTL

(* job_events of a job are the history of its status. *)
THEOREM EventLogIsHistory == Spec => []EventsTellStatus
<1>1. IInv => EventsTellStatus
  BY DEF IInv
<1> QED
  BY <1>1, StoreInvariant, PTL

(* start_job binds an idempotency key to one job for ever. *)
THEOREM KeysAreUnique == Spec => []KeyNamesOneJob
<1>1. IInv => KeyNamesOneJob
  BY DEF IInv
<1> QED
  BY <1>1, StoreInvariant, PTL

(* The convenience file is never ahead of the database. *)
THEOREM MirrorIsNeverAhead == Spec => []MirrorFollowsResult
<1>1. IInv => MirrorFollowsResult
  BY DEF IInv
<1> QED
  BY <1>1, StoreInvariant, PTL

(* A terminal job keeps its status, result and events for ever. *)
THEOREM TerminalJobsAreFinal == Spec => TerminalIsFinal
<1> DEFINE Final == \A j \in Jobs :
                      status[j] \notin Active \cup {"absent"} =>
                        /\ status'[j] = status[j]
                        /\ result'[j] = result[j]
                        /\ events'[j] = events[j]
<1>1. IInv /\ [Next]_vars => [Final]_vars
  <2> SUFFICES ASSUME IInv, Next PROVE Final
    OBVIOUS
  <2>1. ASSUME UNCHANGED <<status, result, events>> PROVE Final
    BY <2>1
  <2>2. ASSUME NEW c \in Calls, QuietStep(c) PROVE Final
    BY <2>1, <2>2, QuietFrame DEF rows
  <2>3. ASSUME NEW c \in Calls, Claim(c) PROVE Final
    BY <2>3, ClaimFindsQueued DEF Claim, Log, Active, IInv, StoreTypeOK
  <2>4. ASSUME NEW c \in Calls, Publish(c) PROVE Final
    BY <2>4, PublishIsTheHolders DEF Publish, Log, IInv, StoreTypeOK
  <2>5. ASSUME NEW c \in Calls, NEW r \in Requests, NEW j \in Jobs, Prepare(c, r, j)
        PROVE  Final
    BY <2>5 DEF Prepare, Log, IInv, StoreTypeOK
  <2>6. ASSUME NEW c \in Calls, Heartbeat(c) \/ WriteMirror(c) PROVE Final
    BY <2>1, <2>6 DEF Heartbeat, WriteMirror, rows
  <2>7. ASSUME NEW j \in Jobs, Expire(j) \/ CancelRead(j) \/ CancelWrite(j) PROVE Final
    BY <2>1, <2>7 DEF Expire, CancelRead, CancelWrite, rows
  <2>8. CASE RecoverJobs
    BY <2>8 DEF RecoverJobs, Recoverable, Active
  <2>9. CASE Reindex
    BY <2>1, <2>9 DEF Reindex, rows
  <2> QED
    BY <2>2, <2>3, <2>4, <2>5, <2>6, <2>7, <2>8, <2>9, StepCases
<1> QED
  BY <1>1, StoreInvariant, PTL DEF Spec, TerminalIsFinal

(* The store implements JobLife: each of its transactions is one step of   *)
(* the life of the jobs, or none.                                          *)
THEOREM StoreImplementsJobLife == Spec => ImplementsJobLife
<1>1. Init => Life!Init
  BY DEF Init, Life!Init
<1>2. IInv /\ [Next]_vars => [Life!Next]_status
  <2> SUFFICES ASSUME IInv, Next PROVE Life!Next \/ status' = status
    BY DEF vars, rows
  <2>1. ASSUME NEW c \in Calls, QuietStep(c) PROVE status' = status
    BY <2>1, QuietFrame DEF rows
  <2>2. ASSUME NEW c \in Calls, Claim(c) PROVE Life!Next
    <3>1. Life!Start(job[c]) /\ job[c] \in Jobs
      BY <2>2, ClaimFindsQueued DEF Claim, Life!Start
    <3> QED BY <3>1 DEF Life!Next
  <2>3. ASSUME NEW c \in Calls, Publish(c) PROVE Life!Next
    <3>1. job[c] \in Jobs /\ outcome[c] \in Outcomes /\ Life!Publish(job[c], outcome[c])
      BY <2>3, PublishIsTheHolders DEF Publish, Life!Publish, Active
    <3> QED BY <3>1 DEF Life!Next
  <2>4. ASSUME NEW c \in Calls, NEW r \in Requests, NEW j \in Jobs, Prepare(c, r, j)
        PROVE  Life!Next
    BY <2>4 DEF Prepare, Life!Submit, Life!Next
  <2>5. ASSUME NEW c \in Calls, Heartbeat(c) \/ WriteMirror(c) PROVE status' = status
    BY <2>5 DEF Heartbeat, WriteMirror, rows
  <2>6. ASSUME NEW j \in Jobs, Expire(j) \/ CancelRead(j) \/ CancelWrite(j)
        PROVE  status' = status
    BY <2>6 DEF Expire, CancelRead, CancelWrite, rows
  <2>7. CASE RecoverJobs
    <3>1. Life!Interrupt(Recoverable) /\ Recoverable \in SUBSET Jobs
      BY <2>7 DEF RecoverJobs, Recoverable, Life!Interrupt
    <3> QED BY <3>1 DEF Life!Next
  <2>8. CASE Reindex
    BY <2>8 DEF Reindex, rows
  <2> QED
    BY <2>1, <2>2, <2>3, <2>4, <2>5, <2>6, <2>7, <2>8, StepCases
<1> QED
  BY <1>1, <1>2, StoreInvariant, PTL DEF Spec, ImplementsJobLife, Life!Spec

-----------------------------------------------------------------------------
(* Replay, proved about for evidence of any length.  It is a function      *)
(* defined by recursion on the number of rows: that the function exists,   *)
(* and that two of them agree, is shown by a least counterexample, since   *)
(* the numbers are well founded.                                           *)

(* persist_index, with the requests of the jobs as a parameter. *)
Turn(req, ix, e) ==
  [heads  |-> IF e.status \in Useful THEN [ix.heads EXCEPT ![req[e.job].scope] = e.job] ELSE ix.heads,
   layout |-> IF e.status \in Useful /\ req[e.job].scope \in MapScopes THEN e.job ELSE ix.layout,
   basis  |-> [ix.basis EXCEPT ![e.job] = ix.layout]]

(* t[n] is the index after the first n of the rows s. *)
IsTable(req, s, N, t) ==
  t = [n \in 0..N |-> IF n = 0 THEN EmptyIndex ELSE Turn(req, t[n - 1], s[n])]

LEMMA LessThanIsWellFounded == IsWellFoundedOn({p \in Nat \X Nat : p[1] < p[2]}, Nat)
BY NatLessThanWellFounded DEF OpToRel

(* A set of numbers that is not empty has a least one. *)
LEMMA LeastNumber ==
  ASSUME NEW T, T \subseteq Nat, T # {}
  PROVE  \E x \in T : \A y \in T : ~(y < x)
<1> DEFINE R == {p \in Nat \X Nat : p[1] < p[2]}
<1>1. IsWellFoundedOn(R, Nat)
  BY LessThanIsWellFounded
<1>2. \E x \in T : \A y \in T : ~ (<<y, x>> \in R)
  <2> HIDE DEF R
  <2> QED BY <1>1, WFMin
<1> QED
  BY <1>2

(* A set of numbers with 0 and the successors of its elements has them all. *)
LEMMA AllNumbers ==
  ASSUME NEW S, 0 \in S, \A n \in Nat : n \in S => n + 1 \in S
  PROVE  Nat \subseteq S
<1> SUFFICES ASSUME Nat \ S # {} PROVE FALSE
  OBVIOUS
<1> PICK x \in Nat \ S : \A y \in Nat \ S : ~(y < x)
  BY LeastNumber
<1>1. x # 0 /\ x - 1 \in Nat /\ x - 1 < x /\ (x - 1) + 1 = x
  BY Zenon, SMT
<1>2. x - 1 \in S
  BY <1>1
<1> QED
  BY <1>1, <1>2

LEMMA TablesExist ==
  ASSUME NEW req, NEW s, NEW N \in Nat
  PROVE  \E t : IsTable(req, s, N, t)
<1> DEFINE S == {n \in Nat : \E t : IsTable(req, s, n, t)}
<1>1. 0 \in S
  <2> DEFINE t == [n \in 0..0 |-> EmptyIndex]
  <2>1. IsTable(req, s, 0, t)
    BY DEF IsTable
  <2> HIDE DEF t
  <2> QED BY <2>1
<1>2. ASSUME NEW n \in Nat, n \in S PROVE n + 1 \in S
  <2> PICK t : IsTable(req, s, n, t)
    BY <1>2
  <2> DEFINE u == [k \in 0..(n + 1) |-> IF k <= n THEN t[k] ELSE Turn(req, t[n], s[n + 1])]
  <2>1. ASSUME NEW k \in 0..(n + 1)
        PROVE  u[k] = IF k = 0 THEN EmptyIndex ELSE Turn(req, u[k - 1], s[k])
    <3>1. CASE k <= n
      <4>1. t[k] = IF k = 0 THEN EmptyIndex ELSE Turn(req, t[k - 1], s[k])
        BY <3>1 DEF IsTable
      <4>2. k # 0 => u[k - 1] = t[k - 1]
        BY <3>1
      <4> QED BY <3>1, <4>1, <4>2
    <3>2. CASE k = n + 1
      <4>1. u[k - 1] = t[n] /\ k # 0
        BY <3>2
      <4>2. u[k] = Turn(req, t[n], s[n + 1])
        BY <3>2
      <4> HIDE DEF u
      <4> QED BY <3>2, <4>1, <4>2
    <3> QED BY <3>1, <3>2
  <2>2. u = [k \in 0..(n + 1) |-> IF k = 0 THEN EmptyIndex ELSE Turn(req, u[k - 1], s[k])]
    <3>1. u = [k \in 0..(n + 1) |-> u[k]]
      OBVIOUS
    <3> HIDE DEF u
    <3> QED BY <2>1, <3>1
  <2>3. IsTable(req, s, n + 1, u)
    <3> HIDE DEF u
    <3> QED BY <2>2 DEF IsTable
  <2> HIDE DEF u
  <2> QED BY <2>3
<1>3. Nat \subseteq S
  <2> HIDE DEF S
  <2> QED BY <1>1, <1>2, AllNumbers
<1> QED
  BY <1>3

(* Two logs tell the index the same in their first N rows. *)
SameRows(req, req2, s, s2, N) ==
  \A k \in 1..N : s[k] = s2[k] /\ req[s[k].job].scope = req2[s[k].job].scope

(* Tables of the same rows agree. *)
LEMMA TablesAgree ==
  ASSUME NEW req, NEW req2, NEW s, NEW s2, NEW N \in Nat, NEW N2 \in Nat, NEW t, NEW t2,
         IsTable(req, s, N, t), IsTable(req2, s2, N2, t2),
         N <= N2, SameRows(req, req2, s, s2, N)
  PROVE  t[N] = t2[N]
<1> DEFINE S == {n \in Nat : n <= N => t[n] = t2[n]}
<1>1. 0 \in S
  BY DEF IsTable
<1>2. ASSUME NEW n \in Nat, n \in S PROVE n + 1 \in S
  <2> SUFFICES ASSUME n + 1 <= N PROVE t[n + 1] = t2[n + 1]
    OBVIOUS
  <2>1. t[n] = t2[n]
    BY <1>2
  <2>2. t[n + 1] = Turn(req, t[n], s[n + 1]) /\ t2[n + 1] = Turn(req2, t2[n], s2[n + 1])
    BY DEF IsTable
  <2>3. s[n + 1] = s2[n + 1] /\ req[s[n + 1].job].scope = req2[s[n + 1].job].scope
    BY DEF SameRows
  <2> QED BY <2>1, <2>2, <2>3 DEF Turn
<1>3. Nat \subseteq S
  <2> HIDE DEF S
  <2> QED BY <1>1, <1>2, AllNumbers
<1> QED
  BY <1>3

(* Replay is the last entry of its table. *)
LEMMA ReplayTable ==
  ASSUME NEW s, Len(s) \in Nat
  PROVE  \E t : IsTable(request, s, Len(s), t) /\ Replay(s) = t[Len(s)]
<1> DEFINE F(t) == t = [n \in 0..Len(s) |-> IF n = 0 THEN EmptyIndex ELSE PersistIndex(t[n - 1], s[n])]
<1>1. \A ix, e : PersistIndex(ix, e) = Turn(request, ix, e)
  BY DEF PersistIndex, Turn
<1>2. \A t : F(t) <=> IsTable(request, s, Len(s), t)
  BY <1>1 DEF IsTable
<1>3. \E t : F(t)
  BY <1>2, TablesExist
<1>4. F(CHOOSE t : F(t))
  <2> HIDE DEF F
  <2> QED BY <1>3
<1>5. Replay(s) = (CHOOSE t : F(t))[Len(s)]
  BY DEF Replay
<1> QED
  BY <1>2, <1>4, <1>5

-----------------------------------------------------------------------------
(* The derived index.  IndexInv adds the index to IInv: a publication adds *)
(* to the index the row it adds to the evidence, a rebuild finds the index *)
(* it already has, and a job given its request has no evidence yet.        *)

IndexInv == IInv /\ IndexTypeOK /\ IndexIsReplay /\ HeadIsLatestUseful

(* The table behind Replay(evidence). *)
HasTable == \E t : IsTable(request, evidence, Len(evidence), t) /\ Replay(evidence) = t[Len(evidence)]

LEMMA EvidenceTable == StoreTypeOK => HasTable
<1> SUFFICES ASSUME StoreTypeOK PROVE HasTable
  OBVIOUS
<1>1. Len(evidence) \in Nat
  BY DEF StoreTypeOK
<1> QED
  BY <1>1, ReplayTable DEF HasTable

(* The jobs of evidence rows have ended. *)
LEMMA EvidenceJobsEnded ==
  ASSUME IInv, NEW n \in DOMAIN evidence
  PROVE  /\ evidence[n] \in Row
         /\ evidence[n].job \in Jobs
         /\ status[evidence[n].job] = evidence[n].status
         /\ status[evidence[n].job] # "absent"
<1>1. evidence[n] \in Row /\ evidence[n].job \in Jobs /\ evidence[n].status \in Outcomes
  <2>1. evidence \in Seq(Row)
    BY DEF IInv, StoreTypeOK
  <2>2. evidence[n] \in Row
    BY <2>1
  <2> QED BY <2>2 DEF Row
<1>2. result[evidence[n].job] = evidence[n].status /\ evidence[n].status \notin {None, "absent"}
  BY <1>1, OutcomesAssumption DEF IInv, PublishedOnce
<1> QED
  BY <1>1, <1>2 DEF IInv, PublishedOnce

(* The same table after a step. *)
LEMMA EvidenceTableNext ==
  ASSUME StoreTypeOK'
  PROVE  \E u : IsTable(request', evidence', Len(evidence'), u)
                /\ Replay(evidence)' = u[Len(evidence')]
<1>1. HasTable'
  BY EvidenceTable, PTL
<1> QED
  BY <1>1 DEF HasTable, IsTable, Turn, EmptyIndex

(* A step that keeps the evidence keeps its replay, although a job that    *)
(* has no evidence may be given its request.                               *)
LEMMA ReplayKept ==
  ASSUME IInv, StoreTypeOK', UNCHANGED evidence,
         \A n \in DOMAIN evidence : request'[evidence[n].job] = request[evidence[n].job]
  PROVE  Replay(evidence)' = Replay(evidence)
<1>1. PICK t : IsTable(request, evidence, Len(evidence), t)
               /\ Replay(evidence) = t[Len(evidence)]
  BY EvidenceTable DEF IInv, HasTable
<1>2. PICK u : IsTable(request', evidence', Len(evidence'), u)
               /\ Replay(evidence)' = u[Len(evidence')]
  BY EvidenceTableNext
<1>3. Len(evidence) \in Nat /\ DOMAIN evidence = 1..Len(evidence)
  BY DEF IInv, StoreTypeOK
<1>4. IsTable(request', evidence, Len(evidence), u) /\ Replay(evidence)' = u[Len(evidence)]
  BY <1>2
<1>5. SameRows(request, request', evidence, evidence, Len(evidence))
  BY <1>3 DEF SameRows
<1>6. t[Len(evidence)] = u[Len(evidence)]
  <2> DEFINE N == Len(evidence)
  <2>1. N \in Nat /\ N <= N
    BY <1>3
  <2>2. IsTable(request, evidence, N, t) /\ IsTable(request', evidence, N, u)
    BY <1>1, <1>4
  <2>3. SameRows(request, request', evidence, evidence, N)
    BY <1>5
  <2>4. t[N] = u[N]
    <3> HIDE DEF N
    <3> QED BY <2>1, <2>2, <2>3, TablesAgree
  <2> QED BY <2>4
<1> QED
  BY <1>1, <1>4, <1>6

(* One more row: persist_index on top of the replay. *)
LEMMA ReplayGrows ==
  ASSUME IInv, StoreTypeOK', NEW e \in Row, evidence' = Append(evidence, e), UNCHANGED request
  PROVE  Replay(evidence)' = PersistIndex(Replay(evidence), e)
<1>1. PICK t : IsTable(request, evidence, Len(evidence), t)
               /\ Replay(evidence) = t[Len(evidence)]
  BY EvidenceTable DEF IInv, HasTable
<1>2. PICK u : IsTable(request', evidence', Len(evidence'), u)
               /\ Replay(evidence)' = u[Len(evidence')]
  BY EvidenceTableNext
<1> DEFINE N == Len(evidence)
<1>3. /\ N \in Nat /\ Len(evidence') = N + 1 /\ evidence'[N + 1] = e
      /\ \A k \in 1..N : evidence'[k] = evidence[k]
  BY DEF IInv, StoreTypeOK
<1>4. u[N] = t[N]
  <2>1. IsTable(request, evidence', N + 1, u)
    BY <1>2, <1>3
  <2>2. N \in Nat /\ N + 1 \in Nat /\ N <= N /\ N <= N + 1
    BY <1>3
  <2>3. SameRows(request, request, evidence, evidence', N)
    BY <1>3 DEF SameRows
  <2>4. IsTable(request, evidence, N, t)
    BY <1>1
  <2> HIDE DEF N
  <2> QED BY <2>1, <2>2, <2>3, <2>4, TablesAgree
<1>5. u[N + 1] = Turn(request, u[N], e)
  BY <1>2, <1>3 DEF IsTable
<1> QED
  BY <1>1, <1>2, <1>3, <1>4, <1>5 DEF Turn, PersistIndex

(* What a step does to the evidence and the index. *)
LEMMA IndexCases ==
  ASSUME IInv, [Next]_vars
  PROVE  \/ /\ UNCHANGED <<evidence, index>>
            /\ \A n \in DOMAIN evidence : request'[evidence[n].job] = request[evidence[n].job]
         \/ \E c \in Calls : Publish(c)
         \/ Reindex
<1> DEFINE Same == /\ UNCHANGED <<evidence, index>>
                   /\ \A n \in DOMAIN evidence : request'[evidence[n].job] = request[evidence[n].job]
<1>1. ASSUME UNCHANGED <<evidence, request, index>> PROVE Same
  BY <1>1
<1>2. ASSUME NEW c \in Calls, QuietStep(c) PROVE Same
  BY <1>2, QuietFrame DEF QuietStep, PrepareAgain, PrepareRefused, Attach, PublishUnclaimed,
     Finish, FinishBackend, ReadJob, ClaimRefused, HeartbeatFails, StartBackend, SkipBackend,
     PublishNothing, Abandon, rows
<1>3. ASSUME NEW c \in Calls, Claim(c) \/ Heartbeat(c) \/ WriteMirror(c) PROVE Same
  BY <1>1, <1>3 DEF Claim, Heartbeat, WriteMirror, rows
<1>4. ASSUME NEW c \in Calls, NEW r \in Requests, NEW j \in Jobs, Prepare(c, r, j) PROVE Same
  BY <1>4, EvidenceJobsEnded DEF Prepare, IInv, StoreTypeOK
<1>5. ASSUME NEW j \in Jobs, Expire(j) \/ CancelRead(j) \/ CancelWrite(j) PROVE Same
  BY <1>1, <1>5 DEF Expire, CancelRead, CancelWrite, rows
<1>6. CASE RecoverJobs \/ UNCHANGED vars
  BY <1>1, <1>6 DEF RecoverJobs, vars, rows
<1> QED
  BY <1>2, <1>3, <1>4, <1>5, <1>6, StepCases

(* What a publication appends. *)
LEMMA PublishedRow ==
  ASSUME IInv, NEW c \in Calls, Publish(c)
  PROVE  \E e \in Row :
           /\ e = [job |-> job[c], status |-> outcome[c]]
           /\ evidence' = Append(evidence, e)
           /\ SetIndex(PersistIndex(Index, e))
           /\ request' = request
<1>1. job[c] \in Jobs /\ outcome[c] \in Outcomes
  BY PublishIsTheHolders
<1> QED
  BY <1>1 DEF Publish, Row

LEMMA ReindexKeeps ==
  ASSUME IndexInv, Reindex
  PROVE  UNCHANGED <<rows, index>>
BY DEF IndexInv, IndexIsReplay, Reindex, SetIndex, Index, index

LEMMA IndexTypeStep ==
  ASSUME IndexInv, [Next]_vars
  PROVE  IndexTypeOK'
<1>1. CASE UNCHANGED index
  BY <1>1 DEF IndexInv, IndexTypeOK, index
<1>2. ASSUME NEW c \in Calls, Publish(c) PROVE IndexTypeOK'
  <2> PICK e \in Row : SetIndex(PersistIndex(Index, e))
    BY <1>2, PublishedRow DEF IndexInv
  <2> QED BY DEF IndexInv, IndexTypeOK, SetIndex, PersistIndex, Index, Row
<1> QED
  BY <1>1, <1>2, IndexCases, ReindexKeeps DEF IndexInv

LEMMA ReplayStep ==
  ASSUME IndexInv, [Next]_vars
  PROVE  IndexIsReplay'
<1>1. StoreTypeOK'
  BY TypeStep DEF IndexInv, IInv
<1>2. ASSUME UNCHANGED <<evidence, index>>,
             \A n \in DOMAIN evidence : request'[evidence[n].job] = request[evidence[n].job]
      PROVE  IndexIsReplay'
  BY <1>1, <1>2, ReplayKept DEF IndexInv, IndexIsReplay, Index, index
<1>3. ASSUME NEW c \in Calls, Publish(c) PROVE IndexIsReplay'
  <2> PICK e \in Row : /\ evidence' = Append(evidence, e)
                       /\ SetIndex(PersistIndex(Index, e))
                       /\ request' = request
    BY <1>3, PublishedRow DEF IndexInv
  <2>1. Replay(evidence)' = PersistIndex(Index, e)
    BY <1>1, ReplayGrows DEF IndexInv, IndexIsReplay
  <2>2. Index' = PersistIndex(Index, e)
    BY DEF SetIndex, Index, PersistIndex
  <2> QED BY <2>1, <2>2 DEF IndexIsReplay
<1>4. CASE Reindex
  BY <1>2, <1>4, ReindexKeeps DEF rows
<1> QED
  BY <1>2, <1>3, <1>4, IndexCases DEF IndexInv

(* The evidence rows whose result is new knowledge in a scope. *)
UsefulRows(s) == {n \in DOMAIN evidence : /\ evidence[n].status \in Useful
                                          /\ request[evidence[n].job].scope = s}

HeadRight(s) ==
  IF UsefulRows(s) = {} THEN heads[s] = NoJob
  ELSE \E n \in UsefulRows(s) : heads[s] = evidence[n].job /\ \A m \in UsefulRows(s) : m <= n

LEMMA HeadsRight == HeadIsLatestUseful <=> \A s \in Scopes : HeadRight(s)
BY DEF HeadIsLatestUseful, HeadRight, UsefulRows

(* A step that keeps the useful rows of a scope keeps its head right. *)
LEMMA HeadKept ==
  ASSUME NEW s, HeadRight(s), UsefulRows(s)' = UsefulRows(s), heads'[s] = heads[s],
         \A n \in DOMAIN evidence : evidence'[n] = evidence[n]
  PROVE  HeadRight(s)'
BY Zenon DEF HeadRight, UsefulRows

(* A publication appends the newest row of its scope, and moves the head   *)
(* of that scope to it exactly if it is useful.                            *)
LEMMA HeadAfterPublish ==
  ASSUME IndexInv, NEW c \in Calls, Publish(c), NEW s \in Scopes
  PROVE  HeadRight(s)'
<1> PICK e \in Row : /\ evidence' = Append(evidence, e)
                     /\ SetIndex(PersistIndex(Index, e))
                     /\ request' = request
  BY PublishedRow DEF IndexInv
<1> DEFINE N == Len(evidence)
<1>1. /\ N \in Nat /\ DOMAIN evidence = 1..N /\ DOMAIN evidence' = 1..(N + 1)
      /\ evidence'[N + 1] = e /\ \A n \in 1..N : evidence'[n] = evidence[n]
  BY DEF IndexInv, IInv, StoreTypeOK
<1>2. heads' = IF e.status \in Useful THEN [heads EXCEPT ![request[e.job].scope] = e.job] ELSE heads
  BY DEF SetIndex, PersistIndex, Index
<1>3. HeadRight(s)
  BY HeadsRight DEF IndexInv
<1> HIDE DEF N
<1>4. CASE e.status \in Useful /\ request[e.job].scope = s
  <2>1. N + 1 \in UsefulRows(s)' /\ \A m \in UsefulRows(s)' : m <= N + 1
    BY <1>1, <1>4 DEF UsefulRows
  <2>2. heads'[s] = evidence'[N + 1].job
    BY <1>1, <1>2, <1>4 DEF IndexInv, IndexTypeOK
  <2> QED BY <2>1, <2>2 DEF HeadRight
<1>5. CASE ~(e.status \in Useful /\ request[e.job].scope = s)
  <2>1. UsefulRows(s)' = UsefulRows(s)
    BY <1>1, <1>5 DEF UsefulRows
  <2>2. heads'[s] = heads[s]
    BY <1>2, <1>5 DEF IndexInv, IndexTypeOK
  <2>3. \A n \in DOMAIN evidence : evidence'[n] = evidence[n]
    BY <1>1
  <2> QED BY <1>3, <2>1, <2>2, <2>3, HeadKept
<1> QED
  BY <1>4, <1>5

LEMMA HeadStep ==
  ASSUME IndexInv, [Next]_vars
  PROVE  HeadIsLatestUseful'
<1>1. (HeadIsLatestUseful <=> \A s \in Scopes : HeadRight(s))'
  BY HeadsRight, PTL
<1>2. ASSUME UNCHANGED <<evidence, index>>, NEW s \in Scopes,
             \A n \in DOMAIN evidence : request'[evidence[n].job] = request[evidence[n].job]
      PROVE  HeadRight(s)'
  <2>1. UsefulRows(s)' = UsefulRows(s)
    BY <1>2 DEF UsefulRows
  <2>2. HeadRight(s)
    BY HeadsRight DEF IndexInv
  <2> QED BY <1>2, <2>1, <2>2, HeadKept DEF index
<1>3. ASSUME NEW s \in Scopes PROVE HeadRight(s)'
  BY <1>2, HeadAfterPublish, IndexCases, ReindexKeeps DEF IndexInv, rows
<1> QED
  BY <1>1, <1>3

LEMMA InitIndexInv == Init => IndexInv
<1> SUFFICES ASSUME Init PROVE IndexInv
  OBVIOUS
<1>1. IInv
  BY InitIInv
<1>2. IndexTypeOK
  BY DEF Init, IndexTypeOK
<1>3. IndexIsReplay
  <2>1. Len(evidence) = 0
    BY DEF Init
  <2> PICK t : IsTable(request, evidence, 0, t) /\ Replay(evidence) = t[0]
    BY <2>1, ReplayTable
  <2>2. Replay(evidence) = EmptyIndex
    BY DEF IsTable
  <2> QED BY <2>2 DEF Init, IndexIsReplay, Index, EmptyIndex
<1>4. HeadIsLatestUseful
  BY DEF Init, HeadIsLatestUseful
<1> QED
  BY <1>1, <1>2, <1>3, <1>4 DEF IndexInv

LEMMA StepIndexInv == IndexInv /\ [Next]_vars => IndexInv'
<1> SUFFICES ASSUME IndexInv, [Next]_vars PROVE IndexInv'
  OBVIOUS
<1>1. IInv'
  BY StepIInv DEF IndexInv
<1> QED
  BY <1>1, IndexTypeStep, ReplayStep, HeadStep DEF IndexInv

(* The derived index and the evidence agree in every behaviour of the store. *)
THEOREM IndexInvariant == Spec => []IndexInv
BY InitIndexInv, StepIndexInv, PTL DEF Spec

(* Every variable of the store and of the derived index has its type. *)
THEOREM AllTypes == Spec => []TypeOK
<1>1. IndexInv => TypeOK
  BY DEF IndexInv, IInv, TypeOK
<1> QED
  BY <1>1, IndexInvariant, PTL

(* Rebuilding the index at any moment reproduces it: what persist_index     *)
(* accumulates row by row is the replay of reindex, for evidence of any    *)
(* length.                                                                 *)
THEOREM IndexReplaysEvidence == Spec => []IndexIsReplay
<1>1. IndexInv => IndexIsReplay
  BY DEF IndexInv
<1> QED
  BY <1>1, IndexInvariant, PTL

(* The head of a scope is its latest completed or partial result: failed   *)
(* and cancelled retries, late publications and rebuilds never move it.    *)
THEOREM HeadsAreLatestUseful == Spec => []HeadIsLatestUseful
<1>1. IndexInv => HeadIsLatestUseful
  BY DEF IndexInv
<1> QED
  BY <1>1, IndexInvariant, PTL

=============================================================================
