------------------------------ MODULE LongRun ------------------------------
(***************************************************************************)
(* agent/long-run.mjs: a supervisor that works through a durable queue of  *)
(* questions, one batch (one model session in a process of its own) at a   *)
(* time, and agent/question-queue.mjs, which both processes write.         *)
(*                                                                         *)
(* run is the supervisor's memory and disk what supervisor.json holds; a   *)
(* crash loses the first and leaves the lock file, the queue and, it may   *)
(* be, the worker.  Receipt b is what batch b's tools wrote, 0 when there  *)
(* is none: its content may change while nobody looks.  The reasons to     *)
(* pause between two batches (STOP file, budgets, disk space, a changed    *)
(* target or implementation, a provider that does not answer) are one.     *)
(***************************************************************************)
EXTENDS Integers, Sequences, FiniteSets

CONSTANTS
  MaxQuestions,     \* capacity of the queue: 128
  MaxChildren,      \* of one question_add: 12
  MaxAttempts,      \* batches of one question: 3
  MaxBatches,       \* limits.maxBatches
  MaxGenerations,   \* answers of the model in one batch
  MaxFaults,        \* bound: crashes of the supervisor and failed writes
  MaxChanges        \* bound: receipts changed or removed

LongRunAssumption ==
  /\ MaxQuestions \in Nat \ {0} /\ MaxChildren \in Nat /\ MaxAttempts \in Nat \ {0}
  /\ MaxBatches \in Nat /\ MaxGenerations \in Nat \ {0}
  /\ MaxFaults \in Nat /\ MaxChanges \in Nat

VARIABLES
  questions,        \* questions.json
  receipt,          \* content of the receipt of each batch
  run, disk,        \* the supervisor's record, and supervisor.json
  lock,             \* supervisor.lock exists
  pc,               \* down, loop, context, next, batch, settled
  picked,           \* the question next() returned
  before,           \* progressDigest when the batch began
  worker,           \* the batch's process
  marker,           \* batch-checkpoint.json of this batch
  unresolved,       \* unresolved.json of this batch
  abort,            \* the batch's AbortController
  acked,            \* history: batches on record at the last acknowledged start
  unasked,          \* history: batches whose outcome was saved, but not that it
                    \* must be reviewed
  faults, changes
queue == <<questions, receipt>>
files == <<marker, unresolved>>
batchVars == <<picked, before, worker, files, abort>>
history == <<acked, unasked>>
bounds == <<faults, changes>>
vars == <<queue, run, disk, lock, pc, batchVars, history, bounds>>

QuestionIds == DOMAIN questions
Open == {"pending", "partial"}
Closed == {"answered", "decomposed", "blocked"}
With(q, status) == [questions EXCEPT ![q].status = status]
Batch == Len(run.batches)
NewRun == [status |-> "ready", review |-> FALSE, batches |-> <<>>, stagnant |-> 0]
NoWorker == [alive |-> FALSE, ckpt |-> FALSE, gens |-> 0, exit |-> "ok"]
NewQuestion(parent, deps) ==
  [parent |-> parent, deps |-> deps, status |-> "pending", attempts |-> 0, cites |-> {}]

Init ==
  /\ questions = <<NewQuestion(0, {})>> /\ receipt = [b \in 1..MaxBatches |-> 0]
  /\ run = NewRun /\ disk = NewRun
  /\ lock = FALSE /\ pc = "down"
  /\ picked = 0 /\ before = <<>> /\ worker = NoWorker
  /\ marker = FALSE /\ unresolved = FALSE /\ abort = FALSE
  /\ acked = 0 /\ unasked = {} /\ faults = 0 /\ changes = 0

(***************************************************************************)
(* The queue                                                               *)
(***************************************************************************)
\* A cited receipt still has the content whose hash was taken.
Intact(q) == \A c \in q.cites : receipt[c.batch] = c.content

\* Answers whose evidence changed or disappeared are blocked.
Validated(qs) ==
  [i \in DOMAIN qs |->
     IF qs[i].status = "answered" /\ ~Intact(qs[i])
     THEN [qs[i] EXCEPT !.status = "blocked"] ELSE qs[i]]

\* Mutant: the attempts are not counted.
Untired(qs) ==
  [i \in DOMAIN qs |->
     IF qs[i].status = "active" THEN [qs[i] EXCEPT !.status = "partial"] ELSE qs[i]]

\* next(): what was active was interrupted, and what was tried often enough is
\* blocked.
Reopened(qs) ==
  [i \in DOMAIN qs |->
     IF qs[i].status \in Open \cup {"active"}
     THEN [qs[i] EXCEPT !.status = IF qs[i].attempts >= MaxAttempts THEN "blocked"
                                   ELSE IF @ = "active" THEN "partial" ELSE @]
     ELSE qs[i]]

ReadyIn(qs) ==
  {i \in DOMAIN qs : /\ qs[i].status \in Open
                     /\ \A d \in qs[i].deps : qs[d].status = "answered"}

\* What progressDigest tells apart.
Digest(qs) ==
  [i \in DOMAIN qs |->
     <<qs[i].cites, IF qs[i].status \in Closed THEN qs[i].status ELSE "open">>]

(***************************************************************************)
(* The supervisor                                                          *)
(***************************************************************************)
Persist(r) == run' = r /\ disk' = r
Leave(r) == disk' = r /\ run' = NewRun /\ lock' = FALSE /\ pc' = "down"
Stop(r) == Leave([r EXCEPT !.status = "paused"])

\* A start (or a resume) by the operator.  That a review is done is forgotten
\* in memory at once and on disk with the next write.
Start(ack) ==
  /\ pc = "down" /\ ~lock
  /\ disk.review \/ disk.status = "running" => ack
  /\ lock' = TRUE /\ pc' = "loop"
  /\ run' = [disk EXCEPT !.review = FALSE]
  /\ acked' = IF ack THEN Len(disk.batches) ELSE acked
  /\ UNCHANGED <<queue, disk, batchVars, unasked, bounds>>

\* The head of the loop: the evidence is checked and the queue may be done.
LoopTop ==
  /\ pc = "loop"
  /\ LET qs == Validated(questions) IN
     /\ questions' = qs
     /\ IF \A i \in QuestionIds : qs[i].status \in Closed
        THEN Leave([run EXCEPT !.status = IF \E i \in QuestionIds : qs[i].status = "blocked"
                                          THEN "blocked" ELSE "completed"])
        ELSE IF Batch >= MaxBatches THEN Stop(run)
        ELSE pc' = "context" /\ UNCHANGED <<run, disk, lock>>
  /\ UNCHANGED <<receipt, batchVars, history, bounds>>

\* One of the other reasons to pause, the provider's refusal included.
Pause ==
  /\ pc = "context" /\ Stop(run)
  /\ UNCHANGED <<queue, batchVars, history, bounds>>

\* The provider has answered, after an await; next() reads the queue anew.
Next_ ==
  /\ pc = "context"
  /\ LET qs == Reopened(Validated(questions))
         ready == ReadyIn(qs)
         q == CHOOSE i \in ready : \A j \in ready : i <= j
     IN IF ready = {}
        THEN /\ questions' = qs
             /\ Leave([run EXCEPT !.status =
                         IF \E i \in QuestionIds : qs[i].status \in Open \cup {"blocked"}
                         THEN "blocked" ELSE "completed"])
             /\ UNCHANGED picked
        ELSE /\ questions' = [qs EXCEPT ![q].status = "active", ![q].attempts = @ + 1]
             /\ picked' = q /\ pc' = "next"
             /\ UNCHANGED <<run, disk, lock>>
  /\ UNCHANGED <<receipt, before, worker, files, abort, history, bounds>>

\* The batch is on record, and its process starts.
Begin ==
  /\ pc = "next"
  /\ Persist([run EXCEPT !.status = "running",
                         !.batches = Append(@, [q |-> picked, status |-> "running"])])
  /\ before' = Digest(questions)
  /\ worker' = [NoWorker EXCEPT !.alive = TRUE]
  /\ marker' = FALSE /\ unresolved' = FALSE /\ abort' = FALSE
  /\ pc' = "batch"
  /\ UNCHANGED <<queue, lock, picked, history, bounds>>

\* The session never began: launch threw.
BeginFails ==
  /\ pc = "batch" /\ worker = [NoWorker EXCEPT !.alive = TRUE]
  /\ worker' = [NoWorker EXCEPT !.exit = "threw"]
  /\ UNCHANGED <<queue, run, disk, lock, pc, picked, before, files, abort, history, bounds>>

\* What the supervisor makes of the worker's end.
Outcome ==
  LET saved == questions[picked].status
      recovered == marker /\ saved \in {"partial", "answered", "blocked", "decomposed"}
  IN IF worker.exit = "threw" THEN "failed"
     ELSE IF worker.exit = "ok" /\ ~abort /\ (unresolved => recovered)
          THEN "finished" ELSE "interrupted"

\* The worker has ended: the outcome is on disk, the run paused.  What the batch
\* left is not read again.
Return ==
  /\ pc = "batch" /\ ~worker.alive
  /\ Persist([run EXCEPT !.batches[Batch].status = Outcome,
                         !.stagnant = IF before = Digest(questions) THEN @ + 1 ELSE 0,
                         !.status = "paused"])
  /\ pc' = "settled"
  /\ picked' = 0 /\ before' = <<>> /\ worker' = NoWorker
  /\ marker' = FALSE /\ unresolved' = FALSE /\ abort' = FALSE
  /\ UNCHANGED <<queue, lock, history, bounds>>

\* That the outcome must be reviewed is a write of its own.
Settle ==
  /\ pc = "settled"
  /\ IF run.batches[Batch].status # "finished" THEN Stop([run EXCEPT !.review = TRUE])
     ELSE IF run.stagnant >= 2 THEN Stop(run)
     ELSE pc' = "loop" /\ UNCHANGED <<run, disk, lock>>
  /\ UNCHANGED <<queue, batchVars, history, bounds>>

(***************************************************************************)
(* The worker: agent/extension.ts in the model's session                   *)
(***************************************************************************)
Working == worker.alive /\ UNCHANGED <<run, disk, lock, pc, picked, before, history, bounds>>
\* A worker that outlived its supervisor belongs to the last batch on disk.
Its == Len(disk.batches)
Own == disk.batches[Its].q

\* A native tool leaves its receipt.
Tool ==
  /\ Working /\ ~worker.ckpt /\ receipt[Its] = 0
  /\ receipt' = [receipt EXCEPT ![Its] = 1]
  /\ UNCHANGED <<questions, worker, files, abort>>

\* question_add: the children's dependencies are questions on record, earlier
\* ones of the same call included, but not the parent.
QuestionAdd(items) ==
  /\ Working /\ questions[Own].status \in Open \cup {"active"}
  /\ Len(questions) + Len(items) <= MaxQuestions
  /\ \A k \in DOMAIN items : items[k] \subseteq 1..(Len(questions) + k - 1) \ {Own}
  /\ questions' = With(Own, "decomposed")
                    \o [k \in DOMAIN items |-> NewQuestion(Own, items[k])]
  /\ worker' = [worker EXCEPT !.ckpt = TRUE]
  /\ UNCHANGED <<receipt, files, abort>>

Cited(batches) == {[batch |-> b, content |-> receipt[b]] : b \in batches}

\* question_checkpoint: evidence is receipts that exist, at their content now.
QuestionCheckpoint(status, batches) ==
  /\ Working /\ questions[Own].status = "active"
  /\ \A b \in batches : receipt[b] # 0
  /\ status = "answered" => batches # {}
  /\ questions' = [questions EXCEPT ![Own].status = status, ![Own].cites = Cited(batches)]
  /\ worker' = [worker EXCEPT !.ckpt = TRUE]
  /\ UNCHANGED <<receipt, files, abort>>

\* A turn ends: after a checkpoint or at the last generation the session is
\* shut down, and what is still active then is kept as partial.
TurnEnd(markup) ==
  /\ Working /\ worker.exit = "ok" /\ worker.gens < MaxGenerations
  /\ LET last == worker.gens + 1 = MaxGenerations
         keep == ~worker.ckpt /\ last /\ questions[Own].status = "active"
         old == {c.batch : c \in questions[Own].cites}
         refs == IF old # {} THEN old ELSE {b \in {Its} : receipt[b] # 0}
     IN /\ questions' = IF keep THEN [questions EXCEPT ![Own].status = "partial",
                                                       ![Own].cites = Cited(refs)]
                        ELSE questions
        /\ keep => \A b \in refs : receipt[b] # 0
        /\ marker' = (marker \/ worker.ckpt \/ keep)
        /\ unresolved' = (unresolved \/ (markup /\ ~worker.ckpt /\ ~keep))
        /\ worker' = [worker EXCEPT !.gens = @ + 1, !.alive = ~(worker.ckpt \/ last)]
  /\ UNCHANGED <<receipt, abort>>

\* The session ends by itself, or breaks: a provider error, a bad exit code or
\* more output than is read.
SessionEnds(exit) ==
  /\ Working /\ worker' = [worker EXCEPT !.alive = FALSE, !.exit = exit]
  /\ UNCHANGED <<queue, files, abort>>

\* The deadline of the batch, the monitor or the operator aborts it; the
\* process tree is stopped.
Abort ==
  /\ pc = "batch" /\ Working /\ abort' = TRUE
  /\ worker' = [worker EXCEPT !.alive = FALSE]
  /\ UNCHANGED <<queue, files>>

(***************************************************************************)
(* The world                                                               *)
(***************************************************************************)
\* A supervisor that ends at "settled" has saved the outcome of its batch, but
\* not that it must be reviewed.
Unasked == IF pc = "settled" THEN unasked \cup {Batch} ELSE unasked

\* The supervisor dies; the lock stays.
Crash ==
  /\ pc # "down" /\ faults < MaxFaults /\ faults' = faults + 1 /\ unasked' = Unasked
  /\ pc' = "down" /\ run' = NewRun /\ abort' = FALSE
  /\ UNCHANGED <<queue, disk, lock, picked, before, worker, files, acked, changes>>

\* A write fails: the supervisor throws and removes its lock.
WriteFails ==
  /\ pc \in {"context", "next", "settled"} /\ faults < MaxFaults /\ faults' = faults + 1
  /\ unasked' = Unasked
  /\ pc' = "down" /\ run' = NewRun /\ lock' = FALSE
  /\ UNCHANGED <<queue, disk, batchVars, acked, changes>>

\* The operator removes the lock file once supervisor and worker have stopped.
Unlock ==
  /\ pc = "down" /\ lock /\ ~worker.alive /\ lock' = FALSE
  /\ UNCHANGED <<queue, run, disk, pc, batchVars, history, bounds>>

\* A receipt is changed or removed.
ReceiptChanges(b, content) ==
  /\ receipt[b] # 0 /\ receipt[b] # content /\ changes < MaxChanges
  /\ receipt' = [receipt EXCEPT ![b] = content] /\ changes' = changes + 1
  /\ UNCHANGED <<questions, run, disk, lock, pc, batchVars, history, faults>>

Items == UNION {[1..n -> SUBSET (1..MaxQuestions)] : n \in 1..MaxChildren}
Supervisor == LoopTop \/ Next_ \/ Begin \/ Return \/ Settle
Worker ==
  \/ Tool \/ \E markup \in BOOLEAN : TurnEnd(markup)
  \/ \E items \in Items : QuestionAdd(items)
  \/ \E status \in {"partial", "answered", "blocked"}, batches \in SUBSET (1..MaxBatches) :
        QuestionCheckpoint(status, batches)
  \/ \E exit \in {"ok", "bad"} : SessionEnds(exit)
World ==
  \/ \E ack \in BOOLEAN : Start(ack)
  \/ Pause \/ BeginFails \/ Abort \/ Crash \/ WriteFails \/ Unlock
  \/ \E b \in 1..MaxBatches, content \in {0, 2} : ReceiptChanges(b, content)
Next == Supervisor \/ Worker \/ World

Spec == Init /\ [][Next]_vars

\* The supervisor goes on, and the deadline of a batch comes.
FairSpec == Spec /\ WF_vars(Supervisor) /\ WF_vars(Abort)

(***************************************************************************)
(* Properties                                                              *)
(***************************************************************************)
Question ==
  [parent : 0..MaxQuestions, deps : SUBSET (1..MaxQuestions),
   status : Open \cup Closed \cup {"active"}, attempts : 0..MaxAttempts,
   cites : SUBSET [batch : 1..MaxBatches, content : 1..2]]
Record ==
  [status : {"ready", "running", "paused", "blocked", "completed"}, review : BOOLEAN,
   batches : Seq([q : 1..MaxQuestions,
                  status : {"running", "finished", "interrupted", "failed"}]),
   stagnant : 0..MaxBatches]

\* The files and the supervisor's memory (QuestionQueue, supervise) have their
\* types, and no run has more batches than its budget.
TypeOK ==
  /\ questions \in Seq(Question) /\ Len(questions) <= MaxQuestions
  /\ receipt \in [1..MaxBatches -> 0..2]
  /\ run \in Record /\ disk \in Record /\ Len(disk.batches) <= MaxBatches
  /\ lock \in BOOLEAN /\ pc \in {"down", "loop", "context", "next", "batch", "settled"}
  /\ picked \in 0..MaxQuestions
  /\ worker \in [alive : BOOLEAN, ckpt : BOOLEAN, gens : 0..MaxGenerations,
                 exit : {"ok", "bad", "threw"}]
  /\ marker \in BOOLEAN /\ unresolved \in BOOLEAN /\ abort \in BOOLEAN
  /\ acked \in 0..MaxBatches /\ unasked \subseteq 0..MaxBatches

\* Over all crashes and resumes a question gets MaxAttempts batches and no
\* more (QuestionQueue.next counts in the file both processes write).
AttemptsBounded ==
  \A q \in QuestionIds :
    Cardinality({b \in DOMAIN disk.batches : disk.batches[b].q = q}) <= MaxAttempts

\* One question at most is active, and while a supervised worker runs no other
\* than its own is: a crash leaves none behind that the next run does not reopen.
OneActive ==
  /\ Cardinality({q \in QuestionIds : questions[q].status = "active"}) <= 1
  /\ pc = "batch" => \A q \in QuestionIds : questions[q].status = "active" => q = picked

\* A run is completed only when every question is answered, by receipts that are
\* what they were when it was, or was split into questions (supervise's first test).
CompletedMeansAnswered ==
  disk'.status = "completed" /\ disk.status # "completed" =>
     \A q \in QuestionIds :
       LET n == questions'[q] IN
       \/ n.status = "answered" /\ n.cites # {} /\ Intact(n)
       \/ n.status = "decomposed" /\ \E c \in QuestionIds : questions'[c].parent = q

\* A batch starts on answers that still have their evidence, whatever happened
\* to the receipts while the provider was asked (next() validates again).
DependenciesHold ==
  Next_ => \A q \in QuestionIds : questions'[q].status = "active" =>
              \A d \in questions'[q].deps :
                questions'[d].status = "answered" /\ Intact(questions'[d])

\* No second worker is started while one runs, though a crash of the supervisor
\* leaves the worker running (supervisor.lock).
OneWorker == Begin => ~worker.alive

\* No batch starts before every batch that did not finish was acknowledged,
\* over all crashes, failed writes and resumes, with one exception: a batch whose
\* supervisor ended between the write of its outcome (status paused) and the write
\* that asks for its review (needsReview), which no later start asks about.
ReviewedBeforeNext ==
  Begin => \A b \in DOMAIN run.batches :
              run.batches[b].status # "finished" => b <= acked \/ b \in unasked

\* What docs/long-investigations.md says without the exception: "An interrupted
\* batch requires reviewing native jobs and receipts, then adding
\* --acknowledge-interruption true".
EveryInterruptionReviewed ==
  pc = "batch" => \A b \in 1..(Batch - 1) :
                     run.batches[b].status # "finished" => b <= acked

=============================================================================
