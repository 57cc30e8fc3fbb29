------------------------ MODULE InvestigationProofs ------------------------
(***************************************************************************)
(* What holds of a long investigation and of the helpers in it.            *)
(*                                                                         *)
(* The queue of questions and its supervisor, for any number of questions, *)
(* batches, attempts and crashes.  QueueInv says what the two processes    *)
(* rely on of each other: a question has at least as many attempts on      *)
(* record as batches, what is active is what the supervisor picked, memory *)
(* and disk agree while it runs, and where a worker is alive the lock file *)
(* is there.  The last makes a crash harmless: a run that the lock keeps   *)
(* out cannot start a second worker.                                       *)
(*                                                                         *)
(* What the receipt of a helper says is so, for any contents, tools and    *)
(* outputs, and however often the world changes.  HInv follows the two     *)
(* passes: until they are judged the receipt claims nothing, and every     *)
(* pass of a Python program that ran had the sealed interpreter.           *)
(***************************************************************************)
EXTENDS LongRun, FiniteSetTheorems, WellFoundedInduction, TLAPS

\* Of the helper's constants and variables see Helper.
CONSTANTS Contents, Pinned, Tools, Outputs, Expected, Changes, None
VARIABLES artifact, tool, helperChanges, language, validation, sealed, helperPc, hashed, image,
          stages, body, seen
Helper == INSTANCE Helper WITH pc <- helperPc, changes <- helperChanges

-----------------------------------------------------------------------------
Statuses == Open \cup Closed \cup {"active"}
Batches == Seq([q : 1..MaxQuestions, status : {"running", "finished", "interrupted", "failed"}])

\* What is on record of the questions: their dependencies, the evidence of an
\* answer, and the questions one was split into.
Sound(qs) ==
  /\ qs \in Seq(Question) /\ Len(qs) <= MaxQuestions
  /\ \A q \in DOMAIN qs :
       /\ qs[q].deps \subseteq DOMAIN qs
       /\ qs[q].status = "answered" => qs[q].cites # {}
       /\ qs[q].status = "decomposed" => \E c \in DOMAIN qs : qs[c].parent = q

OnlyOne ==
  /\ \A p, q \in QuestionIds : questions[p].status = "active" /\ questions[q].status = "active" => p = q
  /\ pc \in {"next", "batch"} => \A q \in QuestionIds : questions[q].status = "active" => q = picked

Of(q) == {b \in DOMAIN disk.batches : disk.batches[b].q = q}

Counted ==
  /\ \A b \in DOMAIN disk.batches : disk.batches[b].q \in QuestionIds
  /\ \A q \in QuestionIds :
       Cardinality(Of(q)) + (IF pc = "next" /\ picked = q THEN 1 ELSE 0) <= questions[q].attempts
  /\ pc \in {"next", "batch"} => picked \in QuestionIds

Locked ==
  /\ pc # "down" => lock
  /\ worker.alive => lock /\ pc \in {"batch", "down"} /\ disk.batches # <<>>

Saved ==
  /\ run \in Record /\ disk \in Record
  /\ pc # "down" => run.batches = disk.batches
  /\ Len(disk.batches) <= MaxBatches
  /\ pc \in {"context", "next"} => Len(run.batches) < MaxBatches
  /\ disk.stagnant <= Len(disk.batches) /\ (pc # "down" => run.stagnant <= Len(run.batches))
  /\ pc = "batch" => run.stagnant < Len(run.batches)

OthersTyped ==
  /\ receipt \in [1..MaxBatches -> 0..2]
  /\ lock \in BOOLEAN /\ pc \in {"down", "loop", "context", "next", "batch", "settled"}
  /\ picked \in 0..MaxQuestions
  /\ worker \in [alive : BOOLEAN, ckpt : BOOLEAN, gens : 0..MaxGenerations,
                 exit : {"ok", "bad", "threw"}]
  /\ marker \in BOOLEAN /\ unresolved \in BOOLEAN /\ abort \in BOOLEAN
  /\ acked \in 0..MaxBatches /\ unasked \subseteq 0..MaxBatches

QueueInv == Sound(questions) /\ OnlyOne /\ Counted /\ Locked /\ Saved /\ OthersTyped

\* What did not finish was acknowledged, or nobody was asked, or the record on
\* disk still asks for it: a run that is put down while a batch is on record as
\* running is told from one whose supervisor ended after the outcome was saved.
Covered(b) == b <= acked \/ b \in unasked
Reviewed(bs) == \A b \in DOMAIN bs : bs[b].status # "finished" => Covered(b)
Acknowledged ==
  /\ pc \in {"loop", "context", "next"} => Reviewed(run.batches)
  /\ pc \in {"batch", "settled"} =>
       \A b \in DOMAIN run.batches : b < Len(run.batches) /\ run.batches[b].status # "finished" => Covered(b)
  /\ pc = "batch" => disk.status = "running"
  /\ pc = "down" => disk.review \/ disk.status = "running" \/ Reviewed(disk.batches)

LEMMA SequenceOf ==
  ASSUME NEW S, NEW n \in Nat, NEW f \in [1..n -> S]
  PROVE  f \in Seq(S) /\ Len(f) = n /\ DOMAIN f = 1..n
OBVIOUS

LEMMA WithStatus ==
  ASSUME NEW c \in Question, NEW s \in Statuses
  PROVE  LET d == [c EXCEPT !.status = s]
         IN  /\ d \in Question /\ d.status = s /\ d.attempts = c.attempts
             /\ d.parent = c.parent /\ d.deps = c.deps /\ d.cites = c.cites
BY DEF Question, Statuses

LEMMA WithAttempt ==
  ASSUME NEW c \in Question, c.attempts < MaxAttempts, MaxAttempts \in Nat
  PROVE  LET d == [c EXCEPT !.status = "active", !.attempts = @ + 1]
         IN  /\ d \in Question /\ d.status = "active" /\ d.attempts = c.attempts + 1
             /\ d.parent = c.parent /\ d.deps = c.deps /\ d.cites = c.cites
<1> DEFINE n == c.attempts + 1
<1>1. c.attempts \in 0..MaxAttempts
  BY DEF Question
<1>2. n \in 0..MaxAttempts
  BY <1>1
<1> HIDE DEF n
<1>3. LET d == [c EXCEPT !.status = "active", !.attempts = n]
      IN  /\ d \in Question /\ d.status = "active" /\ d.attempts = n
          /\ d.parent = c.parent /\ d.deps = c.deps /\ d.cites = c.cites
  BY <1>2 DEF Question
<1> QED BY <1>3 DEF n

\* Questions i of a and b differ at most in their status.
Alike(a, b) == a.attempts = b.attempts /\ a.parent = b.parent /\ a.deps = b.deps /\ a.cites = b.cites

LEMMA SoundSays ==
  ASSUME LongRunAssumption, NEW qs, Sound(qs)
  PROVE  /\ qs \in Seq(Question) /\ Len(qs) \in Nat /\ DOMAIN qs = 1..Len(qs) /\ Len(qs) <= MaxQuestions
         /\ \A q \in DOMAIN qs :
              /\ qs[q] \in Question /\ qs[q].status \in Statuses /\ qs[q].attempts \in 0..MaxAttempts
              /\ qs[q].deps \subseteq DOMAIN qs
              /\ qs[q].status = "answered" => qs[q].cites # {}
              /\ qs[q].status = "decomposed" => \E c \in DOMAIN qs : qs[c].parent = q
<1>1. /\ qs \in Seq(Question) /\ Len(qs) <= MaxQuestions
      /\ \A q \in DOMAIN qs :
           /\ qs[q].deps \subseteq DOMAIN qs
           /\ qs[q].status = "answered" => qs[q].cites # {}
           /\ qs[q].status = "decomposed" => \E c \in DOMAIN qs : qs[c].parent = q
  BY DEF Sound
<1>2. Len(qs) \in Nat /\ DOMAIN qs = 1..Len(qs) /\ \A q \in DOMAIN qs : qs[q] \in Question
  BY <1>1
<1>3. \A c \in Question : c.status \in Statuses /\ c.attempts \in 0..MaxAttempts
  BY DEF Question, Statuses
<1> QED BY <1>1, <1>2, <1>3

\* A change of statuses that closes no question without what it needs.
LEMMA StatusesSound ==
  ASSUME LongRunAssumption, NEW qs, Sound(qs), NEW rs,
         rs \in Seq(Question), Len(rs) = Len(qs),
         \A i \in 1..Len(qs) :
           /\ Alike(rs[i], qs[i])
           /\ rs[i].status \in {"answered", "decomposed"} => rs[i].status = qs[i].status
  PROVE  Sound(rs)
<1>0. /\ Len(qs) <= MaxQuestions /\ DOMAIN qs = 1..Len(qs)
      /\ \A q \in DOMAIN qs :
           /\ qs[q].deps \subseteq DOMAIN qs
           /\ qs[q].status = "answered" => qs[q].cites # {}
           /\ qs[q].status = "decomposed" => \E c \in DOMAIN qs : qs[c].parent = q
  BY SoundSays
<1>1. /\ DOMAIN rs = 1..Len(rs) /\ DOMAIN rs = DOMAIN qs
      /\ \A i \in DOMAIN qs :
           /\ rs[i].parent = qs[i].parent /\ rs[i].deps = qs[i].deps /\ rs[i].cites = qs[i].cites
           /\ rs[i].status \in {"answered", "decomposed"} => rs[i].status = qs[i].status
  BY <1>0 DEF Alike
<1>2. ASSUME NEW q \in DOMAIN rs
      PROVE  /\ rs[q].deps \subseteq DOMAIN rs
             /\ rs[q].status = "answered" => rs[q].cites # {}
             /\ rs[q].status = "decomposed" => \E c \in DOMAIN rs : rs[c].parent = q
  <2>1. q \in DOMAIN qs
    BY <1>1
  <2>2. rs[q].deps \subseteq DOMAIN rs
    BY ONLY <1>0, <1>1, <2>1
  <2>3. rs[q].status = "answered" => rs[q].cites # {}
    BY ONLY <1>0, <1>1, <2>1
  <2>4. rs[q].status = "decomposed" => qs[q].status = "decomposed"
    BY <1>1, <2>1
  <2>5. rs[q].status = "decomposed" => \E c \in DOMAIN qs : qs[c].parent = q
    BY <1>0, <2>1, <2>4
  <2>6. rs[q].status = "decomposed" => \E c \in DOMAIN rs : rs[c].parent = q
    BY ONLY <1>1, <2>5
  <2> QED BY <2>2, <2>3, <2>6
<1> QED BY <1>0, <1>1, <1>2 DEF Sound

LEMMA ValidatedIs ==
  ASSUME LongRunAssumption, NEW qs, Sound(qs)
  PROVE  LET rs == Validated(qs) IN
         /\ Sound(rs) /\ Len(rs) = Len(qs) /\ DOMAIN rs = DOMAIN qs
         /\ \A i \in DOMAIN qs :
              /\ Alike(rs[i], qs[i])
              /\ rs[i].status = qs[i].status \/ rs[i].status = "blocked"
              /\ rs[i].status = "answered" => Intact(rs[i])
<1> DEFINE rs == Validated(qs)
<1> USE SoundSays
<1>1. ASSUME NEW i \in DOMAIN qs
      PROVE  /\ rs[i] \in Question /\ Alike(rs[i], qs[i])
             /\ rs[i].status = qs[i].status \/ rs[i].status = "blocked"
             /\ rs[i].status = "answered" => Intact(rs[i])
  <2>1. CASE qs[i].status = "answered" /\ ~Intact(qs[i])
    <3>1. rs[i] = [qs[i] EXCEPT !.status = "blocked"]
      BY <2>1 DEF Validated
    <3>2. "blocked" \in Statuses /\ qs[i] \in Question
      BY DEF Statuses, Closed
    <3> HIDE DEF rs
    <3>3. /\ rs[i] \in Question /\ rs[i].status = "blocked" /\ Alike(rs[i], qs[i])
      BY <3>1, <3>2, WithStatus DEF Alike
    <3> QED BY <3>3
  <2>2. CASE ~(qs[i].status = "answered" /\ ~Intact(qs[i]))
    <3>1. rs[i] = qs[i]
      BY <2>2 DEF Validated
    <3> HIDE DEF rs
    <3> QED BY <2>2, <3>1 DEF Alike
  <2> QED BY <2>1, <2>2
<1>2. rs \in [1..Len(qs) -> Question]
  <2>1. rs = [i \in DOMAIN qs |-> rs[i]]
    BY DEF Validated
  <2> HIDE DEF rs
  <2> QED BY <1>1, <2>1
<1> HIDE DEF rs
<1>3. rs \in Seq(Question) /\ Len(rs) = Len(qs) /\ DOMAIN rs = DOMAIN qs
  BY <1>2, SequenceOf
<1>4. Sound(rs)
  BY <1>1, <1>3, StatusesSound
<1> QED BY <1>1, <1>3, <1>4 DEF rs

LEMMA ReopenedIs ==
  ASSUME LongRunAssumption, NEW qs, Sound(qs)
  PROVE  LET rs == Reopened(qs) IN
         /\ Sound(rs) /\ Len(rs) = Len(qs) /\ DOMAIN rs = DOMAIN qs
         /\ \A i \in DOMAIN qs :
              /\ Alike(rs[i], qs[i]) /\ rs[i].status # "active"
              /\ rs[i].status \in Open => rs[i].attempts < MaxAttempts
              /\ rs[i].status \in {"answered", "decomposed"} => rs[i].status = qs[i].status
<1> DEFINE rs == Reopened(qs)
<1> USE SoundSays
<1>1. ASSUME NEW i \in DOMAIN qs
      PROVE  /\ rs[i] \in Question /\ Alike(rs[i], qs[i]) /\ rs[i].status # "active"
             /\ rs[i].status \in Open => rs[i].attempts < MaxAttempts
             /\ rs[i].status \in {"answered", "decomposed"} => rs[i].status = qs[i].status
  <2>1. CASE qs[i].status \in Open \cup {"active"}
    <3> DEFINE s == IF qs[i].attempts >= MaxAttempts THEN "blocked"
                    ELSE IF qs[i].status = "active" THEN "partial" ELSE qs[i].status
    <3>1. rs[i] = [qs[i] EXCEPT !.status = s]
      BY <2>1 DEF Reopened
    <3>2. s \in {"blocked", "partial", "pending"} /\ (s \in Open => qs[i].attempts < MaxAttempts)
      BY <2>1, LongRunAssumption DEF Open, LongRunAssumption
    <3>3. s \in Statuses
      BY <3>2 DEF Statuses, Open, Closed
    <3> HIDE DEF rs, s
    <3>4. Alike(rs[i], qs[i]) /\ rs[i] \in Question /\ rs[i].status = s /\ rs[i].attempts = qs[i].attempts
      BY <3>1, <3>3, WithStatus DEF Alike
    <3> QED BY <3>2, <3>4
  <2>2. CASE qs[i].status \notin Open \cup {"active"}
    <3>1. rs[i] = qs[i]
      BY <2>2 DEF Reopened
    <3> HIDE DEF rs
    <3> QED BY <2>2, <3>1 DEF Alike, Statuses
  <2> QED BY <2>1, <2>2
<1>2. rs \in [1..Len(qs) -> Question]
  <2>1. rs = [i \in DOMAIN qs |-> rs[i]]
    BY DEF Reopened
  <2> HIDE DEF rs
  <2> QED BY <1>1, <2>1
<1> HIDE DEF rs
<1>3. rs \in Seq(Question) /\ Len(rs) = Len(qs) /\ DOMAIN rs = DOMAIN qs
  BY <1>2, SequenceOf
<1>4. Sound(rs)
  BY <1>1, <1>3, StatusesSound
<1> QED BY <1>1, <1>3, <1>4 DEF rs

\* What a step other than the start of a batch does to the questions: attempts
\* stay, and none becomes active.
Moved ==
  /\ Sound(questions') /\ DOMAIN questions \subseteq DOMAIN questions'
  /\ \A q \in QuestionIds : questions'[q].attempts = questions[q].attempts
  /\ \A q \in DOMAIN questions' :
       questions'[q].status = "active" => q \in QuestionIds /\ questions[q].status = "active"

LEMMA StillMoves ==
  ASSUME Sound(questions), UNCHANGED questions
  PROVE  Moved
BY DEF Moved, QuestionIds, Sound

LEMMA QueueFacts ==
  ASSUME QueueInv
  PROVE  Sound(questions) /\ OnlyOne /\ Counted /\ Locked /\ Saved /\ OthersTyped
BY DEF QueueInv

\* The worker's own question is on record, and is being worked on.
LEMMA OwnIs ==
  ASSUME LongRunAssumption, QueueInv, worker.alive
  PROVE  /\ Its \in DOMAIN disk.batches /\ Its \in 1..MaxBatches /\ Own \in QuestionIds
         /\ lock /\ pc \in {"batch", "down"}
<1> USE QueueFacts
<1>1. disk.batches # <<>> /\ lock /\ pc \in {"batch", "down"}
  BY DEF Locked
<1>2. disk.batches \in Seq([q : 1..MaxQuestions, status : {"running", "finished", "interrupted", "failed"}])
  BY DEF Saved, Record
<1>3. Its \in DOMAIN disk.batches
  BY <1>1, <1>2 DEF Its
<1>4. Its \in 1..MaxBatches
  BY <1>2, <1>3 DEF Its, Saved
<1> QED BY <1>1, <1>3, <1>4 DEF Counted, Own

LEMMA CitedIs ==
  ASSUME QueueInv, NEW batches \in SUBSET (1..MaxBatches), \A b \in batches : receipt[b] # 0
  PROVE  /\ Cited(batches) \in SUBSET [batch : 1..MaxBatches, content : 1..2]
         /\ batches # {} => Cited(batches) # {}
<1>1. \A b \in batches : b \in 1..MaxBatches /\ receipt[b] \in 1..2
  BY DEF QueueInv, OthersTyped
<1> DEFINE rec(b) == [batch |-> b, content |-> receipt[b]]
<1>2. \A b \in batches : rec(b) \in [batch : 1..MaxBatches, content : 1..2]
  BY <1>1
<1>3. Cited(batches) = {rec(b) : b \in batches}
  BY DEF Cited
<1> HIDE DEF rec
<1> QED BY <1>2, <1>3

\* One question is settled or kept.
LEMMA OneMoves ==
  ASSUME LongRunAssumption, QueueInv, NEW o \in QuestionIds, NEW c \in Question,
         c.attempts = questions[o].attempts, c.parent = questions[o].parent, c.deps = questions[o].deps,
         c.status \notin {"active", "decomposed"}, c.status = "answered" => c.cites # {},
         questions' = [questions EXCEPT ![o] = c]
  PROVE  Moved
<1> USE QueueFacts, SoundSays DEF QuestionIds
<1>1. /\ Len(questions') = Len(questions) /\ DOMAIN questions' = DOMAIN questions /\ questions' \in Seq(Question)
      /\ \A q \in QuestionIds : questions'[q] = IF q = o THEN c ELSE questions[q]
  OBVIOUS
<1>2. \A q \in QuestionIds : /\ questions'[q].attempts = questions[q].attempts
                             /\ questions'[q].parent = questions[q].parent
                             /\ questions'[q].deps = questions[q].deps
  BY <1>1
<1>3. ASSUME NEW q \in QuestionIds
      PROVE  /\ questions'[q].deps \subseteq QuestionIds
             /\ questions'[q].status = "answered" => questions'[q].cites # {}
             /\ questions'[q].status = "decomposed" => \E d \in QuestionIds : questions'[d].parent = q
             /\ questions'[q].status = "active" => questions[q].status = "active"
  <2>1. CASE q = o
    BY <1>1, <1>2, <2>1
  <2>2. CASE q # o
    <3>1. questions'[q] = questions[q]
      BY <1>1, <2>2
    <3>2. questions[q].status = "decomposed" => \E d \in QuestionIds : questions[d].parent = q
      OBVIOUS
    <3>3. questions[q].status = "decomposed" => \E d \in QuestionIds : questions'[d].parent = q
      BY <1>2, <3>2
    <3> QED BY <3>1, <3>3
  <2> QED BY <2>1, <2>2
<1> QED BY <1>1, <1>2, <1>3 DEF Moved, Sound

LEMMA CheckpointMoves ==
  ASSUME LongRunAssumption, QueueInv, NEW status \in {"partial", "answered", "blocked"},
         NEW batches \in SUBSET (1..MaxBatches), QuestionCheckpoint(status, batches)
  PROVE  Moved
<1> USE QueueFacts, SoundSays DEF QuestionIds
<1> DEFINE e == Cited(batches)
           c == [questions[Own] EXCEPT !.status = status, !.cites = e]
<1>1. /\ questions' = [questions EXCEPT ![Own] = c] /\ worker.alive
      /\ \A b \in batches : receipt[b] # 0
      /\ status = "answered" => batches # {}
  BY DEF QuestionCheckpoint, Working
<1>2. Own \in QuestionIds /\ questions[Own] \in Question
  BY <1>1, OwnIs
<1>3. e \in SUBSET [batch : 1..MaxBatches, content : 1..2] /\ (batches # {} => e # {})
  BY <1>1, CitedIs
<1>4. status \in Statuses
  BY DEF Statuses, Open, Closed
<1> HIDE DEF e
<1>5. /\ c \in Question /\ c.status = status /\ c.attempts = questions[Own].attempts
      /\ c.parent = questions[Own].parent /\ c.deps = questions[Own].deps /\ c.cites = e
  <2> DEFINE o == questions[Own]
  <2>1. o \in Question
    BY <1>2
  <2> HIDE DEF o
  <2>2. LET d == [o EXCEPT !.status = status, !.cites = e]
        IN  /\ d \in Question /\ d.status = status /\ d.attempts = o.attempts
            /\ d.parent = o.parent /\ d.deps = o.deps /\ d.cites = e
    BY <1>3, <1>4, <2>1 DEF Question, Statuses
  <2> QED BY <2>2 DEF o
<1> HIDE DEF c
<1>6. c.status \notin {"active", "decomposed"} /\ (c.status = "answered" => c.cites # {})
  BY <1>1, <1>3, <1>5
<1> QED BY <1>1, <1>2, <1>5, <1>6, OneMoves

LEMMA TurnMoves ==
  ASSUME LongRunAssumption, QueueInv, NEW markup \in BOOLEAN, TurnEnd(markup)
  PROVE  Moved
<1> USE QueueFacts, SoundSays DEF QuestionIds
<1> DEFINE old == {c.batch : c \in questions[Own].cites}
           refs == IF old # {} THEN old ELSE {b \in {Its} : receipt[b] # 0}
           e == Cited(refs)
           c == [questions[Own] EXCEPT !.status = "partial", !.cites = e]
<1>1. CASE UNCHANGED questions
  BY <1>1, StillMoves
<1>2. CASE questions' # questions
  <2>1. questions' = [questions EXCEPT ![Own] = c] /\ worker.alive /\ \A b \in refs : receipt[b] # 0
    BY <1>2 DEF TurnEnd, Working
  <2>2. Own \in QuestionIds /\ questions[Own] \in Question /\ Its \in 1..MaxBatches
    BY <2>1, OwnIs
  <2>3. refs \in SUBSET (1..MaxBatches)
    <3>1. \A x \in questions[Own].cites : x.batch \in 1..MaxBatches
      BY <2>2 DEF Question
    <3> QED BY <2>2, <3>1
  <2> HIDE DEF refs
  <2>4. e \in SUBSET [batch : 1..MaxBatches, content : 1..2]
    BY <2>1, <2>3, CitedIs
  <2>5. "partial" \in Statuses
    BY DEF Statuses, Open
  <2> HIDE DEF e
  <2>6. /\ c \in Question /\ c.status = "partial" /\ c.attempts = questions[Own].attempts
        /\ c.parent = questions[Own].parent /\ c.deps = questions[Own].deps
    <3> DEFINE o == questions[Own]
    <3>1. o \in Question
      BY <2>2
    <3> HIDE DEF o
    <3>2. LET d == [o EXCEPT !.status = "partial", !.cites = e]
          IN  /\ d \in Question /\ d.status = "partial" /\ d.attempts = o.attempts
              /\ d.parent = o.parent /\ d.deps = o.deps /\ d.cites = e
      BY <2>4, <2>5, <3>1 DEF Question, Statuses
    <3> QED BY <3>2 DEF o
  <2> HIDE DEF c
  <2> QED BY <2>1, <2>2, <2>6, OneMoves
<1> QED BY <1>1, <1>2

LEMMA AddMoves ==
  ASSUME LongRunAssumption, QueueInv, NEW items \in Items, QuestionAdd(items)
  PROVE  Moved
<1> USE QueueFacts, SoundSays DEF QuestionIds
<1> DEFINE n == Len(questions)
           c == [questions[Own] EXCEPT !.status = "decomposed"]
           qs == With(Own, "decomposed")
           new == [k \in DOMAIN items |-> NewQuestion(Own, items[k])]
<1>1. PICK m \in 1..MaxChildren : items \in [1..m -> SUBSET (1..MaxQuestions)]
  BY DEF Items
<1>2. /\ questions' = qs \o new /\ worker.alive /\ n + Len(items) <= MaxQuestions
      /\ \A k \in DOMAIN items : items[k] \subseteq 1..(n + k - 1) \ {Own}
  BY DEF QuestionAdd, Working
<1>3. m \in Nat /\ m >= 1 /\ Len(items) = m /\ DOMAIN items = 1..m /\ n \in Nat /\ n + m <= MaxQuestions
  BY <1>1, <1>2, SequenceOf, LongRunAssumption DEF LongRunAssumption
<1>4. Own \in QuestionIds /\ questions[Own] \in Question /\ Own \in 1..MaxQuestions
  BY <1>2, OwnIs, LongRunAssumption DEF LongRunAssumption
<1>5. qs = [questions EXCEPT ![Own] = c]
  BY DEF With
<1>6. /\ c \in Question /\ c.status = "decomposed" /\ c.attempts = questions[Own].attempts
      /\ c.parent = questions[Own].parent /\ c.deps = questions[Own].deps
  <2>1. "decomposed" \in Statuses
    BY DEF Statuses, Closed
  <2> QED BY <1>4, <2>1, WithStatus
<1> HIDE DEF c
<1>7. /\ qs \in Seq(Question) /\ Len(qs) = n
      /\ \A q \in 1..n : qs[q] = IF q = Own THEN c ELSE questions[q]
  BY <1>4, <1>5, <1>6
<1>8. ASSUME NEW k \in 1..m
      PROVE  /\ new[k] \in Question /\ new[k].parent = Own /\ new[k].deps = items[k]
             /\ new[k].status = "pending"
  <2>1. items[k] \in SUBSET (1..MaxQuestions) /\ new[k] = NewQuestion(Own, items[k])
    BY <1>1, <1>3
  <2> HIDE DEF new
  <2> QED BY <1>4, <2>1, LongRunAssumption DEF NewQuestion, Question, Open, LongRunAssumption
<1>9. new \in [1..m -> Question]
  <2>1. new = [k \in 1..m |-> new[k]]
    BY <1>3
  <2> HIDE DEF new
  <2> QED BY <1>8, <2>1
<1> HIDE DEF new, qs
<1>10. new \in Seq(Question) /\ Len(new) = m
  BY <1>3, <1>9, SequenceOf
<1>11. /\ questions' \in Seq(Question) /\ Len(questions') = n + m /\ DOMAIN questions' = 1..(n + m)
       /\ \A q \in 1..n : questions'[q] = qs[q]
       /\ \A q \in (n + 1)..(n + m) : questions'[q] = new[q - n]
  BY <1>2, <1>3, <1>7, <1>10
<1>12. \A q \in 1..n : questions'[q].parent = questions[q].parent /\ questions'[q].deps = questions[q].deps
                       /\ questions'[q].attempts = questions[q].attempts
  BY <1>6, <1>7, <1>11
<1>13. ASSUME NEW q \in 1..n
       PROVE  /\ questions'[q].deps \subseteq 1..(n + m)
              /\ questions'[q].status = "answered" => questions'[q].cites # {}
              /\ questions'[q].status = "decomposed" => \E d \in 1..(n + m) : questions'[d].parent = q
              /\ questions'[q].status = "active" => questions[q].status = "active"
  <2>1. questions'[q].deps \subseteq 1..n
    BY <1>12
  <2>2. CASE q = Own
    <3>1. n + 1 \in 1..(n + m) /\ questions'[n + 1] = new[1]
      <4>1. n + 1 \in (n + 1)..(n + m) /\ n + 1 \in 1..(n + m) /\ (n + 1) - n = 1
        BY <1>3
      <4>2. questions'[n + 1] = new[(n + 1) - n]
        BY <1>11, <4>1
      <4> QED BY <4>1, <4>2
    <3>2. questions'[n + 1].parent = q
      BY <1>3, <1>8, <2>2, <3>1
    <3>3. questions'[q].status = "decomposed"
      BY <1>6, <1>7, <1>11, <2>2
    <3> QED BY <1>3, <2>1, <3>1, <3>2, <3>3
  <2>3. CASE q # Own
    <3>1. questions'[q] = questions[q]
      BY <1>7, <1>11, <2>3
    <3>2. questions[q].status = "decomposed" => \E d \in 1..n : questions[d].parent = q
      OBVIOUS
    <3>3. questions[q].status = "decomposed" => \E d \in 1..(n + m) : questions'[d].parent = q
      BY <1>3, <1>12, <3>2
    <3> QED BY <1>3, <2>1, <3>1, <3>3
  <2> QED BY <2>2, <2>3
<1>14. ASSUME NEW q \in (n + 1)..(n + m)
       PROVE  questions'[q].deps \subseteq 1..(n + m) /\ questions'[q].status = "pending"
  <2>1. q - n \in 1..m /\ questions'[q] = new[q - n]
    BY <1>3, <1>11
  <2>2. items[q - n] \subseteq 1..(n + (q - n) - 1)
    BY <1>2, <1>3, <2>1
  <2>3. 1..(n + (q - n) - 1) \subseteq 1..(n + m)
    BY <1>3, <2>1
  <2> QED BY <1>8, <2>1, <2>2, <2>3
<1>15. \A q \in 1..(n + m) : q \in 1..n \/ q \in (n + 1)..(n + m)
  BY <1>3
<1>16. Sound(questions')
  <2>1. ASSUME NEW q \in 1..(n + m)
        PROVE  /\ questions'[q].deps \subseteq 1..(n + m)
               /\ questions'[q].status = "answered" => questions'[q].cites # {}
               /\ questions'[q].status = "decomposed" => \E d \in 1..(n + m) : questions'[d].parent = q
    BY <1>13, <1>14, <1>15
  <2> QED BY <1>3, <1>11, <2>1 DEF Sound
<1>17. \A q \in 1..(n + m) : questions'[q].status = "active" => q \in 1..n /\ questions[q].status = "active"
  BY <1>13, <1>14, <1>15
<1>18. DOMAIN questions = 1..n /\ 1..n \subseteq 1..(n + m)
  BY <1>3
<1> QED BY <1>11, <1>12, <1>16, <1>17, <1>18 DEF Moved

LEMMA LoopMoves ==
  ASSUME LongRunAssumption, QueueInv, questions' = Validated(questions) \/ questions' = Reopened(Validated(questions))
  PROVE  Moved
<1> USE QueueFacts DEF QuestionIds
<1> DEFINE v == Validated(questions)
           r == Reopened(v)
<1>1. /\ Sound(v) /\ DOMAIN v = DOMAIN questions
      /\ \A i \in DOMAIN questions : /\ v[i].attempts = questions[i].attempts
                                     /\ v[i].status = questions[i].status \/ v[i].status = "blocked"
  BY ValidatedIs DEF Alike
<1> HIDE DEF v
<1>2. /\ Sound(r) /\ DOMAIN r = DOMAIN v
      /\ \A i \in DOMAIN v : r[i].attempts = v[i].attempts /\ r[i].status # "active"
  BY <1>1, ReopenedIs DEF Alike
<1> HIDE DEF r
<1>3. CASE questions' = v
  BY <1>1, <1>3 DEF Moved
<1>4. CASE questions' = r
  BY <1>1, <1>2, <1>4 DEF Moved
<1> QED BY <1>3, <1>4 DEF v, r

RunStatuses == {"ready", "running", "paused", "blocked", "completed"}

LEMMA RunWithStatus ==
  ASSUME NEW r \in Record, NEW s \in RunStatuses
  PROVE  LET d == [r EXCEPT !.status = s]
         IN  d \in Record /\ d.status = s /\ d.batches = r.batches /\ d.stagnant = r.stagnant /\ d.review = r.review
BY DEF Record, RunStatuses

LEMMA RunWithReview ==
  ASSUME NEW r \in Record, NEW v \in BOOLEAN
  PROVE  LET d == [r EXCEPT !.review = v]
         IN  d \in Record /\ d.status = r.status /\ d.batches = r.batches /\ d.stagnant = r.stagnant
BY DEF Record

LEMMA RunBegins ==
  ASSUME NEW r \in Record, NEW bs \in Batches
  PROVE  LET d == [r EXCEPT !.status = "running", !.batches = bs]
         IN  d \in Record /\ d.batches = bs /\ d.stagnant = r.stagnant /\ d.status = "running"
BY DEF Record, Batches

LEMMA RunReturns ==
  ASSUME NEW r \in Record, NEW bs \in Batches, NEW n \in 0..MaxBatches
  PROVE  LET d == [r EXCEPT !.batches = bs, !.stagnant = n, !.status = "paused"]
         IN  d \in Record /\ d.batches = bs /\ d.stagnant = n /\ d.status = "paused"
BY DEF Record, Batches

LEMMA ReplacedBatch ==
  ASSUME NEW old \in Batches, NEW o \in 1..Len(old),
         NEW x \in [q : 1..MaxQuestions, status : {"running", "finished", "interrupted", "failed"}]
  PROVE  LET new == [old EXCEPT ![o] = x]
         IN  /\ new \in Batches /\ Len(new) = Len(old) /\ DOMAIN new = DOMAIN old
             /\ \A b \in DOMAIN old : new[b] = IF b = o THEN x ELSE old[b]
BY DEF Batches

LEMMA BatchIs ==
  ASSUME NEW bs \in Batches, NEW o \in 1..Len(bs)
  PROVE  bs[o] \in [q : 1..MaxQuestions, status : {"running", "finished", "interrupted", "failed"}]
<1> DEFINE S == [q : 1..MaxQuestions, status : {"running", "finished", "interrupted", "failed"}]
<1>1. bs \in Seq(S)
  BY DEF Batches
<1> HIDE DEF S
<1>2. bs[o] \in S
  BY <1>1
<1> QED BY <1>2 DEF S

LEMMA NewRunIs == LongRunAssumption => NewRun \in Record /\ NewRun.batches = <<>>
BY DEF LongRunAssumption, NewRun, Record

LEMMA SavedSays ==
  ASSUME LongRunAssumption, QueueInv
  PROVE  /\ run \in Record /\ disk \in Record
         /\ run.batches \in Batches /\ disk.batches \in Batches
         /\ Len(run.batches) \in Nat /\ Len(disk.batches) \in Nat
         /\ run.stagnant \in Nat /\ disk.stagnant \in Nat /\ MaxBatches \in Nat
         /\ DOMAIN run.batches = 1..Len(run.batches) /\ DOMAIN disk.batches = 1..Len(disk.batches)
         /\ Saved
<1>1. Saved /\ run \in Record /\ disk \in Record
  BY DEF QueueInv, Saved
<1>2. run.batches \in Batches /\ disk.batches \in Batches /\ run.stagnant \in Nat /\ disk.stagnant \in Nat
  BY <1>1 DEF Record, Batches
<1> QED BY <1>1, <1>2 DEF Batches, LongRunAssumption

\* The batches on record stay, and the questions they are of.
Recorded ==
  /\ DOMAIN disk'.batches = DOMAIN disk.batches
  /\ \A b \in DOMAIN disk.batches : disk'.batches[b].q = disk.batches[b].q

LEMMA LeaveKeeps ==
  ASSUME LongRunAssumption, QueueInv, pc # "down", NEW r \in Record,
         r.batches = run.batches, r.stagnant = run.stagnant, Leave(r)
  PROVE  Saved' /\ Recorded
<1> USE SavedSays DEF Saved, Leave, Recorded
<1>1. run' \in Record /\ disk' = r /\ pc' = "down"
  BY NewRunIs
<1> QED BY <1>1

LEMMA StopKeeps ==
  ASSUME LongRunAssumption, QueueInv, pc # "down", NEW r \in Record,
         r.batches = run.batches, r.stagnant = run.stagnant, Stop(r)
  PROVE  Saved' /\ Recorded
<1> DEFINE d == [r EXCEPT !.status = "paused"]
<1>1. d \in Record /\ d.batches = r.batches /\ d.stagnant = r.stagnant
  BY RunWithStatus DEF RunStatuses
<1>2. Leave(d)
  BY DEF Stop
<1> HIDE DEF d
<1> QED BY <1>1, <1>2, LeaveKeeps

LEMMA SameRunKeeps ==
  ASSUME QueueInv, UNCHANGED <<run, disk, pc>>
  PROVE  Saved' /\ Recorded
BY DEF QueueInv, Saved, Recorded

LEMMA DiesKeeps ==
  ASSUME LongRunAssumption, QueueInv, UNCHANGED disk, run' = NewRun, pc' = "down"
  PROVE  Saved' /\ Recorded
BY SavedSays, NewRunIs DEF Saved, Recorded

LEMMA StartSaved ==
  ASSUME LongRunAssumption, QueueInv, NEW ack \in BOOLEAN, Start(ack)
  PROVE  Saved' /\ Recorded
<1> USE SavedSays
<1> DEFINE d == [disk EXCEPT !.review = FALSE]
<1>1. d \in Record /\ d.batches = disk.batches /\ d.stagnant = disk.stagnant
  BY RunWithReview
<1>2. run' = d /\ UNCHANGED disk /\ pc' = "loop"
  BY DEF Start
<1> HIDE DEF d
<1> QED BY <1>1, <1>2 DEF Saved, Recorded

LEMMA LoopSaved ==
  ASSUME LongRunAssumption, QueueInv, LoopTop
  PROVE  Saved' /\ Recorded
<1> USE SavedSays
<1>1. pc = "loop"
  BY DEF LoopTop
<1>2. ASSUME NEW s \in {"blocked", "completed"}, Leave([run EXCEPT !.status = s])
      PROVE  Saved' /\ Recorded
  <2> DEFINE d == [run EXCEPT !.status = s]
  <2>1. s \in RunStatuses
    BY DEF RunStatuses
  <2>2. d \in Record /\ d.batches = run.batches /\ d.stagnant = run.stagnant
    BY <2>1, RunWithStatus
  <2>3. Leave(d)
    BY <1>2
  <2> HIDE DEF d
  <2> QED BY <1>1, <2>2, <2>3, LeaveKeeps
<1>3. CASE Stop(run)
  BY <1>1, <1>3, StopKeeps
<1>4. CASE Batch < MaxBatches /\ pc' = "context" /\ UNCHANGED <<run, disk, lock>>
  BY <1>1, <1>4 DEF Saved, Recorded, Batch
<1>5. \/ \E s \in {"blocked", "completed"} : Leave([run EXCEPT !.status = s])
      \/ Stop(run)
      \/ ~(Batch >= MaxBatches) /\ pc' = "context" /\ UNCHANGED <<run, disk, lock>>
  BY DEF LoopTop
<1>6. ~(Batch >= MaxBatches) <=> Batch < MaxBatches
  BY DEF Batch
<1> QED BY <1>2, <1>3, <1>4, <1>5, <1>6

LEMMA NextSaved ==
  ASSUME LongRunAssumption, QueueInv, Next_
  PROVE  Saved' /\ Recorded
<1> USE SavedSays
<1>1. pc = "context"
  BY DEF Next_
<1>2. ASSUME NEW s \in {"blocked", "completed"}, Leave([run EXCEPT !.status = s])
      PROVE  Saved' /\ Recorded
  <2> DEFINE d == [run EXCEPT !.status = s]
  <2>1. s \in RunStatuses
    BY DEF RunStatuses
  <2>2. d \in Record /\ d.batches = run.batches /\ d.stagnant = run.stagnant
    BY <2>1, RunWithStatus
  <2>3. Leave(d)
    BY <1>2
  <2> HIDE DEF d
  <2> QED BY <1>1, <2>2, <2>3, LeaveKeeps
<1>3. CASE pc' = "next" /\ UNCHANGED <<run, disk, lock>>
  BY <1>1, <1>3 DEF Saved, Recorded
<1>4. \/ \E s \in {"blocked", "completed"} : Leave([run EXCEPT !.status = s])
      \/ pc' = "next" /\ UNCHANGED <<run, disk, lock>>
  BY DEF Next_
<1> QED BY <1>2, <1>3, <1>4

LEMMA BeginSays ==
  ASSUME LongRunAssumption, QueueInv, Begin
  PROVE  /\ Saved' /\ run'.status = "running" /\ disk' = run'
         /\ DOMAIN disk'.batches = 1..(Len(disk.batches) + 1)
         /\ disk'.batches[Len(disk.batches) + 1].q = picked
         /\ \A b \in DOMAIN disk.batches : disk'.batches[b] = disk.batches[b]
         /\ Len(disk'.batches) = Len(disk.batches) + 1
<1> USE SavedSays
<1> DEFINE x == [q |-> picked, status |-> "running"]
           bs == Append(run.batches, x)
           d == [run EXCEPT !.status = "running", !.batches = bs]
<1>1. pc = "next" /\ pc' = "batch" /\ run' = d /\ disk' = d
  BY DEF Begin, Persist
<1>2. picked \in 1..MaxQuestions
  <2>1. picked \in DOMAIN questions /\ Sound(questions)
    BY <1>1 DEF QueueInv, Counted, QuestionIds
  <2> QED BY <2>1, SoundSays, LongRunAssumption DEF LongRunAssumption
<1>3. x \in [q : 1..MaxQuestions, status : {"running", "finished", "interrupted", "failed"}] /\ x.q = picked
  BY <1>2
<1> HIDE DEF x
<1>4. bs \in Batches /\ Len(bs) = Len(run.batches) + 1 /\ DOMAIN bs = 1..(Len(run.batches) + 1)
      /\ \A b \in 1..(Len(run.batches) + 1) : bs[b] = IF b = Len(run.batches) + 1 THEN x ELSE run.batches[b]
  BY <1>3 DEF Batches
<1> HIDE DEF bs
<1>5. d \in Record /\ d.batches = bs /\ d.stagnant = run.stagnant /\ d.status = "running"
  BY <1>4, RunBegins
<1> HIDE DEF d
<1>6. run.batches = disk.batches /\ Len(run.batches) < MaxBatches /\ run.stagnant <= Len(run.batches)
  BY <1>1 DEF Saved
<1> QED BY <1>1, <1>3, <1>4, <1>5, <1>6 DEF Saved

LEMMA ReturnSays ==
  ASSUME LongRunAssumption, QueueInv, Return
  PROVE  /\ Saved' /\ Recorded /\ run' = disk' /\ run'.status = "paused"
         /\ Len(run'.batches) = Len(run.batches)
         /\ \A b \in DOMAIN run.batches : b # Len(run.batches) => run'.batches[b] = run.batches[b]
<1> USE SavedSays
<1> DEFINE st == IF before = Digest(questions) THEN run.stagnant + 1 ELSE 0
           x == [run.batches[Batch] EXCEPT !.status = Outcome]
           bs == [run.batches EXCEPT ![Batch] = x]
           d == [run EXCEPT !.batches = bs, !.stagnant = st, !.status = "paused"]
<1>1. pc = "batch" /\ pc' = "settled" /\ run' = d /\ disk' = d
  BY DEF Return, Persist
<1>2. Outcome \in {"finished", "interrupted", "failed"}
  BY DEF Outcome
<1>3. run.batches = disk.batches /\ Len(run.batches) <= MaxBatches /\ run.stagnant < Len(run.batches)
  BY <1>1 DEF Saved
<1>4. Batch \in 1..Len(run.batches) /\ Batch = Len(run.batches)
  BY <1>3 DEF Batch
<1>5. st \in 0..MaxBatches /\ st <= Len(run.batches)
  BY <1>3
<1> HIDE DEF st
<1>6. x \in [q : 1..MaxQuestions, status : {"running", "finished", "interrupted", "failed"}]
      /\ x.q = run.batches[Batch].q
  <2> DEFINE y == run.batches[Batch]
             o == Outcome
  <2>1. y \in [q : 1..MaxQuestions, status : {"running", "finished", "interrupted", "failed"}]
    <3>1. run.batches \in Batches /\ Batch \in 1..Len(run.batches)
      BY <1>4
    <3> HIDE DEF y, o, x, bs, d
    <3>2. run.batches[Batch] \in [q : 1..MaxQuestions, status : {"running", "finished", "interrupted", "failed"}]
      BY ONLY <3>1, BatchIs
    <3> QED BY <3>2 DEF y
  <2>2. o \in {"finished", "interrupted", "failed"}
    BY <1>2
  <2> HIDE DEF y, o
  <2>3. LET z == [y EXCEPT !.status = o]
        IN  z \in [q : 1..MaxQuestions, status : {"running", "finished", "interrupted", "failed"}] /\ z.q = y.q
    BY <2>1, <2>2
  <2> QED BY <2>3 DEF y, o
<1> HIDE DEF x
<1>7. bs \in Batches /\ Len(bs) = Len(run.batches) /\ DOMAIN bs = DOMAIN run.batches
      /\ \A b \in DOMAIN run.batches : bs[b] = IF b = Batch THEN x ELSE run.batches[b]
  <2> DEFINE old == run.batches
             o == Batch
  <2>1. old \in Batches /\ o \in 1..Len(old)
    BY <1>4
  <2> HIDE DEF old, o
  <2>2. LET new == [old EXCEPT ![o] = x]
        IN  /\ new \in Batches /\ Len(new) = Len(old) /\ DOMAIN new = DOMAIN old
            /\ \A b \in DOMAIN old : new[b] = IF b = o THEN x ELSE old[b]
    BY <1>6, <2>1, ReplacedBatch
  <2> QED BY <2>2 DEF old, o
<1> HIDE DEF bs
<1>8. d \in Record /\ d.batches = bs /\ d.stagnant = st /\ d.status = "paused"
  <2> DEFINE r == run
  <2>1. r \in Record /\ bs \in Batches /\ st \in 0..MaxBatches
    BY <1>5, <1>7
  <2>2. d = [r EXCEPT !.batches = bs, !.stagnant = st, !.status = "paused"]
    OBVIOUS
  <2> HIDE DEF r, d
  <2> QED BY ONLY <2>1, <2>2 DEF Record, Batches
<1> HIDE DEF d
<1> QED BY <1>1, <1>3, <1>4, <1>5, <1>6, <1>7, <1>8 DEF Saved, Recorded

LEMMA SettleSaved ==
  ASSUME LongRunAssumption, QueueInv, Settle
  PROVE  Saved' /\ Recorded
<1> USE SavedSays
<1>1. pc = "settled"
  BY DEF Settle
<1>2. CASE Stop([run EXCEPT !.review = TRUE])
  <2> DEFINE d == [run EXCEPT !.review = TRUE]
  <2>1. d \in Record /\ d.batches = run.batches /\ d.stagnant = run.stagnant
    BY RunWithReview
  <2>2. Stop(d)
    BY <1>2
  <2> HIDE DEF d
  <2> QED BY <1>1, <2>1, <2>2, StopKeeps
<1>3. CASE Stop(run)
  BY <1>1, <1>3, StopKeeps
<1>4. CASE pc' = "loop" /\ UNCHANGED <<run, disk, lock>>
  BY <1>1, <1>4 DEF Saved, Recorded
<1> QED BY <1>2, <1>3, <1>4 DEF Settle

LEMMA LessThanIsWellFounded == IsWellFoundedOn({p \in Nat \X Nat : p[1] < p[2]}, Nat)
BY NatLessThanWellFounded DEF OpToRel

(* A set of numbers that is not empty has a least one. *)
LEMMA LeastNumber ==
  ASSUME NEW T, T \subseteq Nat, T # {}
  PROVE  \E x \in T : \A y \in T : ~(y < x)
<1> DEFINE R == {p \in Nat \X Nat : p[1] < p[2]}
<1>1. IsWellFoundedOn(R, Nat)
  BY LessThanIsWellFounded
<1>2. \E x \in T : \A y \in T : ~ (<<y, x>> \in R)
  <2> HIDE DEF R
  <2> QED BY <1>1, WFMin
<1> QED
  BY <1>2

LEMMA PartsAreFinite ==
  ASSUME NEW n \in Nat, NEW T \in SUBSET (1..n)
  PROVE  IsFiniteSet(T)
<1>1. IsFiniteSet(1..n)
  BY FS_Interval, 1 \in Int, n \in Int
<1> QED BY <1>1, FS_Subset

LEMMA CountIs ==
  ASSUME LongRunAssumption, QueueInv
  PROVE  \A q : IsFiniteSet(Of(q)) /\ Cardinality(Of(q)) \in Nat
<1> SUFFICES ASSUME NEW q PROVE IsFiniteSet(Of(q)) /\ Cardinality(Of(q)) \in Nat
  OBVIOUS
<1>1. Of(q) \in SUBSET (1..Len(disk.batches)) /\ Len(disk.batches) \in Nat
  BY SavedSays DEF Of
<1>2. IsFiniteSet(Of(q))
  BY <1>1, PartsAreFinite
<1> QED BY <1>2, FS_CardinalityType

(* A step that starts no batch adds to no question's count. *)
LEMMA PlainKeeps ==
  ASSUME LongRunAssumption, QueueInv, Moved, Recorded,
         pc' \in {"next", "batch"} => pc' = pc /\ picked' = picked
  PROVE  Sound(questions') /\ OnlyOne' /\ Counted'
<1> USE QueueFacts
<1>1. Sound(questions')
  BY DEF Moved
<1>2. OnlyOne'
  BY DEF OnlyOne, Moved, QuestionIds
<1>3. \A b \in DOMAIN disk'.batches : disk'.batches[b].q \in DOMAIN questions'
  BY DEF Counted, Recorded, Moved, QuestionIds
<1>4. ASSUME NEW q \in DOMAIN questions'
      PROVE  Cardinality(Of(q)') + (IF pc' = "next" /\ picked' = q THEN 1 ELSE 0) <= questions'[q].attempts
  <2>1. Of(q)' = Of(q)
    BY DEF Of, Recorded
  <2>2. CASE q \in QuestionIds
    <3>1. Cardinality(Of(q)) + (IF pc = "next" /\ picked = q THEN 1 ELSE 0) <= questions[q].attempts
      BY <2>2 DEF Counted
    <3>2. pc' = "next" /\ picked' = q => pc = "next" /\ picked = q
      OBVIOUS
    <3>3. IsFiniteSet(Of(q)) /\ Cardinality(Of(q)) \in Nat
      BY CountIs
    <3>4. questions'[q].attempts = questions[q].attempts /\ questions[q].attempts \in Nat
      BY <2>2, SoundSays DEF Moved, QuestionIds
    <3> QED BY <2>1, <3>1, <3>2, <3>3, <3>4
  <2>3. CASE q \notin QuestionIds
    <3>1. Of(q) = {}
      BY <2>3 DEF Of, Counted
    <3>2. ~(pc' = "next" /\ picked' = q)
      BY <2>3 DEF Counted
    <3>3. questions'[q].attempts \in Nat
      BY <1>1, SoundSays
    <3> QED BY <2>1, <3>1, <3>2, <3>3, FS_EmptySet
  <2> QED BY <2>2, <2>3
<1>5. pc' \in {"next", "batch"} => picked' \in DOMAIN questions'
  BY DEF Counted, Moved, QuestionIds
<1>6. Counted'
  BY <1>3, <1>4, <1>5 DEF Counted, QuestionIds
<1> QED BY <1>1, <1>2, <1>6

(* The supervisor takes a question: it is the only active one, and its      *)
(* evidence and that of its dependencies was just checked.                  *)
LEMMA NextTakes ==
  ASSUME LongRunAssumption, QueueInv, Next_, pc' = "next"
  PROVE  /\ Sound(questions') /\ DOMAIN questions' = QuestionIds /\ picked' \in QuestionIds
         /\ \A q \in QuestionIds :
              /\ questions'[q].attempts = IF q = picked' THEN questions[q].attempts + 1 ELSE questions[q].attempts
              /\ questions'[q].status = "active" <=> q = picked'
         /\ \A d \in questions'[picked'].deps : questions'[d].status = "answered" /\ Intact(questions'[d])
<1> USE QueueFacts, SoundSays DEF QuestionIds
<1> DEFINE v == Validated(questions)
           r == Reopened(v)
           ready == ReadyIn(r)
           q == CHOOSE i \in ready : \A j \in ready : i <= j
           c == [r[q] EXCEPT !.status = "active", !.attempts = @ + 1]
<1>1. /\ ready # {} /\ picked' = q /\ UNCHANGED receipt
      /\ questions' = [r EXCEPT ![q].status = "active", ![q].attempts = @ + 1]
  <2>1. ready = {} => pc' = "down"
    BY DEF Next_, Leave
  <2>2. ready # {}
    BY <2>1
  <2> QED BY <2>2 DEF Next_
<1>2. /\ Sound(v) /\ DOMAIN v = DOMAIN questions
      /\ \A i \in DOMAIN questions : Alike(v[i], questions[i]) /\ (v[i].status = "answered" => Intact(v[i]))
  BY ValidatedIs
<1> HIDE DEF v
<1>3. /\ Sound(r) /\ DOMAIN r = DOMAIN v /\ Len(r) = Len(v)
      /\ \A i \in DOMAIN v :
           /\ Alike(r[i], v[i]) /\ r[i].status # "active"
           /\ r[i].status \in Open => r[i].attempts < MaxAttempts
           /\ r[i].status \in {"answered", "decomposed"} => r[i].status = v[i].status
  BY <1>2, ReopenedIs
<1> HIDE DEF r
<1>4. /\ r \in Seq(Question) /\ Len(r) \in Nat /\ DOMAIN r = 1..Len(r) /\ Len(r) <= MaxQuestions
      /\ \A i \in DOMAIN r : r[i] \in Question /\ r[i].deps \subseteq DOMAIN r
  BY <1>3, SoundSays
<1>5. ready \subseteq 1..Len(r)
  BY <1>4 DEF ReadyIn
<1>6. q \in ready
  <2> HIDE DEF ready
  <2>1. ready \subseteq Nat /\ ready # {}
    BY <1>1, <1>4, <1>5
  <2>2. \E x \in ready : \A y \in ready : ~(y < x)
    BY <2>1, LeastNumber
  <2>3. \E x \in ready : \A y \in ready : x <= y
    BY <2>1, <2>2
  <2> QED BY <2>3
<1>7. /\ q \in DOMAIN r /\ r[q].status \in Open
      /\ \A d \in r[q].deps : r[d].status = "answered"
  BY <1>6 DEF ReadyIn
<1> HIDE DEF ready, q
<1>8. r[q] \in Question /\ r[q].attempts < MaxAttempts /\ MaxAttempts \in Nat
  BY <1>3, <1>4, <1>7, LongRunAssumption DEF LongRunAssumption
<1>9. /\ c \in Question /\ c.status = "active" /\ c.attempts = r[q].attempts + 1
      /\ c.parent = r[q].parent /\ c.deps = r[q].deps /\ c.cites = r[q].cites
  <2> DEFINE o == r[q]
  <2>1. o \in Question /\ o.attempts < MaxAttempts /\ MaxAttempts \in Nat
    BY <1>8
  <2> HIDE DEF o
  <2>2. LET d == [o EXCEPT !.status = "active", !.attempts = @ + 1]
        IN  /\ d \in Question /\ d.status = "active" /\ d.attempts = o.attempts + 1
            /\ d.parent = o.parent /\ d.deps = o.deps /\ d.cites = o.cites
    BY <2>1, WithAttempt
  <2> QED BY <2>2 DEF o
<1> HIDE DEF c
<1>10. /\ questions' \in Seq(Question) /\ Len(questions') = Len(r) /\ DOMAIN questions' = DOMAIN r
       /\ \A i \in DOMAIN r : questions'[i] = IF i = q THEN c ELSE r[i]
  <2>1. q \in 1..Len(r) /\ r[q] \in Question
    BY <1>4, <1>7
  <2>2. questions' = [r EXCEPT ![q] = c]
    BY <1>1, <2>1, <1>4 DEF c
  <2> QED BY <1>4, <1>7, <1>9, <2>2
<1>11. \A i \in DOMAIN r : /\ questions'[i].parent = r[i].parent /\ questions'[i].deps = r[i].deps
                           /\ questions'[i].cites = r[i].cites
  BY <1>9, <1>10
<1>12. ASSUME NEW i \in DOMAIN r
       PROVE  /\ questions'[i].deps \subseteq DOMAIN r
              /\ questions'[i].status = "answered" => questions'[i].cites # {}
              /\ questions'[i].status = "decomposed" => \E d \in DOMAIN r : questions'[d].parent = i
  <2>1. questions'[i].status # "active" => questions'[i] = r[i]
    BY <1>9, <1>10
  <2>2. /\ r[i].status = "answered" => r[i].cites # {}
        /\ r[i].status = "decomposed" => \E d \in DOMAIN r : r[d].parent = i
    BY <1>3, SoundSays
  <2> QED BY <1>4, <1>11, <2>1, <2>2
<1>13. Sound(questions')
  BY <1>4, <1>10, <1>12 DEF Sound
<1>14. DOMAIN r = DOMAIN questions
  BY <1>2, <1>3
<1>15. ASSUME NEW i \in DOMAIN questions
       PROVE  /\ questions'[i].attempts = IF i = q THEN questions[i].attempts + 1 ELSE questions[i].attempts
              /\ questions'[i].status = "active" <=> i = q
  <2>1. r[i].attempts = questions[i].attempts /\ r[i].status # "active"
    BY <1>2, <1>3 DEF Alike
  <2> QED BY <1>9, <1>10, <1>14, <2>1
<1>16. ASSUME NEW d \in questions'[q].deps
       PROVE  questions'[d].status = "answered" /\ Intact(questions'[d])
  <2>1. d \in r[q].deps /\ d \in DOMAIN r /\ r[d].status = "answered"
    BY <1>4, <1>7, <1>11
  <2>2. d # q
    BY <1>7, <2>1 DEF Open
  <2>3. questions'[d] = r[d] /\ r[d].cites = v[d].cites /\ Intact(v[d])
    BY <1>2, <1>3, <1>10, <2>1, <2>2 DEF Alike
  <2> QED BY <2>1, <2>3 DEF Intact
<1> QED BY <1>1, <1>7, <1>10, <1>13, <1>14, <1>15, <1>16

LEMMA NextKeeps ==
  ASSUME LongRunAssumption, QueueInv, Next_
  PROVE  Sound(questions') /\ OnlyOne' /\ Counted'
<1> USE QueueFacts
<1>1. CASE pc' = "next"
  <2>1. /\ Sound(questions') /\ DOMAIN questions' = QuestionIds /\ picked' \in QuestionIds
        /\ \A q \in QuestionIds :
             /\ questions'[q].attempts = IF q = picked' THEN questions[q].attempts + 1 ELSE questions[q].attempts
             /\ questions'[q].status = "active" <=> q = picked'
    BY <1>1, NextTakes
  <2>2. OnlyOne'
    BY <1>1, <2>1 DEF OnlyOne, QuestionIds
  <2>3. Recorded /\ pc = "context"
    BY NextSaved DEF Next_
  <2>4. \A q : Of(q)' = Of(q)
    BY <2>3 DEF Of, Recorded
  <2>5. \A q \in QuestionIds : Cardinality(Of(q)) <= questions[q].attempts
                               /\ Cardinality(Of(q)) \in Nat /\ questions[q].attempts \in Nat
    BY <2>3, CountIs, SoundSays DEF Counted, QuestionIds
  <2>6. \A q \in QuestionIds :
          Cardinality(Of(q)') + (IF pc' = "next" /\ picked' = q THEN 1 ELSE 0) <= questions'[q].attempts
    BY <1>1, <2>1, <2>4, <2>5
  <2>7. \A b \in DOMAIN disk'.batches : disk'.batches[b].q \in DOMAIN questions'
    BY <2>1, <2>3 DEF Counted, Recorded, QuestionIds
  <2>8. Counted'
    BY <2>1, <2>6, <2>7 DEF Counted, QuestionIds
  <2> QED BY <2>1, <2>2, <2>8
<1>2. CASE pc' # "next"
  <2>1. questions' = Reopened(Validated(questions)) /\ pc' = "down"
    BY <1>2 DEF Next_, Leave
  <2> QED BY <2>1, LoopMoves, NextSaved, PlainKeeps
<1> QED BY <1>1, <1>2

LEMMA BeginKeeps ==
  ASSUME LongRunAssumption, QueueInv, Begin
  PROVE  Sound(questions') /\ OnlyOne' /\ Counted'
<1> USE QueueFacts, SavedSays
<1> DEFINE n == Len(disk.batches)
<1>1. pc = "next" /\ pc' = "batch" /\ picked' = picked /\ questions' = questions /\ picked \in QuestionIds
  BY DEF Begin, Counted, queue
<1>2. /\ DOMAIN disk'.batches = 1..(n + 1) /\ disk'.batches[n + 1].q = picked
      /\ \A b \in DOMAIN disk.batches : disk'.batches[b] = disk.batches[b]
      /\ n \in Nat /\ DOMAIN disk.batches = 1..n
  BY BeginSays
<1>3. OnlyOne'
  BY <1>1 DEF OnlyOne, QuestionIds
<1>4. ASSUME NEW q \in QuestionIds
      PROVE  Cardinality(Of(q)') <= questions[q].attempts
  <2>1. Cardinality(Of(q)) + (IF picked = q THEN 1 ELSE 0) <= questions[q].attempts
        /\ questions[q].attempts \in Nat
    BY <1>1, SoundSays DEF Counted, QuestionIds
  <2>2. IsFiniteSet(Of(q)) /\ Cardinality(Of(q)) \in Nat
    BY CountIs
  <2>3. CASE q = picked
    <3>1. Of(q)' = Of(q) \cup {n + 1} /\ n + 1 \notin Of(q)
      BY <1>2, <2>3 DEF Of
    <3>2. Cardinality(Of(q)') = Cardinality(Of(q)) + 1
      BY <2>2, <3>1, FS_AddElement
    <3> QED BY <2>1, <2>2, <2>3, <3>2
  <2>4. CASE q # picked
    <3>1. Of(q)' = Of(q)
      BY <1>2, <2>4 DEF Of
    <3> QED BY <2>1, <2>2, <2>4, <3>1
  <2> QED BY <2>3, <2>4
<1>5. \A b \in DOMAIN disk'.batches : disk'.batches[b].q \in QuestionIds
  BY <1>1, <1>2 DEF Counted
<1>6. Counted'
  <2>1. \A q \in QuestionIds :
          Cardinality(Of(q)') + (IF pc' = "next" /\ picked' = q THEN 1 ELSE 0) <= questions'[q].attempts
    <3> SUFFICES ASSUME NEW q \in QuestionIds
                 PROVE  Cardinality(Of(q)') + 0 <= questions[q].attempts
      BY <1>1
    <3>1. Cardinality(Of(q)') \in Nat
      <4>1. Of(q)' \in SUBSET (1..(n + 1))
        BY <1>2 DEF Of
      <4>2. IsFiniteSet(Of(q)')
        BY <1>2, <4>1, n + 1 \in Nat, PartsAreFinite
      <4> QED BY <4>2, FS_CardinalityType
    <3> QED BY <1>4, <3>1
  <2> QED BY <1>1, <1>5, <2>1 DEF Counted, QuestionIds
<1> QED BY <1>1, <1>3, <1>6

LEMMA SoundKeeps ==
  ASSUME LongRunAssumption, QueueInv, Next
  PROVE  Saved' /\ Sound(questions') /\ OnlyOne' /\ Counted'
<1> USE QueueFacts
<1>1. CASE Next_
  BY <1>1, NextKeeps, NextSaved
<1>2. CASE Begin
  BY <1>2, BeginKeeps, BeginSays
<1>3. ASSUME Moved, Saved', Recorded, pc' \in {"next", "batch"} => pc' = pc /\ picked' = picked
      PROVE  Saved' /\ Sound(questions') /\ OnlyOne' /\ Counted'
  BY <1>3, PlainKeeps
<1>4. CASE LoopTop
  <2>1. Moved
    BY <1>4, LoopMoves DEF LoopTop
  <2>2. pc' \notin {"next", "batch"}
    BY <1>4 DEF LoopTop, Leave, Stop
  <2> QED BY <1>3, <1>4, <2>1, <2>2, LoopSaved
<1>5. CASE Return
  <2>1. UNCHANGED questions /\ pc' = "settled"
    BY <1>5 DEF Return, queue
  <2> QED BY <1>3, <1>5, <2>1, StillMoves, ReturnSays
<1>6. CASE Settle
  <2>1. UNCHANGED questions /\ pc' \in {"loop", "down"}
    BY <1>6 DEF Settle, Leave, Stop, queue
  <2> QED BY <1>3, <1>6, <2>1, StillMoves, SettleSaved
<1>7. CASE Tool \/ \E exit \in {"ok", "bad"} : SessionEnds(exit)
  <2>1. UNCHANGED <<questions, run, disk, pc, picked>>
    BY <1>7 DEF Tool, SessionEnds, Working, queue
  <2> QED BY <1>3, <2>1, StillMoves, SameRunKeeps
<1>8. CASE \E markup \in BOOLEAN : TurnEnd(markup)
  <2>1. UNCHANGED <<run, disk, pc, picked>>
    BY <1>8 DEF TurnEnd, Working
  <2>2. Moved
    BY <1>8, TurnMoves
  <2> QED BY <1>3, <2>1, <2>2, SameRunKeeps
<1>9. CASE \E items \in Items : QuestionAdd(items)
  <2>1. UNCHANGED <<run, disk, pc, picked>>
    BY <1>9 DEF QuestionAdd, Working
  <2>2. Moved
    BY <1>9, AddMoves
  <2> QED BY <1>3, <2>1, <2>2, SameRunKeeps
<1>10. CASE \E status \in {"partial", "answered", "blocked"}, batches \in SUBSET (1..MaxBatches) :
              QuestionCheckpoint(status, batches)
  <2>1. UNCHANGED <<run, disk, pc, picked>>
    BY <1>10 DEF QuestionCheckpoint, Working
  <2>2. Moved
    BY <1>10, CheckpointMoves
  <2> QED BY <1>3, <2>1, <2>2, SameRunKeeps
<1>11. CASE \E ack \in BOOLEAN : Start(ack)
  <2>1. UNCHANGED questions /\ pc' = "loop"
    BY <1>11 DEF Start, queue
  <2> QED BY <1>3, <1>11, <2>1, StillMoves, StartSaved
<1>12. CASE Pause
  <2>1. UNCHANGED questions /\ pc' = "down" /\ pc # "down" /\ Stop(run)
    BY <1>12 DEF Pause, Stop, Leave, queue
  <2>2. Saved' /\ Recorded
    BY <2>1, StopKeeps, SavedSays
  <2> QED BY <1>3, <2>1, <2>2, StillMoves
<1>13. CASE BeginFails \/ Abort \/ Unlock \/ \E b \in 1..MaxBatches, content \in {0, 2} : ReceiptChanges(b, content)
  <2>1. UNCHANGED <<questions, run, disk, pc, picked>>
    BY <1>13 DEF BeginFails, Abort, Unlock, ReceiptChanges, Working, queue, batchVars
  <2> QED BY <1>3, <2>1, StillMoves, SameRunKeeps
<1>14. CASE Crash \/ WriteFails
  <2>1. UNCHANGED <<questions, disk>> /\ pc' = "down" /\ run' = NewRun
    BY <1>14 DEF Crash, WriteFails, queue
  <2> QED BY <1>3, <2>1, StillMoves, DiesKeeps
<1> QED
  BY <1>1, <1>2, <1>4, <1>5, <1>6, <1>7, <1>8, <1>9, <1>10, <1>11, <1>12, <1>13, <1>14
     DEF Next, Supervisor, Worker, World

WorkerRecord ==
  [alive : BOOLEAN, ckpt : BOOLEAN, gens : 0..MaxGenerations, exit : {"ok", "bad", "threw"}]

(* A worker that did not just start was alive before. *)
LEMMA WorkerIs ==
  ASSUME LongRunAssumption, QueueInv, Next
  PROVE  worker' \in WorkerRecord /\ (worker'.alive => worker.alive \/ Begin)
<1>1. worker \in WorkerRecord /\ NoWorker \in WorkerRecord /\ ~NoWorker.alive
  BY LongRunAssumption DEF QueueInv, OthersTyped, WorkerRecord, NoWorker, LongRunAssumption
<1>2. CASE UNCHANGED worker
  BY <1>1, <1>2
<1>3. CASE worker' = NoWorker
  BY <1>1, <1>3
<1>4. CASE Begin
  <2>1. worker' = [NoWorker EXCEPT !.alive = TRUE]
    BY <1>4 DEF Begin
  <2> QED BY <1>1, <1>4, <2>1 DEF WorkerRecord
<1>5. CASE BeginFails
  <2>1. worker' = [NoWorker EXCEPT !.exit = "threw"]
    BY <1>5 DEF BeginFails
  <2>2. worker' \in WorkerRecord /\ worker'.alive = NoWorker.alive
    BY <1>1, <2>1 DEF WorkerRecord
  <2> QED BY <1>1, <2>2
<1>6. CASE worker.alive /\ worker' = [worker EXCEPT !.ckpt = TRUE]
  BY <1>1, <1>6 DEF WorkerRecord
<1>7. CASE \E markup \in BOOLEAN : TurnEnd(markup)
  <2>1. PICK stay \in BOOLEAN : worker.alive /\ worker.gens < MaxGenerations
                                /\ worker' = [worker EXCEPT !.gens = @ + 1, !.alive = stay]
    BY <1>7 DEF TurnEnd, Working
  <2>2. worker.gens + 1 \in 0..MaxGenerations
    BY <1>1, <2>1, LongRunAssumption DEF WorkerRecord, LongRunAssumption
  <2> DEFINE g == worker.gens + 1
  <2>3. worker' = [worker EXCEPT !.gens = g, !.alive = stay] /\ g \in 0..MaxGenerations
    BY <2>1, <2>2
  <2> HIDE DEF g
  <2> QED BY <1>1, <2>1, <2>3 DEF WorkerRecord
<1>8. CASE \E exit \in {"ok", "bad"} : SessionEnds(exit)
  <2>1. PICK exit \in {"ok", "bad"} : worker.alive /\ worker' = [worker EXCEPT !.alive = FALSE, !.exit = exit]
    BY <1>8 DEF SessionEnds, Working
  <2> QED BY <1>1, <2>1 DEF WorkerRecord
<1>9. CASE Abort
  <2>1. worker.alive /\ worker' = [worker EXCEPT !.alive = FALSE]
    BY <1>9 DEF Abort, Working
  <2> QED BY <1>1, <2>1 DEF WorkerRecord
<1> QED
  BY <1>2, <1>3, <1>4, <1>5, <1>6, <1>7, <1>8, <1>9
     DEF Next, Supervisor, Worker, World, LoopTop, Next_, Return, Settle, Tool, QuestionAdd,
         QuestionCheckpoint, Working, Start, Pause, Crash, WriteFails, Unlock, ReceiptChanges, batchVars

LEMMA ReceiptIs ==
  ASSUME LongRunAssumption, QueueInv, Next
  PROVE  receipt' \in [1..MaxBatches -> 0..2]
<1>1. receipt \in [1..MaxBatches -> 0..2]
  BY DEF QueueInv, OthersTyped
<1>2. CASE UNCHANGED receipt
  BY <1>1, <1>2
<1>3. CASE Tool
  <2>1. Its \in 1..MaxBatches /\ receipt' = [receipt EXCEPT ![Its] = 1]
    BY <1>3, OwnIs DEF Tool, Working
  <2> QED BY <1>1, <2>1
<1>4. CASE \E b \in 1..MaxBatches, content \in {0, 2} : ReceiptChanges(b, content)
  BY <1>1, <1>4 DEF ReceiptChanges
<1> QED
  BY <1>2, <1>3, <1>4
     DEF Next, Supervisor, Worker, World, LoopTop, Next_, Begin, Return, Settle, TurnEnd, QuestionAdd,
         QuestionCheckpoint, SessionEnds, Start, Pause, BeginFails, Abort, Crash, WriteFails, Unlock, queue

LEMMA PickedIs ==
  ASSUME LongRunAssumption, QueueInv, Next
  PROVE  picked' \in 0..MaxQuestions
<1>1. picked \in 0..MaxQuestions
  BY DEF QueueInv, OthersTyped
<1>2. CASE UNCHANGED picked \/ picked' = 0
  BY <1>1, <1>2, LongRunAssumption DEF LongRunAssumption
<1>3. CASE Next_
  <2>1. CASE pc' = "next"
    <3>1. picked' \in DOMAIN questions' /\ Sound(questions')
      BY <1>3, <2>1, NextTakes
    <3> QED BY <3>1, SoundSays, LongRunAssumption DEF LongRunAssumption
  <2>2. CASE pc' # "next"
    BY <1>2, <1>3, <2>2 DEF Next_
  <2> QED BY <2>1, <2>2
<1> QED
  BY <1>2, <1>3
     DEF Next, Supervisor, Worker, World, LoopTop, Begin, Return, Settle, Tool, TurnEnd, QuestionAdd,
         QuestionCheckpoint, SessionEnds, Working, Start, Pause, BeginFails, Abort, Crash, WriteFails,
         Unlock, ReceiptChanges, batchVars

(* The flags of a batch, where the supervisor stands, and the acknowledged batches. *)
LEMMA FlagsAre ==
  ASSUME LongRunAssumption, QueueInv, Next
  PROVE  /\ marker' \in BOOLEAN /\ unresolved' \in BOOLEAN /\ abort' \in BOOLEAN
         /\ lock' \in BOOLEAN /\ pc' \in {"down", "loop", "context", "next", "batch", "settled"}
         /\ acked' \in 0..MaxBatches /\ unasked' \subseteq 0..MaxBatches
<1>1. OthersTyped
  BY QueueFacts
<1>2. marker' \in BOOLEAN
  BY <1>1 DEF OthersTyped, Next, Supervisor, Worker, World, LoopTop, Next_, Begin, Return, Settle, Tool, TurnEnd,
       QuestionAdd, QuestionCheckpoint, SessionEnds, Start, Pause, BeginFails, Abort, Crash, WriteFails,
       Unlock, ReceiptChanges, batchVars, files
<1>3. unresolved' \in BOOLEAN
  BY <1>1 DEF OthersTyped, Next, Supervisor, Worker, World, LoopTop, Next_, Begin, Return, Settle, Tool, TurnEnd,
       QuestionAdd, QuestionCheckpoint, SessionEnds, Start, Pause, BeginFails, Abort, Crash, WriteFails,
       Unlock, ReceiptChanges, batchVars, files
<1>4. abort' \in BOOLEAN
  BY <1>1 DEF OthersTyped, Next, Supervisor, Worker, World, LoopTop, Next_, Begin, Return, Settle, Tool, TurnEnd,
       QuestionAdd, QuestionCheckpoint, SessionEnds, Start, Pause, BeginFails, Abort, Crash, WriteFails,
       Unlock, ReceiptChanges, batchVars, files
<1>5. lock' \in BOOLEAN
  BY <1>1 DEF OthersTyped, Next, Supervisor, Worker, World, LoopTop, Next_, Begin, Return, Settle, Tool, TurnEnd,
       QuestionAdd, QuestionCheckpoint, SessionEnds, Working, Start, Pause, BeginFails, Abort, Crash, WriteFails,
       Unlock, ReceiptChanges, Leave, Stop
<1>6. pc' \in {"down", "loop", "context", "next", "batch", "settled"}
  BY <1>1 DEF OthersTyped, Next, Supervisor, Worker, World, LoopTop, Next_, Begin, Return, Settle, Tool, TurnEnd,
       QuestionAdd, QuestionCheckpoint, SessionEnds, Working, Start, Pause, BeginFails, Abort, Crash, WriteFails,
       Unlock, ReceiptChanges, Leave, Stop
<1>7. acked' \in 0..MaxBatches
  <2>1. Len(disk.batches) \in 0..MaxBatches
    BY SavedSays DEF Saved
  <2>2. acked' \in {acked, Len(disk.batches)}
    BY DEF Next, Supervisor, Worker, World, LoopTop, Next_, Begin, Return, Settle, Tool, TurnEnd,
       QuestionAdd, QuestionCheckpoint, SessionEnds, Working, Start, Pause, BeginFails, Abort, Crash, WriteFails,
       Unlock, ReceiptChanges, history
  <2> QED BY <1>1, <2>1, <2>2 DEF OthersTyped
<1>8. unasked' \subseteq 0..MaxBatches
  <2>1. CASE UNCHANGED unasked
    BY <1>1, <2>1 DEF OthersTyped
  <2>2. CASE Crash \/ WriteFails
    <3>1. pc # "down" /\ unasked' = Unasked
      BY <2>2 DEF Crash, WriteFails
    <3>2. run.batches = disk.batches /\ Len(disk.batches) \in 0..MaxBatches
      BY <3>1, SavedSays DEF Saved
    <3>3. Batch \in 0..MaxBatches
      BY <3>2 DEF Batch
    <3>4. Unasked \subseteq unasked \cup {Batch}
      BY DEF Unasked
    <3> QED BY <1>1, <3>1, <3>3, <3>4 DEF OthersTyped
  <2> QED
    BY <2>1, <2>2
       DEF Next, Supervisor, Worker, World, LoopTop, Next_, Begin, Return, Settle, Tool, TurnEnd,
           QuestionAdd, QuestionCheckpoint, SessionEnds, Working, Start, Pause, BeginFails, Abort,
           Unlock, ReceiptChanges, history
<1> QED BY <1>2, <1>3, <1>4, <1>5, <1>6, <1>7, <1>8

LEMMA LockKeeps ==
  ASSUME LongRunAssumption, QueueInv, Next
  PROVE  Locked'
<1>1. Locked /\ (worker'.alive => worker.alive \/ Begin)
  BY QueueFacts, WorkerIs
<1>2. CASE Begin
  <2>1. lock' = lock /\ pc = "next" /\ pc' = "batch"
    BY <1>2 DEF Begin
  <2>2. disk'.batches # <<>>
    <3>1. DOMAIN disk'.batches = 1..(Len(disk.batches) + 1) /\ Len(disk.batches) \in Nat
      BY <1>2, BeginSays, SavedSays
    <3>2. 1 \in DOMAIN disk'.batches
      BY <3>1
    <3> QED BY <3>2
  <2> QED BY <1>1, <2>1, <2>2 DEF Locked
<1>3. CASE Return
  <2>1. ~worker'.alive /\ lock' = lock /\ pc = "batch"
    BY <1>3 DEF Return, NoWorker
  <2> QED BY <1>1, <2>1 DEF Locked
<1>4. CASE \/ \E ack \in BOOLEAN : Start(ack)
           \/ LoopTop \/ Next_ \/ Settle \/ Pause \/ WriteFails \/ Unlock
  <2>1. ~worker.alive /\ ~Begin /\ UNCHANGED worker
    BY <1>1, <1>4 DEF Locked, Start, LoopTop, Next_, Settle, Pause, WriteFails, Unlock, Begin, batchVars
  <2>2. pc' # "down" => lock'
    BY <1>1, <1>4 DEF Locked, Start, LoopTop, Next_, Settle, Pause, WriteFails, Unlock, Leave, Stop
  <2> QED BY <1>1, <2>1, <2>2 DEF Locked
<1>5. CASE Worker \/ BeginFails \/ Abort \/ Crash
           \/ \E b \in 1..MaxBatches, content \in {0, 2} : ReceiptChanges(b, content)
  <2>1. UNCHANGED <<disk, lock>> /\ pc' \in {pc, "down"} /\ (Crash => pc # "down") /\ ~Begin
    BY <1>5 DEF Worker, Tool, TurnEnd, QuestionAdd, QuestionCheckpoint, SessionEnds, Working,
            BeginFails, Abort, Crash, ReceiptChanges, Begin
  <2> QED BY <1>1, <2>1 DEF Locked
<1> QED BY <1>2, <1>3, <1>4, <1>5 DEF Next, Supervisor, World

LEMMA NextQueueInv == LongRunAssumption /\ QueueInv /\ [Next]_vars => QueueInv'
<1> SUFFICES ASSUME LongRunAssumption, QueueInv, [Next]_vars PROVE QueueInv'
  OBVIOUS
<1>1. CASE Next
  <2>1. OthersTyped'
    BY <1>1, ReceiptIs, PickedIs, WorkerIs, FlagsAre DEF OthersTyped, WorkerRecord
  <2> QED BY <1>1, <2>1, SoundKeeps, LockKeeps DEF QueueInv
<1>2. CASE UNCHANGED vars
  BY <1>2 DEF vars, queue, batchVars, files, history, bounds, QueueInv, OnlyOne, Counted, Of, Locked, Saved,
           OthersTyped, QuestionIds
<1> QED BY <1>1, <1>2

LEMMA InitQueueInv == LongRunAssumption /\ Init => QueueInv
<1> SUFFICES ASSUME LongRunAssumption, Init PROVE QueueInv
  OBVIOUS
<1>1. NewRun \in Record /\ NewRun.batches = <<>> /\ NewRun.stagnant = 0 /\ run = NewRun /\ disk = NewRun
  BY NewRunIs DEF Init, NewRun
<1> DEFINE c == NewQuestion(0, {})
<1>2. c \in Question /\ c.deps = {} /\ c.status = "pending" /\ c.attempts = 0
  BY DEF NewQuestion, Question, Open, LongRunAssumption
<1>3. questions = <<c>>
  BY DEF Init
<1> HIDE DEF c
<1>4. questions \in Seq(Question) /\ Len(questions) = 1 /\ DOMAIN questions = {1} /\ questions[1] = c
  BY <1>2, <1>3
<1>5. Sound(questions) /\ OnlyOne
  BY <1>2, <1>4 DEF Sound, OnlyOne, QuestionIds, Init, LongRunAssumption
<1>6. Counted
  <2>1. \A q : Of(q) = {}
    BY <1>1 DEF Of
  <2>2. \A q \in QuestionIds : Cardinality(Of(q)) + 0 <= questions[q].attempts
    <3>1. \A q : Cardinality(Of(q)) = 0
      BY <2>1, FS_EmptySet
    <3>2. \A q \in QuestionIds : questions[q].attempts = 0
      BY <1>2, <1>4 DEF QuestionIds
    <3> QED BY <3>1, <3>2
  <2>3. pc = "down" /\ DOMAIN disk.batches = {}
    BY <1>1 DEF Init
  <2> QED BY <2>2, <2>3 DEF Counted
<1>7. Locked /\ Saved
  BY <1>1 DEF Init, Locked, Saved, NoWorker, LongRunAssumption
<1>8. OthersTyped
  <2>1. receipt \in [1..MaxBatches -> 0..2]
    BY DEF Init
  <2>2. NoWorker \in [alive : BOOLEAN, ckpt : BOOLEAN, gens : 0..MaxGenerations, exit : {"ok", "bad", "threw"}]
    BY DEF NoWorker, LongRunAssumption
  <2>3. 0 \in 0..MaxQuestions /\ 0 \in 0..MaxBatches
    BY DEF LongRunAssumption
  <2> QED BY <2>1, <2>2, <2>3 DEF Init, OthersTyped
<1> QED BY <1>5, <1>6, <1>7, <1>8 DEF QueueInv

(* The queue, the record of the run and what is on disk belong together,   *)
(* and the supervisor holds the lock while it or its worker runs.          *)
THEOREM QueueInvariant == LongRunAssumption => (Spec => []QueueInv)
<1> SUFFICES ASSUME LongRunAssumption PROVE Spec => []QueueInv
  OBVIOUS
<1>1. Init => QueueInv
  BY InitQueueInv
<1>2. QueueInv /\ [Next]_vars => QueueInv'
  BY NextQueueInv
<1> QED BY <1>1, <1>2, PTL DEF Spec

(* The files and the supervisor's memory (QuestionQueue, supervise) have   *)
(* their types, and no run has more batches than its budget.               *)
THEOREM QueueTypes == LongRunAssumption => (Spec => []TypeOK)
<1> SUFFICES ASSUME LongRunAssumption PROVE Spec => []TypeOK
  OBVIOUS
<1>1. QueueInv => TypeOK
  BY QueueFacts DEF TypeOK, Sound, Saved, OthersTyped
<1> QED BY <1>1, QueueInvariant, PTL

(* QuestionQueue.next counts in the file both processes write: over all    *)
(* crashes and resumes a question gets MaxAttempts batches and no more.    *)
THEOREM QuestionsAreNotRetriedForever == LongRunAssumption => (Spec => []AttemptsBounded)
<1> SUFFICES ASSUME LongRunAssumption PROVE Spec => []AttemptsBounded
  OBVIOUS
<1>1. QueueInv => AttemptsBounded
  <2> SUFFICES ASSUME QueueInv, NEW q \in QuestionIds
               PROVE  Cardinality({b \in DOMAIN disk.batches : disk.batches[b].q = q}) <= MaxAttempts
    BY DEF AttemptsBounded
  <2>1. Cardinality(Of(q)) \in Nat
    BY CountIs
  <2>2. Cardinality(Of(q)) + (IF pc = "next" /\ picked = q THEN 1 ELSE 0) <= questions[q].attempts
    BY DEF QueueInv, Counted
  <2>3. questions[q].attempts \in 0..MaxAttempts
    BY SoundSays, QueueFacts DEF QuestionIds
  <2>4. Cardinality(Of(q)) <= MaxAttempts
    BY <2>1, <2>2, <2>3, LongRunAssumption DEF LongRunAssumption
  <2> QED BY <2>4 DEF Of
<1> QED BY <1>1, QueueInvariant, PTL

(* A crash leaves no active question behind that next() does not reopen    *)
(* before it makes another one active.                                     *)
THEOREM OneQuestionIsActive == LongRunAssumption => (Spec => []OneActive)
<1> SUFFICES ASSUME LongRunAssumption PROVE Spec => []OneActive
  OBVIOUS
<1>1. QueueInv => OneActive
  <2> SUFFICES ASSUME QueueInv PROVE OneActive
    OBVIOUS
  <2> DEFINE A == {q \in QuestionIds : questions[q].status = "active"}
  <2>1. OnlyOne
    BY QueueFacts
  <2>2. Cardinality(A) <= 1
    <3>1. CASE A = {}
      BY <3>1, FS_EmptySet
    <3>2. CASE A # {}
      <4>1. PICK q : A = {q}
        BY <2>1, <3>2 DEF OnlyOne
      <4> HIDE DEF A
      <4>2. Cardinality({q}) = 1
        BY FS_Singleton
      <4> QED BY <4>1, <4>2
    <3> QED BY <3>1, <3>2
  <2> QED BY <2>1, <2>2 DEF OneActive, OnlyOne
<1> QED BY <1>1, QueueInvariant, PTL

(* supervisor.lock outlives a crash, so no second worker is started while  *)
(* one runs.                                                               *)
THEOREM NoSecondWorker == LongRunAssumption => (Spec => [][OneWorker]_vars)
<1> SUFFICES ASSUME LongRunAssumption PROVE Spec => [][OneWorker]_vars
  OBVIOUS
<1>1. QueueInv /\ [Next]_vars => [OneWorker]_vars
  BY DEF QueueInv, Locked, OneWorker, Begin
<1> QED BY <1>1, QueueInvariant, PTL DEF Spec

(* next() validates and picks in one call: a batch starts on answers that  *)
(* still have their evidence.                                              *)
THEOREM BatchesStartOnEvidence == LongRunAssumption => (Spec => [][DependenciesHold]_vars)
<1> SUFFICES ASSUME LongRunAssumption PROVE Spec => [][DependenciesHold]_vars
  OBVIOUS
<1>1. QueueInv /\ [Next]_vars => [DependenciesHold]_vars
  <2> SUFFICES ASSUME QueueInv, Next_, NEW q \in QuestionIds, questions'[q].status = "active",
                      NEW d \in questions'[q].deps
               PROVE  questions'[d].status = "answered" /\ Intact(questions'[d])
    BY DEF DependenciesHold
  <2>1. CASE pc' = "next"
    BY <2>1, NextTakes
  <2>2. CASE pc' # "next"
    <3>1. questions' = Reopened(Validated(questions))
      BY <2>2 DEF Next_
    <3>2. Sound(Validated(questions)) /\ DOMAIN Validated(questions) = QuestionIds
      BY QueueFacts, ValidatedIs DEF QuestionIds
    <3>3. questions'[q].status # "active"
      BY <3>1, <3>2, ReopenedIs
    <3> QED BY <3>3
  <2> QED BY <2>1, <2>2
<1> QED BY <1>1, QueueInvariant, PTL DEF Spec

LEMMA StopSays ==
  ASSUME LongRunAssumption, NEW r \in Record, Stop(r)
  PROVE  /\ disk'.status = "paused" /\ disk'.batches = r.batches /\ disk'.review = r.review
         /\ pc' = "down"
<1>1. "paused" \in RunStatuses
  BY DEF RunStatuses
<1>2. disk' = [r EXCEPT !.status = "paused"] /\ pc' = "down"
  BY DEF Stop, Leave
<1> QED BY <1>1, <1>2, RunWithStatus

LEMMA LeaveSays ==
  ASSUME QueueInv, LongRunAssumption, NEW s \in RunStatuses, Leave([run EXCEPT !.status = s])
  PROVE  disk'.status = s /\ disk'.batches = run.batches /\ pc' = "down"
<1> DEFINE d == [run EXCEPT !.status = s]
<1>1. disk' = d /\ pc' = "down" /\ run \in Record
  BY SavedSays DEF Leave
<1>2. d.status = s /\ d.batches = run.batches
  BY <1>1, RunWithStatus
<1> HIDE DEF d
<1> QED BY <1>1, <1>2

(* What a step that reads the queue leaves on disk. *)
LEMMA QueueEnds ==
  ASSUME LongRunAssumption, QueueInv, LoopTop \/ Next_
  PROVE  \/ UNCHANGED <<run, disk>> /\ pc' \in {"context", "next"}
         \/ /\ pc' = "down" /\ disk'.batches = run.batches
            /\ disk'.status = "completed" =>
                 \A i \in QuestionIds : questions'[i].status \in Closed \ {"blocked"}
<1> DEFINE qs == Validated(questions)
           rs == Reopened(qs)
<1>1. run \in Record /\ "completed" \in RunStatuses /\ "blocked" \in RunStatuses
  BY SavedSays DEF RunStatuses
<1>2. Sound(qs) /\ DOMAIN qs = QuestionIds
  BY QueueFacts, ValidatedIs DEF QuestionIds
<1>3. Sound(rs) /\ DOMAIN rs = QuestionIds
  BY <1>2, ReopenedIs
<1>4. \A i \in QuestionIds : rs[i].status \in Statuses /\ rs[i].status # "active"
  BY <1>2, <1>3, SoundSays, ReopenedIs
<1> HIDE DEF rs, qs
<1>5. CASE LoopTop
  <2> DEFINE s == IF \E i \in QuestionIds : qs[i].status = "blocked" THEN "blocked" ELSE "completed"
  <2>1. /\ questions' = qs
        /\ \/ (\A i \in QuestionIds : qs[i].status \in Closed) /\ Leave([run EXCEPT !.status = s])
           \/ Stop(run)
           \/ UNCHANGED <<run, disk>> /\ pc' = "context"
    BY <1>5 DEF LoopTop, qs
  <2>2. s \in RunStatuses /\ (s = "completed" => \A i \in QuestionIds : qs[i].status # "blocked")
    BY <1>1
  <2> HIDE DEF s
  <2>3. CASE (\A i \in QuestionIds : qs[i].status \in Closed) /\ Leave([run EXCEPT !.status = s])
    <3>1. disk'.status = s /\ disk'.batches = run.batches /\ pc' = "down"
      BY <2>2, <2>3, LeaveSays
    <3> QED BY <2>1, <2>2, <2>3, <3>1
  <2>4. CASE Stop(run)
    BY <1>1, <2>4, StopSays
  <2> QED BY <2>1, <2>3, <2>4
<1>6. CASE Next_
  <2> DEFINE s == IF \E i \in QuestionIds : rs[i].status \in Open \cup {"blocked"} THEN "blocked" ELSE "completed"
  <2>1. \/ questions' = rs /\ Leave([run EXCEPT !.status = s])
        \/ UNCHANGED <<run, disk>> /\ pc' = "next"
    BY <1>6 DEF Next_, rs, qs
  <2>2. s \in RunStatuses
        /\ (s = "completed" => \A i \in QuestionIds : rs[i].status \notin Open \cup {"blocked"})
    BY <1>1
  <2> HIDE DEF s
  <2>3. CASE questions' = rs /\ Leave([run EXCEPT !.status = s])
    <3>1. disk'.status = s /\ disk'.batches = run.batches /\ pc' = "down"
      BY <2>2, <2>3, LeaveSays
    <3> QED BY <1>4, <2>2, <2>3, <3>1 DEF Statuses
  <2> QED BY <2>1, <2>3
<1> QED BY <1>5, <1>6

(* After a check of the evidence, an answer has it. *)
LEMMA CheckedAnswers ==
  ASSUME LongRunAssumption, QueueInv, UNCHANGED receipt,
         questions' = Validated(questions) \/ questions' = Reopened(Validated(questions)),
         \A i \in QuestionIds : questions'[i].status \in Closed \ {"blocked"}
  PROVE  \A q \in QuestionIds :
           \/ questions'[q].status = "answered" /\ questions'[q].cites # {} /\ Intact(questions'[q])
           \/ questions'[q].status = "decomposed" /\ \E c \in QuestionIds : questions'[c].parent = q
<1> DEFINE v == Validated(questions)
           r == Reopened(v)
<1>1. /\ Sound(v) /\ DOMAIN v = QuestionIds
      /\ \A i \in QuestionIds : v[i].status = "answered" => Intact(v[i])
  BY QueueFacts, ValidatedIs DEF QuestionIds
<1> HIDE DEF v
<1>2. /\ Sound(r) /\ DOMAIN r = QuestionIds
      /\ \A i \in QuestionIds : /\ r[i].cites = v[i].cites
                                /\ r[i].status = "answered" => v[i].status = "answered"
  BY <1>1, ReopenedIs DEF Alike
<1> HIDE DEF r
<1>3. /\ Sound(questions') /\ DOMAIN questions' = QuestionIds
      /\ \A i \in QuestionIds : questions'[i].status = "answered" => Intact(questions'[i])
  <2>1. CASE questions' = v
    BY <1>1, <2>1
  <2>2. CASE questions' = r
    BY <1>1, <1>2, <2>2 DEF Intact
  <2> QED BY <2>1, <2>2 DEF v, r
<1>4. SUFFICES ASSUME NEW q \in QuestionIds
               PROVE  \/ questions'[q].status = "answered" /\ questions'[q].cites # {} /\ Intact(questions'[q])
                      \/ questions'[q].status = "decomposed" /\ \E c \in QuestionIds : questions'[c].parent = q
  OBVIOUS
<1>5. questions'[q].status \in {"answered", "decomposed"}
  BY DEF Closed
<1>6. /\ questions'[q].status = "answered" => questions'[q].cites # {}
      /\ questions'[q].status = "decomposed" => \E c \in QuestionIds : questions'[c].parent = q
  BY <1>3, SoundSays
<1> QED BY <1>3, <1>5, <1>6

(* supervise completes a run only when every question is answered, by      *)
(* receipts that are what they were, or was split into questions.          *)
THEOREM CompletedRunsAreAnswered == LongRunAssumption => (Spec => [][CompletedMeansAnswered]_vars)
<1> SUFFICES ASSUME LongRunAssumption PROVE Spec => [][CompletedMeansAnswered]_vars
  OBVIOUS
<1>1. QueueInv /\ [Next]_vars => [CompletedMeansAnswered]_vars
  <2> SUFFICES ASSUME QueueInv, Next, disk'.status = "completed", disk.status # "completed"
               PROVE  CompletedMeansAnswered
    BY DEF CompletedMeansAnswered
  <2> USE SavedSays
  <2>1. CASE LoopTop \/ Next_
    <3>1. /\ pc' = "down" /\ UNCHANGED receipt
          /\ \A i \in QuestionIds : questions'[i].status \in Closed \ {"blocked"}
      BY <2>1, QueueEnds DEF LoopTop, Next_
    <3>2. questions' = Validated(questions) \/ questions' = Reopened(Validated(questions))
      BY <2>1, <3>1 DEF LoopTop, Next_
    <3> QED BY <3>1, <3>2, CheckedAnswers DEF CompletedMeansAnswered
  <2>2. CASE Begin \/ Return
    BY <2>2, BeginSays, ReturnSays
  <2>3. CASE Settle
    <3>1. UNCHANGED disk \/ \E r \in Record : Stop(r)
      <4> DEFINE d == [run EXCEPT !.review = TRUE]
      <4>1. d \in Record
        BY RunWithReview
      <4>2. UNCHANGED disk \/ Stop(run) \/ Stop(d)
        BY <2>3 DEF Settle
      <4> HIDE DEF d
      <4> QED BY <4>1, <4>2
    <3> QED BY <3>1, StopSays
  <2>4. CASE Pause
    BY <2>4, StopSays DEF Pause
  <2>5. CASE ~(LoopTop \/ Next_ \/ Begin \/ Return \/ Settle \/ Pause)
    <3>1. UNCHANGED disk
      BY <2>5 DEF Next, Supervisor, Worker, World, Tool, TurnEnd, QuestionAdd, QuestionCheckpoint,
           SessionEnds, Working, Start, BeginFails, Abort, Crash, WriteFails, Unlock, ReceiptChanges
    <3> QED BY <3>1
  <2> QED BY <2>1, <2>2, <2>3, <2>4, <2>5
<1> QED BY <1>1, QueueInvariant, PTL DEF Spec

LEMMA NextAcknowledged ==
  ASSUME LongRunAssumption, QueueInv, Acknowledged, Next
  PROVE  Acknowledged'
<1> USE SavedSays
<1>1. CASE \E ack \in BOOLEAN : Start(ack)
  <2>1. PICK ack \in BOOLEAN : Start(ack)
    BY <1>1
  <2>2. /\ pc = "down" /\ pc' = "loop" /\ (disk.review \/ disk.status = "running" => ack)
        /\ acked' = IF ack THEN Len(disk.batches) ELSE acked
        /\ run' = [disk EXCEPT !.review = FALSE] /\ unasked' = unasked
    BY <2>1 DEF Start
  <2>3. run'.batches = disk.batches
    BY <2>2, RunWithReview
  <2>4. \A b \in DOMAIN run'.batches : run'.batches[b].status # "finished" => (Covered(b))'
    <3>1. CASE ack
      BY <2>2, <2>3, <3>1 DEF Covered
    <3>2. CASE ~ack
      BY <2>2, <2>3, <3>2 DEF Reviewed, Covered, Acknowledged
    <3> QED BY <3>1, <3>2
  <2> QED BY <2>2, <2>4 DEF Acknowledged, Reviewed
<1>2. CASE LoopTop \/ Next_
  <2>1. Reviewed(run.batches) /\ UNCHANGED history
    BY <1>2 DEF Acknowledged, LoopTop, Next_
  <2>2. \/ UNCHANGED <<run, disk>> /\ pc' \in {"context", "next"}
        \/ pc' = "down" /\ disk'.batches = run.batches
    BY <1>2, QueueEnds
  <2>3. CASE UNCHANGED <<run, disk>> /\ pc' \in {"context", "next"}
    BY <2>1, <2>3 DEF Acknowledged, Reviewed, Covered, history
  <2>4. CASE pc' = "down" /\ disk'.batches = run.batches
    BY <2>1, <2>4 DEF Acknowledged, Reviewed, Covered, history
  <2> QED BY <2>2, <2>3, <2>4
<1>3. CASE Pause
  <2>1. Reviewed(run.batches) /\ UNCHANGED history /\ pc' = "down" /\ disk'.batches = run.batches
    BY <1>3, StopSays DEF Acknowledged, Pause
  <2> QED BY <2>1 DEF Acknowledged, Reviewed, Covered, history
<1>4. CASE Begin
  <2>1. Reviewed(run.batches) /\ UNCHANGED history /\ pc' = "batch" /\ run.batches = disk.batches
    BY <1>4 DEF Acknowledged, Begin, Saved
  <2>2. /\ run'.batches = disk'.batches /\ disk'.status = "running"
        /\ Len(disk'.batches) = Len(disk.batches) + 1
        /\ DOMAIN disk'.batches = 1..(Len(disk.batches) + 1)
        /\ \A b \in DOMAIN disk.batches : disk'.batches[b] = disk.batches[b]
    BY <1>4, BeginSays
  <2>3. \A b \in DOMAIN run'.batches :
          b < Len(run'.batches) => b \in DOMAIN run.batches /\ run'.batches[b] = run.batches[b]
    BY <2>1, <2>2
  <2> QED BY <2>1, <2>2, <2>3 DEF Acknowledged, Reviewed, Covered, history
<1>5. CASE Return
  <2>1. UNCHANGED history /\ pc = "batch" /\ pc' = "settled"
    BY <1>5 DEF Return
  <2>2. /\ Len(run'.batches) = Len(run.batches) /\ DOMAIN run'.batches = DOMAIN run.batches
        /\ \A b \in DOMAIN run.batches : b # Len(run.batches) => run'.batches[b] = run.batches[b]
    BY <1>5, <2>1, ReturnSays DEF Recorded, Saved
  <2>3. \A b \in DOMAIN run.batches :
          b < Len(run.batches) /\ run.batches[b].status # "finished" => Covered(b)
    BY <2>1 DEF Acknowledged
  <2> QED BY <2>1, <2>2, <2>3 DEF Acknowledged, Covered, history
<1>6. CASE Settle
  <2>1. UNCHANGED history /\ pc = "settled"
    BY <1>6 DEF Settle
  <2>2. \A b \in DOMAIN run.batches :
          b < Len(run.batches) /\ run.batches[b].status # "finished" => Covered(b)
    BY <2>1 DEF Acknowledged
  <2> DEFINE d == [run EXCEPT !.review = TRUE]
  <2>3. d \in Record /\ d.review
    <3>1. d \in Record
      BY RunWithReview
    <3> QED BY <3>1 DEF Record
  <2>4. \/ Stop(d)
        \/ run.batches[Batch].status = "finished" /\ Stop(run)
        \/ run.batches[Batch].status = "finished" /\ pc' = "loop" /\ run' = run
    BY <1>6 DEF Settle
  <2> HIDE DEF d
  <2>5. CASE Stop(d)
    <3>1. disk'.review /\ pc' = "down"
      BY <2>3, <2>5, StopSays
    <3> QED BY <3>1 DEF Acknowledged
  <2>6. CASE run.batches[Batch].status = "finished"
    <3>1. Reviewed(run.batches)
      BY <2>2, <2>6 DEF Reviewed, Batch
    <3>2. CASE Stop(run)
      <4>1. disk'.batches = run.batches /\ pc' = "down"
        BY <3>2, StopSays
      <4> QED BY <2>1, <3>1, <4>1 DEF Acknowledged, Reviewed, Covered, history
    <3>3. CASE pc' = "loop" /\ run' = run
      BY <2>1, <3>1, <3>3 DEF Acknowledged, Reviewed, Covered, history
    <3> QED BY <2>4, <2>5, <3>2, <3>3
  <2> QED BY <2>4, <2>5, <2>6
<1>7. CASE Worker \/ BeginFails \/ Abort \/ Unlock
            \/ \E b \in 1..MaxBatches, content \in {0, 2} : ReceiptChanges(b, content)
  <2>1. UNCHANGED <<run, disk, pc, acked, unasked>>
    BY <1>7 DEF Worker, Tool, TurnEnd, QuestionAdd, QuestionCheckpoint, SessionEnds, Working,
            BeginFails, Abort, Unlock, ReceiptChanges, history
  <2> QED BY <2>1 DEF Acknowledged, Reviewed, Covered, history
<1>8. CASE Crash \/ WriteFails
  <2>1. /\ pc # "down" /\ pc' = "down" /\ UNCHANGED <<disk, acked>> /\ unasked' = Unasked
        /\ run.batches = disk.batches
    BY <1>8 DEF Crash, WriteFails, Saved
  <2>2. CASE pc = "batch"
    BY <2>1, <2>2 DEF Acknowledged
  <2>3. CASE pc = "settled"
    <3>1. unasked' = unasked \cup {Len(disk.batches)}
      BY <2>1, <2>3 DEF Unasked, Batch
    <3>2. \A b \in DOMAIN disk.batches :
            b # Len(disk.batches) /\ disk.batches[b].status # "finished" => Covered(b)
      BY <2>1, <2>3 DEF Acknowledged
    <3> QED BY <2>1, <3>1, <3>2 DEF Acknowledged, Reviewed, Covered
  <2>4. CASE pc \in {"loop", "context", "next"}
    <3>1. unasked' = unasked
      BY <2>1, <2>4 DEF Unasked
    <3> QED BY <2>1, <2>4, <3>1 DEF Acknowledged, Reviewed, Covered
  <2>5. pc \in {"down", "loop", "context", "next", "batch", "settled"}
    BY QueueFacts DEF OthersTyped
  <2> QED BY <2>1, <2>2, <2>3, <2>4, <2>5
<1> QED
  BY <1>1, <1>2, <1>3, <1>4, <1>5, <1>6, <1>7, <1>8 DEF Next, Supervisor, World

(* docs/long-investigations.md: an interrupted batch requires reviewing    *)
(* native jobs and receipts and an acknowledgement.  It does over any      *)
(* number of crashes and failed writes, except where the supervisor ends   *)
(* between the two writes that end that batch (long-run.mjs:100-102).      *)
THEOREM UnfinishedBatchesAreReviewed ==
  LongRunAssumption => (Spec => [][ReviewedBeforeNext]_vars)
<1> SUFFICES ASSUME LongRunAssumption PROVE Spec => [][ReviewedBeforeNext]_vars
  OBVIOUS
<1>1. Init => Acknowledged
  BY NewRunIs DEF Init, Acknowledged, Reviewed
<1>2. QueueInv /\ Acknowledged /\ [Next]_vars => Acknowledged'
  <2> SUFFICES ASSUME QueueInv, Acknowledged, [Next]_vars PROVE Acknowledged'
    OBVIOUS
  <2>1. CASE Next
    BY <2>1, NextAcknowledged
  <2>2. CASE UNCHANGED vars
    BY <2>2 DEF vars, history, Acknowledged, Reviewed, Covered
  <2> QED BY <2>1, <2>2
<1>3. Acknowledged /\ [Next]_vars => [ReviewedBeforeNext]_vars
  BY DEF Acknowledged, Reviewed, Covered, ReviewedBeforeNext, Begin
<1> QED BY <1>1, <1>2, <1>3, QueueInvariant, PTL DEF Spec

-----------------------------------------------------------------------------
Ends == {"good", "failed", "timeout", "held", "none"}
Passes == [tool : Tools \cup {None}, image : Tools \cup {0, None},
           run : [end : Ends, output : Outputs \cup {None}]]
Bodies == [status : Helper!Statuses, repeatable : BOOLEAN, passed : BOOLEAN, output : Outputs \cup {None}]

Typed ==
  /\ Helper!TypeOK /\ tool \in Tools /\ language \in {"c17", "python3"}
  /\ hashed \in Tools \cup {None} /\ image \in Tools \cup {0, None}
  /\ stages \in Seq(Passes) /\ body \in Bodies

\* Where the passes stand.
Phases ==
  /\ helperPc = "propose" => sealed = None
  /\ helperPc \in {"propose", "admit", "stage"} => stages = <<>>
  /\ helperPc \in {"hash", "build", "exec"} => Len(stages) <= 1
  /\ helperPc = "judge" /\ Len(stages) = 2 /\ stages[2].run.end = "good" => body.status = "executed"

Interpreted ==
  \A i \in DOMAIN stages : language = "python3" => stages[i].tool = sealed

Claims ==
  /\ helperPc \notin {"check", "published"} => ~body.repeatable /\ ~body.passed
  /\ body.repeatable => Helper!Repeat
  /\ body.passed /\ helperPc \in {"check", "published"} =>
       /\ Helper!Repeat /\ stages[1].run.output = Expected
       /\ body.status = "executed"
  /\ body.passed /\ helperPc = "published" => seen = Pinned

HInv == Typed /\ Phases /\ Interpreted /\ Claims

LEMMA InitHInv == Helper!HelperAssumption /\ Helper!Init => HInv
<1> SUFFICES ASSUME Helper!HelperAssumption, Helper!Init PROVE HInv
  OBVIOUS
<1>1. Typed
  BY DEF Helper!HelperAssumption, Helper!Init, Typed, Helper!TypeOK, Helper!Statuses, Bodies
<1>2. Phases /\ Interpreted /\ Claims
  BY DEF Helper!Init, Phases, Interpreted, Claims
<1> QED BY <1>1, <1>2 DEF HInv

(* A step that leaves the passes and the receipt alone, or refuses. *)
LEMMA QuietKeeps ==
  ASSUME HInv, UNCHANGED <<language, stages, body, seen>>, tool' \in Tools,
         artifact' \in Contents, helperChanges' \in 0..Changes,
         image' \in Tools \cup {0, None}, hashed' \in Tools \cup {None},
         \/ helperPc' = helperPc /\ sealed' = sealed
         \/ helperPc \notin {"check", "published", "judge"} /\ helperPc' = "refused" /\ sealed' = sealed
         \/ /\ <<helperPc, helperPc'>> \in {<<"admit", "stage">>, <<"stage", "hash">>, <<"hash", "build">>,
                                       <<"build", "exec">>}
            /\ sealed' = sealed
         \/ helperPc = "propose" /\ helperPc' \in {"admit", "refused"} /\ sealed' \in Tools \cup {None}
  PROVE  HInv'
<1> USE DEF HInv
<1>1. Typed'
  BY DEF Typed, Helper!TypeOK, Helper!Statuses
<1>2. Phases'
  BY DEF Phases, Typed
<1>3. Interpreted'
  BY DEF Interpreted, Phases
<1>4. Claims'
  BY DEF Claims, Helper!Repeat, Helper!Twice, Helper!Good
<1> QED BY <1>1, <1>2, <1>3, <1>4

LEMMA AppendPass ==
  ASSUME HInv, NEW s \in Passes, stages' = Append(stages, s), Len(stages) <= 1
  PROVE  /\ stages' \in Seq(Passes) /\ Len(stages') <= 2
         /\ DOMAIN stages' = 1..(Len(stages) + 1)
         /\ \A i \in DOMAIN stages : stages'[i] = stages[i]
         /\ stages'[Len(stages) + 1] = s
BY DEF HInv, Typed

LEMMA NextHInv == Helper!HelperAssumption /\ HInv /\ [Helper!Next]_Helper!vars => HInv'
<1> SUFFICES ASSUME Helper!HelperAssumption, HInv, [Helper!Next]_Helper!vars PROVE HInv'
  OBVIOUS
<1> USE DEF Helper!world, Helper!request
<1>1. CASE UNCHANGED Helper!vars
  BY <1>1, QuietKeeps DEF Helper!vars, HInv, Typed, Helper!TypeOK
<1>2. CASE Helper!Change
  <2>1. helperChanges' \in 0..Changes
    BY <1>2 DEF Helper!HelperAssumption, Helper!Change, HInv, Typed, Helper!TypeOK
  <2> QED BY <1>2, <2>1, QuietKeeps DEF Helper!Change, HInv, Typed, Helper!TypeOK
<1>3. CASE Helper!Propose
  BY <1>3, QuietKeeps DEF Helper!Propose, Helper!Seal, Helper!Refuse, HInv, Typed, Helper!TypeOK
<1>4. CASE Helper!Admit
  BY <1>4, QuietKeeps DEF Helper!Admit, Helper!Refuse, HInv, Typed, Helper!TypeOK
<1>5. CASE Helper!Stage
  BY <1>5, QuietKeeps DEF Helper!Stage, Helper!Refuse, HInv, Typed, Helper!TypeOK
<1>6. CASE Helper!HashTools
  BY <1>6, QuietKeeps DEF Helper!HashTools, HInv, Typed, Helper!TypeOK
<1>7. CASE Helper!StageFails
  <2> USE <1>7 DEF Helper!StageFails, HInv
  <2>1. Typed'
    BY DEF Typed, Helper!TypeOK, Helper!Statuses, Bodies
  <2>2. Phases' /\ Interpreted' /\ Claims'
    BY DEF Phases, Interpreted, Claims, Typed, Bodies
  <2> QED BY <2>1, <2>2
<1>8. CASE Helper!Build
  <2>1. CASE helperPc' = "exec"
    <3>1. UNCHANGED <<stages, body>> /\ image' \in Tools \cup {0, None}
      BY <1>8, <2>1 DEF Helper!Build, HInv, Typed
    <3> QED BY <1>8, <2>1, <3>1, QuietKeeps DEF Helper!Build, HInv, Typed, Helper!TypeOK
  <2>2. CASE helperPc' = "judge"
    <3> DEFINE s == [tool |-> hashed, image |-> None, run |-> [end |-> "none", output |-> None]]
    <3>1. /\ language = "c17" /\ helperPc = "build" /\ stages' = Append(stages, s)
          /\ body' = [body EXCEPT !.status = "compile_failed"]
          /\ UNCHANGED <<Helper!world, Helper!request, hashed, image, seen>>
      BY <1>8, <2>2 DEF Helper!Build
    <3>2. s \in Passes /\ Len(stages) <= 1
      BY <3>1 DEF Passes, Ends, HInv, Typed, Phases
    <3> HIDE DEF s
    <3>3. /\ stages' \in Seq(Passes) /\ Len(stages') <= 2 /\ DOMAIN stages' = 1..(Len(stages) + 1)
          /\ stages'[Len(stages) + 1] = s
      BY <3>1, <3>2, AppendPass
    <3>4. Typed'
      BY <2>2, <3>1, <3>3 DEF HInv, Typed, Helper!TypeOK, Helper!Statuses, Bodies
    <3>5. s.run.end = "none"
      BY DEF s
    <3>6. Phases' /\ Interpreted'
      BY <2>2, <3>1, <3>3, <3>5 DEF HInv, Typed, Phases, Interpreted
    <3>7. Claims'
      BY <2>2, <3>1 DEF HInv, Typed, Claims, Bodies
    <3> QED BY <3>4, <3>6, <3>7 DEF HInv
  <2> QED BY <1>8, <2>1, <2>2 DEF Helper!Build
<1>9. CASE Helper!Exec
  <2>1. CASE helperPc' = "refused"
    BY <1>9, <2>1, QuietKeeps DEF Helper!Exec, Helper!OneMore, HInv, Typed, Helper!TypeOK
  <2>2. CASE helperPc' # "refused"
    <3>1. PICK end \in {"good", "failed", "timeout", "held"}, out \in Outputs :
            /\ language = "python3" => hashed = sealed
            /\ stages' = Append(stages, [tool |-> hashed, image |-> image, run |-> [end |-> end, output |-> out]])
            /\ body' = [body EXCEPT !.status = IF end = "good" THEN "executed" ELSE "execution_failed"]
            /\ helperPc' = IF Helper!OneMore THEN "hash" ELSE "judge"
      BY <1>9, <2>2 DEF Helper!Exec
    <3>2. helperPc = "exec" /\ UNCHANGED <<Helper!world, Helper!request, hashed, image, seen>>
      BY <1>9 DEF Helper!Exec
    <3> DEFINE s == [tool |-> hashed, image |-> image, run |-> [end |-> end, output |-> out]]
    <3>3. s \in Passes /\ Len(stages) <= 1 /\ s.tool = hashed /\ s.run.end = end
      BY <3>2 DEF Passes, Ends, HInv, Typed, Phases
    <3>4. stages' = Append(stages, s)
      BY <3>1
    <3> HIDE DEF s
    <3>5. /\ stages' \in Seq(Passes) /\ Len(stages') <= 2 /\ DOMAIN stages' = 1..(Len(stages) + 1)
          /\ \A i \in DOMAIN stages : stages'[i] = stages[i]
          /\ stages'[Len(stages) + 1] = s
      BY <3>3, <3>4, AppendPass
    <3>6. Typed'
      BY <3>1, <3>2, <3>5 DEF HInv, Typed, Helper!TypeOK, Helper!Statuses, Bodies
    <3>7. Interpreted'
      BY <3>1, <3>2, <3>3, <3>5 DEF HInv, Typed, Interpreted
    <3>8. Helper!OneMore => Len(stages') <= 1
      BY <3>4, <3>5 DEF Helper!OneMore, HInv, Typed
    <3>9. Phases'
      BY <3>1, <3>2, <3>3, <3>5, <3>8 DEF HInv, Typed, Phases, Bodies
    <3>10. Claims'
      BY <3>1, <3>2 DEF HInv, Typed, Claims, Bodies
    <3> QED BY <3>6, <3>7, <3>9, <3>10 DEF HInv
  <2> QED BY <2>1, <2>2
<1>10. CASE Helper!Judge
  <2> USE <1>10 DEF Helper!Judge, HInv
  <2>1. Len(stages) = 2 => stages[1] \in Passes
    BY DEF Typed
  <2>2. Helper!Repeat => stages[1].run.output \in Outputs \cup {None}
    BY <2>1 DEF Helper!Repeat, Helper!Twice, Passes
  <2>3. Helper!Repeat \in BOOLEAN
    BY DEF Helper!Repeat
  <2>4. PICK v \in BOOLEAN, o \in Outputs \cup {None}, t \in Helper!Statuses :
          /\ body' = [body EXCEPT !.repeatable = Helper!Repeat, !.output = o, !.passed = v, !.status = t]
          /\ v => Helper!Repeat /\ stages[1].run.output = Expected
          /\ Helper!Repeat => t = body.status
          /\ t # "capability_blocked"
    <3> DEFINE v == Helper!Repeat /\ validation = "artifact_bytes" /\ stages[1].run.output = Expected
               o == IF Helper!Repeat THEN stages[1].run.output ELSE body.output
               t == IF Helper!Twice /\ Helper!Good(stages[1].run) /\ Helper!Good(stages[2].run) /\ ~Helper!Repeat
                    THEN "nonrepeatable" ELSE body.status
    <3>1. v \in BOOLEAN
      OBVIOUS
    <3>2. o \in Outputs \cup {None}
      BY <2>2 DEF Typed, Bodies
    <3>3. t \in Helper!Statuses /\ t # "capability_blocked" /\ (Helper!Repeat => t = body.status)
      BY DEF Typed, Helper!TypeOK, Bodies, Helper!Statuses
    <3> HIDE DEF o, t
    <3>4. body' = [body EXCEPT !.repeatable = Helper!Repeat, !.output = o, !.passed = v, !.status = t]
      BY Zenon DEF o, t
    <3>5. v => Helper!Repeat /\ stages[1].run.output = Expected
      OBVIOUS
    <3> HIDE DEF v
    <3> USE <3>1, <3>2, <3>3
    <3> WITNESS v \in BOOLEAN, o \in Outputs \cup {None}, t \in Helper!Statuses
    <3> QED BY <3>3, <3>4, <3>5
  <2>5. Typed'
    BY <2>3, <2>4 DEF Typed, Helper!TypeOK, Bodies
  <2>6. Interpreted' /\ Phases'
    BY DEF Interpreted, Phases
  <2>7. Helper!Repeat' <=> Helper!Repeat
    BY DEF Helper!Repeat, Helper!Twice, Helper!Good
  <2>8. Helper!Repeat => body.status = "executed"
    BY DEF Helper!Repeat, Helper!Twice, Helper!Good, Phases
  <2>9. /\ body'.repeatable = Helper!Repeat
        /\ body'.passed => Helper!Repeat /\ stages'[1].run.output = Expected /\ body'.status = "executed"
    BY <2>3, <2>4, <2>8 DEF Typed, Bodies
  <2>10. Claims'
    BY <2>7, <2>9 DEF Claims
  <2> QED BY <2>5, <2>6, <2>10
<1>11. CASE Helper!Check
  <2> USE <1>11 DEF Helper!Check, HInv
  <2>1. Typed'
    BY DEF Typed, Helper!TypeOK, Helper!Statuses, Bodies
  <2>2. Phases' /\ Interpreted'
    BY DEF Phases, Interpreted
  <2>3. Helper!Repeat' <=> Helper!Repeat
    BY DEF Helper!Repeat, Helper!Twice, Helper!Good
  <2>4. Claims'
    BY <2>3 DEF Claims, Typed, Bodies
  <2> QED BY <2>1, <2>2, <2>4
<1> QED BY <1>1, <1>2, <1>3, <1>4, <1>5, <1>6, <1>7, <1>8, <1>9, <1>10, <1>11 DEF Helper!Next

THEOREM HInvHolds == ASSUME Helper!HelperAssumption PROVE Helper!Spec => []HInv
<1>1. Helper!Init => HInv
  BY InitHInv
<1>2. HInv /\ [Helper!Next]_Helper!vars => HInv'
  BY NextHInv
<1> QED BY <1>1, <1>2, PTL DEF Helper!Spec

\* What a helper's state is made of (analysis_helper.cpp:452).
THEOREM TypesHold == ASSUME Helper!HelperAssumption PROVE Helper!Spec => []Helper!TypeOK
<1>1. HInv => Helper!TypeOK
  BY DEF HInv, Typed
<1> QED BY <1>1, HInvHolds, PTL

\* A validation that passed was earned by two good runs, over an artifact that
\* was what its pins say (analysis_helper.cpp:497).
THEOREM ValidationHolds == ASSUME Helper!HelperAssumption PROVE Helper!Spec => []Helper!ValidationIsEarned
<1>1. HInv => Helper!ValidationIsEarned
  BY DEF HInv, Claims, Helper!ValidationIsEarned, Helper!Repeat, Helper!Twice, Helper!Good
<1> QED BY <1>1, HInvHolds, PTL

\* The two runs of a repeatable observation are of the same tools
\* (analysis_helper.cpp:489).
THEOREM RepetitionHolds == ASSUME Helper!HelperAssumption PROVE Helper!Spec => []Helper!RepeatedAlike
<1>1. HInv => Helper!RepeatedAlike
  BY DEF HInv, Typed, Claims, Interpreted, Helper!RepeatedAlike, Helper!Repeat, Helper!Twice
<1> QED BY <1>1, HInvHolds, PTL

\* The pin a helper is proposed with is the one it keeps
\* (analysis_helper.cpp:337).
THEOREM SealHolds == ASSUME Helper!HelperAssumption PROVE Helper!Spec => Helper!SealedAtProposal
<1>1. HInv /\ [Helper!Next]_Helper!vars => [Helper!SealKept]_Helper!vars
  <2> SUFFICES ASSUME HInv, Helper!Next, sealed # None PROVE sealed' = sealed
    BY DEF Helper!vars, Helper!request, Helper!SealKept
  <2> QED BY DEF HInv, Phases, Helper!Next, Helper!Change, Helper!Propose, Helper!Admit, Helper!Stage,
                Helper!HashTools, Helper!StageFails, Helper!Build, Helper!Exec, Helper!Judge,
                Helper!Check, Helper!request
<1> QED BY <1>1, HInvHolds, PTL DEF Helper!Spec, Helper!SealedAtProposal
=============================================================================
