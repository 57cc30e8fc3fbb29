----------------------- MODULE ModelControllerProofs -----------------------
(***************************************************************************)
(* The provider is asked by one controller at a time, under the mark of    *)
(* the durable record, and for no generation that the record has not       *)
(* reserved: for any number of controllers, however they crash, stall and  *)
(* take over.  The invariant says why: while a request is out, whoever     *)
(* runs the row found its mark there, and does nothing but report, leave   *)
(* and give the row back as it was.                                        *)
(*                                                                         *)
(* The second part is about resuming.  Every step has one of a few shapes: *)
(* it takes the decision of its controller along, settles it, or makes a   *)
(* new one, and writes the row with it or not at all.  So a generation the *)
(* record knows stays known, and all who may carry its decision out agree  *)
(* on what it pinned and which revision it expects.                        *)
(***************************************************************************)
EXTENDS ModelController, FiniteSetTheorems, TLAPS

USE DEF Reserving, Handles, LeadsTo

Phases == {"ready", "request_inflight", "response_saved", "terminal"}
Marks == {"request_inflight", "terminal"}
Asks == {"call", "transport"}
Ends == {"report", "leave", "closing"}
Works == {"repair", "decide", "propose", "run", "wait", "error", "flow", "step", "visited", "worked"}
Labels == {"idle", "top", "done"} \cup Asks \cup Ends \cup Works
Away == <<"leave", "closing">>
Thens == {Away, <<"leave", "error">>, <<"worked", "error">>}
Records ==
  [phase : Phases, generations : Nat, repairs : Int, compactions : Int, retry : BOOLEAN,
   pending : {"none", "analyze", "function", "reason", "read", "finish"}, expect : Int, pinned : Int,
   bootstrapped : BOOLEAN, next : Int, working : BOOLEAN, visited : BOOLEAN]

Typed ==
  /\ row \in [rec : Records, runner : Controllers \cup {NoOne}]
  /\ my \in [Controllers -> Records]
  /\ pc \in [Controllers -> Labels]
  /\ then \in [Controllers -> Thens]
  /\ left \in Int

Asking(c) == pc[c] \in Asks
Active(c) == pc[c] \notin {"idle", "done"}

Alone == \A c, d \in Controllers : Asking(c) /\ Asking(d) => c = d

Marked ==
  \A c \in Controllers : Asking(c) =>
    /\ row.rec.phase \in Marks
    /\ row.rec.generations = my[c].generations
    /\ my[c].phase = "request_inflight" /\ my[c].generations > 0

\* Who runs the row while another is asking only ends.
Yields ==
  \A c, d \in Controllers : Asking(c) /\ c # d /\ row.runner = d /\ Active(d) =>
    /\ pc[d] \in Ends \cup {"top"} /\ then[d] = Away
    /\ my[d].phase \in Marks /\ my[d].generations = my[c].generations
    /\ pc[d] = "top" => my[d].phase = "terminal"

Final ==
  /\ row.rec.phase = "terminal" => Ended
  /\ \A c \in Controllers : my[c].phase = "terminal" => Ended
  /\ \A c \in Controllers : pc[c] = "idle" => then[c] = Away

Reserved ==
  /\ sent \subseteq 1..row.rec.generations
  /\ \A c \in Controllers : row.runner = c /\ Active(c) =>
       /\ sent \subseteq 1..my[c].generations
       /\ pc[c] = "call" => sent \subseteq 1..(my[c].generations - 1)

MInv == Typed /\ Alone /\ Marked /\ Yields /\ Final /\ Reserved

\* Nobody but c is asking, or c does not run the row.
Free(c) == row.runner = c => \A d \in Controllers : Asking(d) => d = c

LEMMA InitMInv == Init => MInv
<1> SUFFICES ASSUME Init PROVE MInv
  OBVIOUS
<1>1. NewRecord \in Records /\ NewRecord.phase = "ready"
  BY DEF NewRecord, Records, Phases, Nothing
<1>2. Typed
  BY <1>1, ControllerAssumption DEF Init, Typed, Labels, Thens, Away
<1>3. Alone /\ Marked /\ Yields
  BY DEF Init, Alone, Marked, Yields, Asking, Asks
<1>4. Final /\ Reserved
  BY <1>1 DEF Init, Final, Reserved, Active, Away
<1> QED BY <1>2, <1>3, <1>4 DEF MInv

(* What the invariant says of changed fields. *)
LEMMA Fields ==
  ASSUME NEW r \in Records
  PROVE  /\ r.phase \in Phases /\ r.generations \in Nat
         /\ \A x \in Phases : /\ [r EXCEPT !.phase = x] \in Records
                              /\ [r EXCEPT !.phase = x].phase = x
                              /\ [r EXCEPT !.phase = x].generations = r.generations
BY DEF Records

LEMMA Changed ==
  ASSUME NEW r \in Records, NEW k \in {"none", "analyze", "function", "reason", "read", "finish"},
         NEW i \in Int, NEW n \in Nat, NEW b \in BOOLEAN, NEW x \in Phases
  PROVE  /\ [r EXCEPT !.bootstrapped = b, !.pending = k, !.phase = x] \in Records
         /\ [r EXCEPT !.generations = n, !.phase = x] \in Records
         /\ [r EXCEPT !.generations = n, !.phase = x, !.compactions = i] \in Records
         /\ [r EXCEPT !.pending = k, !.expect = i, !.phase = x] \in Records
         /\ [r EXCEPT !.phase = x, !.retry = b] \in Records
         /\ [r EXCEPT !.phase = x, !.repairs = i] \in Records
BY DEF Records, Phases

LEMMA TailChanged ==
  ASSUME NEW r \in Records, NEW k \in {"none", "function"}, NEW x \in Phases,
         NEW i \in Int, NEW m \in Int, NEW n \in Int
  PROVE  [r EXCEPT !.repairs = i, !.pending = k, !.pinned = m, !.expect = n, !.phase = x] \in Records
BY DEF Records, Phases

LEMMA Counted ==
  ASSUME NEW r \in Records, NEW i \in Int
  PROVE  /\ [r EXCEPT !.pinned = i] \in Records
         /\ [r EXCEPT !.next = i] \in Records
         /\ [r EXCEPT !.repairs = i] \in Records
         /\ [r EXCEPT !.working = TRUE] \in Records
         /\ [r EXCEPT !.visited = TRUE] \in Records
BY DEF Records

(* A step of a controller that does not ask, while nobody else asks under  *)
(* its row: it keeps a copy, writes it if it may, and goes on.             *)
LEMMA FreeStep ==
  ASSUME MInv, NEW c \in Controllers, Active(c), Free(c),
         NEW rec \in Records, NEW l \in Labels \ (Asks \cup {"idle"}), NEW t \in Thens,
         pc' = [pc EXCEPT ![c] = l], my' = [my EXCEPT ![c] = rec], then' = [then EXCEPT ![c] = t],
         \/ row' = row
         \/ row.runner = c /\ row' = [row EXCEPT !.rec = rec],
         rec.phase = "terminal" => my[c].phase = "terminal",
         row.runner = c => sent \subseteq 1..rec.generations,
         inv' = inv \/ inv' = "ended" \/ inv' = "cancelled",
         sent' = sent, left' \in Int
  PROVE  MInv'
<1> USE DEF MInv, Typed
<1>1. Typed'
  BY DEF Labels
<1>2. /\ pc'[c] = l /\ my'[c] = rec /\ then'[c] = t /\ l \notin Asks
      /\ \A d \in Controllers : d # c => pc'[d] = pc[d] /\ my'[d] = my[d] /\ then'[d] = then[d]
  OBVIOUS
<1>3. \A d \in Controllers : Asking(d)' => d # c /\ Asking(d) /\ row' = row
  BY <1>2, ControllerAssumption DEF Asking, Free
<1>4. row'.runner = row.runner /\ (row'.rec = row.rec \/ (row.runner = c /\ row'.rec = rec))
  <2>1. row \in [rec : Records, runner : Controllers \cup {NoOne}]
    OBVIOUS
  <2> HIDE DEF MInv, Typed
  <2>2. CASE row' = row
    BY <2>2
  <2>3. CASE row.runner = c /\ row' = [row EXCEPT !.rec = rec]
    BY <2>1, <2>3
  <2> QED BY <2>2, <2>3
<1>5. Alone' /\ Marked'
  BY <1>2, <1>3 DEF Alone, Marked
<1>6. Yields'
  <2> SUFFICES ASSUME NEW a \in Controllers, NEW d \in Controllers,
                      Asking(a)', a # d, row'.runner = d, Active(d)'
               PROVE  /\ pc'[d] \in Ends \cup {"top"} /\ then'[d] = Away
                      /\ my'[d].phase \in Marks /\ my'[d].generations = my'[a].generations
                      /\ pc'[d] = "top" => my'[d].phase = "terminal"
    BY DEF Yields
  <2>1. a # c /\ Asking(a) /\ row.runner = d
    BY <1>3, <1>4
  <2>2. d # c
    BY <2>1 DEF Free
  <2>3. Active(d)
    BY <1>2, <2>2 DEF Active
  <2> HIDE DEF MInv
  <2>4. Yields
    BY DEF MInv
  <2> QED BY <1>2, <2>1, <2>2, <2>3, <2>4 DEF Yields
<1>7. Ended => Ended'
  BY DEF Ended
<1>8. Final'
  BY <1>2, <1>4, <1>7 DEF Final
<1>9. Reserved'
  BY <1>2, <1>4 DEF Reserved, Active, Asks
<1> QED BY <1>1, <1>5, <1>6, <1>8, <1>9

(* While another is asking, what runs the row only ends. *)
LEMMA WorkIsFree ==
  ASSUME MInv, NEW c \in Controllers, pc[c] \in Works \cup Asks
  PROVE  Free(c) /\ Active(c)
BY DEF MInv, Alone, Yields, Free, Active, Asking, Asks, Works, Ends

LEMMA TopIsFree ==
  ASSUME MInv, NEW c \in Controllers, TopGoes(c)
  PROVE  Free(c) /\ Active(c)
BY DEF MInv, Yields, Final, TopGoes, Free, Active, Ended, Asks, Ends

LEMMA GoingIs ==
  ASSUME MInv, NEW c \in Controllers
  PROVE  /\ Going(c) \in Records /\ my[c] \in Records
         /\ Going(c).phase = my[c].phase /\ Going(c).generations = my[c].generations
         /\ Going(c).repairs = my[c].repairs
BY DEF MInv, Typed, Going, Records

Calm == Labels \ (Asks \cup {"idle"})

LEMMA RunnerReserved ==
  ASSUME MInv, NEW c \in Controllers, Active(c), row.runner = c
  PROVE  sent \subseteq 1..my[c].generations
BY DEF MInv, Reserved

(* A free controller saves a changed copy. *)
LEMMA FreeSave ==
  ASSUME MInv, NEW c \in Controllers, Active(c), Free(c),
         NEW rec \in Records, NEW good \in Calm, NEW bad \in Calm, NEW t \in Thens,
         Save(c, rec, good, bad), then' = [then EXCEPT ![c] = t],
         rec.phase = "terminal" => my[c].phase = "terminal",
         row.runner = c => sent \subseteq 1..rec.generations,
         inv' = inv, sent' = sent, left' = left
  PROVE  MInv'
<1>1. left' \in Int
  BY DEF MInv, Typed
<1>2. CASE row.runner = c /\ row' = [row EXCEPT !.rec = rec] /\ Goto(c, good)
  BY <1>1, <1>2, FreeStep DEF Save, Keep, Goto, Calm
<1>3. CASE Goto(c, bad) /\ row' = row
  BY <1>1, <1>3, FreeStep DEF Save, Keep, Goto, Calm
<1> QED BY <1>2, <1>3 DEF Save

(* A free controller goes on with the copy it has. *)
LEMMA FreeGoto ==
  ASSUME MInv, NEW c \in Controllers, Active(c), Free(c),
         NEW l \in Calm, Goto(c, l), NEW t \in Thens, then' = [then EXCEPT ![c] = t],
         row' = row, my' = my, sent' = sent, left' \in Int,
         inv' = inv \/ inv' = "ended" \/ inv' = "cancelled"
  PROVE  MInv'
<1>1. my[c] \in Records /\ my' = [my EXCEPT ![c] = my[c]]
  BY DEF MInv, Typed
<1>2. row.runner = c => sent \subseteq 1..my[c].generations
  BY RunnerReserved
<1> QED BY <1>1, <1>2, FreeStep DEF Goto, Calm

LEMMA ThenIs ==
  ASSUME MInv, NEW c \in Controllers
  PROVE  /\ then[c] \in Thens /\ Away \in Thens
         /\ then' = then => then' = [then EXCEPT ![c] = then[c]]
         /\ my[c] \in Records /\ left \in Int
BY DEF MInv, Typed, Thens

(* What only ends does no harm while another is asking. *)
LEMMA EndStep ==
  ASSUME MInv, NEW c \in Controllers, pc[c] \in Ends \cup {"top"},
         NEW l \in {"leave", "closing"}, Goto(c, l),
         UNCHANGED <<row, my, then, sent, left>>,
         inv' = inv \/ inv' = "ended" \/ inv' = "cancelled"
  PROVE  MInv'
<1> USE DEF Goto
<1>1. Typed'
  BY DEF MInv, Typed, Labels, Ends
<1>2. /\ pc'[c] = l /\ l \in Ends /\ l # "top"
      /\ \A d \in Controllers : d # c => pc'[d] = pc[d]
  BY DEF MInv, Typed, Ends
<1>3. \A d \in Controllers : Asking(d)' <=> Asking(d)
  BY <1>2 DEF Asking, Asks, Ends
<1>4. \A d \in Controllers : Active(d)' <=> Active(d)
  BY <1>2 DEF Active, Ends
<1>5. Alone' /\ Marked'
  BY <1>3 DEF MInv, Alone, Marked
<1>6. Yields'
  BY <1>2, <1>3, <1>4 DEF MInv, Yields
<1>7. Final'
  BY <1>2 DEF MInv, Final, Ended, Ends
<1>8. Reserved'
  BY <1>2, <1>4 DEF MInv, Reserved, Ends
<1> QED BY <1>1, <1>5, <1>6, <1>7, <1>8 DEF MInv

-----------------------------------------------------------------------------
(* The head of the loop. *)

LEMMA HeadKeeps ==
  ASSUME MInv, NEW c \in Controllers, Bootstrap(c) \/ Resume(c) \/ Exhausted(c)
  PROVE  MInv'
<1> USE ThenIs, GoingIs, RunnerReserved DEF ghost, store
<1>1. TopGoes(c) /\ Free(c) /\ Active(c)
  BY TopIsFree DEF Bootstrap, Resume, Exhausted
<1>2. {"decide", "closing", "report"} \subseteq Calm
  BY DEF Calm, Labels, Asks, Ends, Works
<1>3. CASE Bootstrap(c)
  <2> DEFINE rec == [Going(c) EXCEPT !.bootstrapped = TRUE, !.pending = "analyze",
                                     !.phase = "response_saved"]
  <2>1. rec \in Records /\ rec.phase = "response_saved" /\ rec.generations = my[c].generations
    <3>1. "response_saved" \in Phases /\ "analyze" \in {"none", "analyze", "function", "reason", "read", "finish"}
      BY DEF Phases
    <3>2. rec \in Records
      BY <3>1, Changed
    <3> QED BY <3>2 DEF Records
  <2>2. Save(c, rec, "decide", "closing") /\ then' = [then EXCEPT ![c] = then[c]]
    BY <1>3 DEF Bootstrap
  <2> QED BY <1>1, <1>2, <1>3, <2>1, <2>2, FreeSave DEF Bootstrap
<1>4. CASE Resume(c)
  <2>1. then' = [then EXCEPT ![c] = then[c]]
    BY <1>4 DEF Resume, local
  <2> QED BY <1>1, <1>2, <1>4, <2>1, FreeStep DEF Resume, Keep, Goto, Calm
<1>5. CASE Exhausted(c)
  BY <1>1, <1>2, <1>5, FreeStep DEF Exhausted, Keep, Goto, Calm, Away
<1> QED BY <1>3, <1>4, <1>5

(* The runner's reservation: from here its mark is in the record. *)
LEMMA ReserveKeeps ==
  ASSUME MInv, NEW c \in Controllers, Reserve(c)
  PROVE  MInv'
<1> DEFINE rec == [Going(c) EXCEPT !.generations = @ + 1, !.phase = "request_inflight"]
<1> USE ThenIs, GoingIs, RunnerReserved DEF ghost
<1>1. TopGoes(c) /\ Free(c) /\ Active(c)
  BY TopIsFree DEF Reserve
<1>2. /\ rec \in Records /\ rec.phase = "request_inflight"
      /\ rec.generations = my[c].generations + 1 /\ my[c].generations \in Nat
  <2> DEFINE n == Going(c).generations + 1
  <2>1. n \in Nat /\ "request_inflight" \in Phases
    BY DEF Records, Phases
  <2> HIDE DEF n
  <2>2. [Going(c) EXCEPT !.generations = n, !.phase = "request_inflight"] \in Records
    BY <2>1, Changed
  <2>3. rec \in Records
    BY <2>2 DEF n
  <2> QED BY <2>3 DEF Records
<1>3. Save(c, rec, "call", "closing") /\ then' = then /\ inv' = inv /\ sent' = sent /\ left' = left
  BY DEF Reserve
<1>4. pc[c] = "top" /\ ~Asking(c)
  BY <1>1 DEF TopGoes, Asking, Asks
<1> HIDE DEF rec
<1>5. CASE Goto(c, "closing") /\ UNCHANGED <<row, late>>
  <2>1. row.runner = c => sent \subseteq 1..rec.generations
    BY <1>1, <1>2
  <2>2. "closing" \in Labels \ (Asks \cup {"idle"})
    BY DEF Labels, Asks, Ends
  <2> QED BY <1>1, <1>2, <1>3, <1>5, <2>1, <2>2, FreeStep DEF Save, Keep, Goto
<1>6. CASE row.runner = c /\ row' = [row EXCEPT !.rec = rec] /\ Goto(c, "call")
  <2>1. my' = [my EXCEPT ![c] = rec] /\ pc' = [pc EXCEPT ![c] = "call"]
    BY <1>3, <1>6 DEF Save, Keep, Goto
  <2>2. /\ row \in [rec : Records, runner : Controllers \cup {NoOne}]
        /\ my \in [Controllers -> Records] /\ pc \in [Controllers -> Labels]
    BY DEF MInv, Typed
  <2>3. row'.runner = c /\ row'.rec = rec
    BY <1>6, <2>2
  <2>4. /\ my'[c] = rec /\ pc'[c] = "call"
        /\ \A d \in Controllers : d # c => my'[d] = my[d] /\ pc'[d] = pc[d]
    BY <2>1, <2>2
  <2>5. \A d \in Controllers : Asking(d)' <=> d = c
    BY <1>1, <1>4, <1>6, <2>4 DEF Free, Asking, Asks
  <2>6. Typed'
    BY <1>2, <1>3, <1>6, <2>1, <2>2 DEF MInv, Typed, Labels, Asks
  <2>7. Alone' /\ Yields'
    BY <2>3, <2>5 DEF Alone, Yields
  <2>8. Marked'
    BY <1>2, <2>3, <2>4, <2>5 DEF Marked, Marks
  <2>9. Final'
    BY <1>2, <1>3, <2>3, <2>4 DEF MInv, Final, Ended
  <2>10. sent \subseteq 1..my[c].generations
    BY <1>1, <1>6
  <2>11. sent \subseteq 1..rec.generations /\ sent \subseteq 1..(rec.generations - 1)
    BY <1>2, <2>10
  <2>12. Reserved'
    BY <1>3, <2>3, <2>4, <2>11 DEF Reserved
  <2> QED BY <2>6, <2>7, <2>8, <2>9, <2>12 DEF MInv
<1> QED BY <1>3, <1>5, <1>6 DEF Save

-----------------------------------------------------------------------------
(* A request. *)

LEMMA SendKeeps ==
  ASSUME MInv, NEW c \in Controllers, Send(c)
  PROVE  MInv'
<1>1. pc[c] = "call" /\ pc' = [pc EXCEPT ![c] = "transport"] /\ sent' = sent \cup {my[c].generations}
  BY DEF Send, Goto
<1>2. UNCHANGED <<row, my, then, left, inv>>
  BY DEF Send, store
<1>3. Typed'
  BY <1>1, <1>2 DEF MInv, Typed, Labels, Asks
<1>4. pc'[c] = "transport" /\ \A d \in Controllers : d # c => pc'[d] = pc[d]
  BY <1>1 DEF MInv, Typed
<1>5. \A d \in Controllers : (Asking(d)' <=> Asking(d)) /\ (Active(d)' <=> Active(d))
  BY <1>1, <1>4 DEF Asking, Active, Asks
<1>6. Alone' /\ Marked'
  BY <1>2, <1>5 DEF MInv, Alone, Marked
<1>7. Yields'
  <2> SUFFICES ASSUME NEW a \in Controllers, NEW d \in Controllers,
                      Asking(a)', a # d, row'.runner = d, Active(d)'
               PROVE  /\ pc'[d] \in Ends \cup {"top"} /\ then'[d] = Away
                      /\ my'[d].phase \in Marks /\ my'[d].generations = my'[a].generations
                      /\ pc'[d] = "top" => my'[d].phase = "terminal"
    BY DEF Yields
  <2>1. Asking(a) /\ row.runner = d /\ Active(d) /\ Asking(c)
    BY <1>1, <1>2, <1>5 DEF Asking, Asks
  <2>2. d # c
    BY <2>1 DEF MInv, Alone
  <2> QED BY <1>2, <1>4, <2>1, <2>2 DEF MInv, Yields
<1>8. Final'
  BY <1>2, <1>4 DEF MInv, Final, Ended
<1>9. Reserved'
  <2>1. Asking(c) /\ row.rec.generations = my[c].generations /\ my[c].generations \in Nat \ {0}
    BY <1>1 DEF MInv, Marked, Asking, Asks, Typed, Records
  <2>2. sent' \subseteq 1..row'.rec.generations
    <3>1. sent \subseteq 1..my[c].generations /\ my[c].generations \in 1..my[c].generations
      BY <2>1 DEF MInv, Reserved
    <3> QED BY <1>1, <1>2, <2>1, <3>1
  <2>3. ASSUME NEW d \in Controllers, row'.runner = d, Active(d)'
        PROVE  sent' \subseteq 1..my'[d].generations /\ pc'[d] # "call"
    <3>1. row.runner = d /\ Active(d)
      BY <1>2, <1>5, <2>3
    <3>2. my[d].generations = my[c].generations /\ pc'[d] # "call"
      BY <1>4, <2>1, <3>1 DEF MInv, Yields, Ends
    <3> QED BY <1>2, <2>1, <2>2, <3>2
  <2> QED BY <2>2, <2>3 DEF Reserved
<1> QED BY <1>3, <1>6, <1>7, <1>8, <1>9 DEF MInv

LEMMA CalmLabels ==
  Works \cup Ends \cup {"top"} \subseteq Calm
BY DEF Calm, Labels, Asks, Ends, Works

(* An unsent request gives its generation back: the invariant knows that   *)
(* it was not sent.                                                        *)
LEMMA RefundKeeps ==
  ASSUME MInv, NEW c \in Controllers, Refund(c)
  PROVE  MInv'
<1> DEFINE rec == [my[c] EXCEPT !.generations = @ - 1, !.phase = "ready", !.compactions = @ + 1]
           good == IF my[c].compactions >= MaxCompactions THEN "report" ELSE "top"
           n == my[c].generations - 1
           i == my[c].compactions + 1
<1> USE ThenIs DEF ghost
<1>1. Free(c) /\ Active(c)
  BY WorkIsFree DEF Refund, Asks
<1>2. my[c].generations > 0
  BY DEF Refund, MInv, Marked, Asking, Asks
<1>3. n \in Nat /\ i \in Int /\ "ready" \in Phases
  BY <1>2 DEF Records, Phases
<1>4. [my[c] EXCEPT !.generations = n, !.phase = "ready", !.compactions = i] \in Records
  <2> HIDE DEF n, i
  <2> QED BY <1>3, Changed
<1>5. rec \in Records /\ rec.phase = "ready" /\ rec.generations = n
  BY <1>4 DEF Records
<1>6. row.runner = c => sent \subseteq 1..rec.generations
  BY <1>1, <1>5 DEF MInv, Reserved, Refund
<1>7. good \in Calm /\ "closing" \in Calm
  BY CalmLabels DEF Ends
<1> QED BY <1>1, <1>5, <1>6, <1>7, FreeSave DEF Refund, Away

(* The answer, the error or the silence of the provider. *)
LEMMA AnswerKeeps ==
  ASSUME MInv, NEW c \in Controllers,
         \/ SendCancelled(c) \/ Refuse(c) \/ RateLimit(c) \/ TransportFails(c) \/ Repair(c)
         \/ \E kind \in Kinds, expect \in 0..MaxGenerations : Respond(c, kind, expect)
  PROVE  MInv'
<1> USE ThenIs, RunnerReserved, CalmLabels DEF ghost, store, Ends
<1>1. Free(c) /\ Active(c)
  BY WorkIsFree DEF SendCancelled, Refuse, RateLimit, TransportFails, Repair, Respond, Asks,
     Works
<1>2. "ready" \in Phases /\ "response_saved" \in Phases
  BY DEF Phases
<1>3. CASE SendCancelled(c)
  BY <1>1, <1>3, FreeGoto DEF SendCancelled
<1>4. CASE Refuse(c)
  BY <1>1, <1>4, FreeGoto DEF Refuse, Works
<1>5. CASE RateLimit(c)
  <2> DEFINE rec == [my[c] EXCEPT !.phase = "ready", !.retry = TRUE]
  <2>1. rec \in Records
    BY <1>2, Changed
  <2>2. rec.phase = "ready" /\ rec.generations = my[c].generations
    BY DEF Records
  <2> QED BY <1>1, <1>5, <2>1, <2>2, FreeSave DEF RateLimit
<1>6. CASE TransportFails(c)
  <2> DEFINE rec == [my[c] EXCEPT !.phase = "ready"]
  <2>1. rec \in Records /\ rec.phase = "ready" /\ rec.generations = my[c].generations
    BY <1>2, Fields
  <2>2. CASE cancelled[c]
    BY <1>1, <1>6, <2>2, FreeGoto DEF TransportFails
  <2>3. CASE ~cancelled[c]
    BY <1>1, <1>6, <2>1, <2>3, FreeSave DEF TransportFails, Away
  <2> QED BY <2>2, <2>3
<1>7. CASE Repair(c)
  <2> DEFINE rec == [my[c] EXCEPT !.phase = "ready", !.repairs = @ + 1]
             i == my[c].repairs + 1
             good == IF my[c].repairs >= MaxRepairs THEN "report" ELSE "top"
  <2>1. i \in Int
    BY DEF Records
  <2>2. [my[c] EXCEPT !.phase = "ready", !.repairs = i] \in Records
    <3> HIDE DEF i
    <3> QED BY <1>2, <2>1, Changed
  <2>3. rec \in Records /\ rec.phase = "ready" /\ rec.generations = my[c].generations
    BY <2>2 DEF Records
  <2>4. CASE cancelled[c]
    BY <1>1, <1>7, <2>4, FreeGoto DEF Repair
  <2>5. CASE ~cancelled[c]
    <3>1. good \in Calm
      OBVIOUS
    <3>2. Save(c, rec, good, "closing") /\ then' = [then EXCEPT ![c] = Away]
      BY <1>7, <2>5 DEF Repair, Away
    <3> QED BY <1>1, <1>7, <2>3, <3>1, <3>2, FreeSave DEF Repair
  <2> QED BY <2>4, <2>5
<1>8. CASE \E kind \in Kinds, expect \in 0..MaxGenerations : Respond(c, kind, expect)
  <2>1. PICK kind \in Kinds, expect \in 0..MaxGenerations : Respond(c, kind, expect)
    BY <1>8
  <2> DEFINE rec == [my[c] EXCEPT !.pending = kind, !.expect = expect, !.phase = "response_saved"]
  <2>2. kind \in {"none", "analyze", "function", "reason", "read", "finish"} /\ expect \in Int
    BY ControllerAssumption
  <2>3. rec \in Records
    BY <1>2, <2>2, Changed
  <2>4. rec.phase = "response_saved" /\ rec.generations = my[c].generations
    BY DEF Records
  <2> QED BY <1>1, <2>1, <2>3, <2>4, FreeSave DEF Respond, Works
<1> QED BY <1>3, <1>4, <1>5, <1>6, <1>7, <1>8

-----------------------------------------------------------------------------
(* Carrying a decision out. *)

LEMMA WorkKeeps ==
  ASSUME MInv, NEW c \in Controllers,
         \/ DecisionThrows(c) \/ Prepare(c) \/ FlowBegins(c) \/ FlowGoes(c) \/ Wait(c) \/ FlowStep(c)
  PROVE  MInv'
<1> USE ThenIs, RunnerReserved, CalmLabels DEF ghost, store, Works
<1>1. Free(c) /\ Active(c)
  BY WorkIsFree DEF DecisionThrows, Prepare, FlowBegins, FlowGoes, Wait, FlowStep
<1>2. CASE DecisionThrows(c)
  <2> DEFINE rec == [my[c] EXCEPT !.next = FlowSteps]
  <2>0. FlowSteps \in Int
    BY ControllerAssumption
  <2>1. rec \in Records
    BY <2>0, Counted
  <2>2. rec.phase = my[c].phase /\ rec.generations = my[c].generations
    BY DEF Records
  <2>3. CASE my[c].pending = "function" /\ pc[c] # "decide"
    BY <1>1, <1>2, <2>1, <2>2, <2>3, FreeSave DEF DecisionThrows
  <2>4. CASE ~(my[c].pending = "function" /\ pc[c] # "decide")
    BY <1>1, <1>2, <2>4, FreeGoto DEF DecisionThrows
  <2> QED BY <2>3, <2>4
<1>3. CASE Prepare(c)
  <2> DEFINE fit == IF left < Ask THEN left ELSE Ask
             pin == IF my[c].pinned = 0 THEN Ask ELSE my[c].pinned
  <2>1. fit \in Int /\ pin \in Int
    BY ControllerAssumption DEF Records
  <2>2. CASE my[c].pinned = 0 /\ Recipe = "general"
    <3> DEFINE rec == [my[c] EXCEPT !.pinned = fit]
    <3>1. rec \in Records
      <4> HIDE DEF fit
      <4> QED BY <2>1, Counted
    <3>2. rec.phase = my[c].phase /\ rec.generations = my[c].generations
      BY DEF Records
    <3>3. Save(c, rec, "propose", "error")
      BY <1>3, <2>2 DEF Prepare
    <3>4. then' = [then EXCEPT ![c] = then[c]] /\ inv' = inv /\ sent' = sent /\ left' = left
      BY <1>3 DEF Prepare
    <3> HIDE DEF rec
    <3> QED BY <1>1, <3>1, <3>2, <3>3, <3>4, FreeSave
  <2>3. CASE ~(my[c].pinned = 0 /\ Recipe = "general")
    <3> DEFINE rec == [my[c] EXCEPT !.pinned = pin]
    <3>1. rec \in Records
      <4> HIDE DEF pin
      <4> QED BY <2>1, Counted
    <3>2. rec.phase = my[c].phase /\ rec.generations = my[c].generations
      BY DEF Records
    <3>3. my' = [my EXCEPT ![c] = rec]
      BY <1>3, <2>3 DEF Prepare, Keep
    <3>4. /\ pc' = [pc EXCEPT ![c] = "propose"] /\ row' = row /\ then' = [then EXCEPT ![c] = then[c]]
          /\ inv' = inv /\ sent' = sent /\ left' = left
      BY <1>3, <2>3 DEF Prepare, Goto
    <3> HIDE DEF rec
    <3> QED BY <1>1, <3>1, <3>2, <3>3, <3>4, FreeStep DEF Calm
  <2> QED BY <2>2, <2>3
<1>4. CASE FlowBegins(c)
  <2> DEFINE rec == [my[c] EXCEPT !.working = TRUE]
  <2>1. rec \in Records
    BY Counted
  <2>2. rec.phase = my[c].phase /\ rec.generations = my[c].generations
    BY DEF Records
  <2>3. CASE then' = [then EXCEPT ![c] = <<"leave", "error">>] /\ Goto(c, "report") /\ UNCHANGED <<row, late, my>>
    BY <1>1, <1>4, <2>3, FreeGoto DEF FlowBegins, Ends, Thens
  <2>4. CASE Save(c, rec, "flow", "error") /\ then' = then
    BY <1>1, <1>4, <2>1, <2>2, <2>4, FreeSave DEF FlowBegins
  <2> QED BY <1>4, <2>3, <2>4 DEF FlowBegins
<1>5. CASE FlowGoes(c)
  BY <1>1, <1>5, FreeGoto DEF FlowGoes
<1>6. CASE Wait(c)
  <2>1. my' = [my EXCEPT ![c] = my[c]]
    BY <1>6 DEF MInv, Typed, Wait
  <2> QED BY <1>1, <1>6, <2>1, FreeStep DEF Wait, Goto, Calm, Ends
<1>7. CASE FlowStep(c)
  <2> DEFINE rec == [my[c] EXCEPT !.next = @ + 1]
             i == my[c].next + 1
  <2>1. i \in Int
    BY DEF Records
  <2>2. [my[c] EXCEPT !.next = i] \in Records
    <3> HIDE DEF i
    <3> QED BY <2>1, Counted
  <2>3. rec \in Records /\ rec.phase = my[c].phase /\ rec.generations = my[c].generations
    BY <2>2 DEF Records
  <2> QED BY <1>1, <1>7, <2>3, FreeSave DEF FlowStep
<1> QED BY <1>2, <1>3, <1>4, <1>5, <1>6, <1>7

LEMMA ActionKeeps ==
  ASSUME MInv, NEW c \in Controllers,
         Propose(c) \/ Run(c) \/ FlowEnds(c) \/ Reason(c) \/ Read(c) \/ Conclude(c)
  PROVE  MInv'
<1> USE ThenIs, RunnerReserved, CalmLabels DEF ghost, store, Works
<1>1. Free(c) /\ Active(c)
  BY WorkIsFree DEF Propose, Run, FlowEnds, Reason, Read, Conclude
<1>2. CASE Propose(c)
  <2>1. left' \in Int
    BY <1>2, ControllerAssumption DEF Propose, CostOf, Records
  <2> QED BY <1>1, <1>2, <2>1, FreeGoto DEF Propose
<1>3. CASE Run(c)
  BY <1>1, <1>3, FreeGoto DEF Run
<1>4. CASE FlowEnds(c)
  <2> DEFINE rec == [my[c] EXCEPT !.visited = TRUE]
  <2>1. rec \in Records
    BY Counted
  <2>2. rec.phase = my[c].phase /\ rec.generations = my[c].generations
    BY DEF Records
  <2>3. /\ my' = [my EXCEPT ![c] = rec] /\ row' = row /\ inv' = inv /\ sent' = sent /\ left' = left
    BY <1>4 DEF FlowEnds, Keep
  <2>4. PICK l \in {"worked", "report"}, t \in Thens :
          pc' = [pc EXCEPT ![c] = l] /\ then' = [then EXCEPT ![c] = t]
    BY <1>4 DEF FlowEnds, Goto, Thens
  <2> HIDE DEF rec
  <2> QED BY <1>1, <2>1, <2>2, <2>3, <2>4, FreeStep DEF Calm, Ends
<1>5. CASE Reason(c)
  BY <1>1, <1>5, FreeGoto DEF Reason
<1>6. CASE Read(c)
  BY <1>1, <1>6, FreeGoto DEF Read
<1>7. CASE Conclude(c)
  BY <1>1, <1>7, FreeGoto DEF Conclude, Ends, Thens
<1> QED BY <1>2, <1>3, <1>4, <1>5, <1>6, <1>7

LEMMA TailKeeps ==
  ASSUME MInv, NEW c \in Controllers, Error(c) \/ Worked(c)
  PROVE  MInv'
<1> USE ThenIs, RunnerReserved, CalmLabels DEF ghost, store, Works
<1>1. Free(c) /\ Active(c)
  BY WorkIsFree DEF Error, Worked
<1>2. ASSUME NEW n \in Int, Tail(c, n), then' = then, inv' = inv, sent' = sent, left' = left
      PROVE  MInv'
  <2>1. PICK chain \in {"none", "function"} :
          Save(c, [my[c] EXCEPT !.repairs = n, !.pending = chain, !.pinned = 0, !.expect = 0,
                                !.phase = IF chain = Nothing THEN "ready" ELSE "response_saved"],
               "top", "closing")
    BY <1>2 DEF Tail, Nothing
  <2> DEFINE p == IF chain = Nothing THEN "ready" ELSE "response_saved"
             rec == [my[c] EXCEPT !.repairs = n, !.pending = chain, !.pinned = 0, !.expect = 0,
                                  !.phase = p]
  <2>2. p \in Phases /\ p # "terminal"
    BY DEF Phases
  <2>3. Save(c, rec, "top", "closing")
    BY <2>1
  <2> HIDE DEF p
  <2>6. rec \in Records
    <3> DEFINE nil == 0
    <3>1. nil \in Int
      OBVIOUS
    <3> HIDE DEF nil
    <3>2. [my[c] EXCEPT !.repairs = n, !.pending = chain, !.pinned = nil, !.expect = nil, !.phase = p]
            \in Records
      BY <2>2, <3>1, TailChanged
    <3> QED BY <3>2 DEF nil
  <2>4. rec \in Records /\ rec.phase = p /\ rec.generations = my[c].generations
    BY <2>6 DEF Records
  <2>5. then' = [then EXCEPT ![c] = then[c]]
    BY <1>2
  <2> HIDE DEF rec
  <2> QED BY <1>1, <1>2, <2>2, <2>3, <2>4, <2>5, FreeSave DEF Ends
<1>3. CASE Worked(c)
  BY <1>2, <1>3 DEF Worked
<1>4. CASE Error(c)
  <2> DEFINE rec == [my[c] EXCEPT !.repairs = @ + 1]
             i == my[c].repairs + 1
  <2>1. i \in Int
    BY DEF Records
  <2>2. CASE my[c].repairs >= MaxRepairs
    <3>1. [my[c] EXCEPT !.repairs = i] \in Records
      <4> HIDE DEF i
      <4> QED BY <2>1, Counted
    <3>2. rec \in Records /\ rec.phase = my[c].phase /\ rec.generations = my[c].generations
      BY <3>1 DEF Records
    <3>3. /\ my' = [my EXCEPT ![c] = rec] /\ pc' = [pc EXCEPT ![c] = "report"] /\ row' = row
          /\ then' = [then EXCEPT ![c] = Away] /\ inv' = inv /\ sent' = sent /\ left' = left
      BY <1>4, <2>2 DEF Error, Keep, Goto, Away
    <3> HIDE DEF rec
    <3> QED BY <1>1, <3>2, <3>3, FreeStep DEF Calm, Ends
  <2>3. CASE ~(my[c].repairs >= MaxRepairs)
    BY <1>2, <1>4, <2>1, <2>3 DEF Error
  <2> QED BY <2>2, <2>3
<1> QED BY <1>3, <1>4

-----------------------------------------------------------------------------
(* Ending, and giving the row back. *)

LEMMA EndsKeep ==
  ASSUME MInv, NEW c \in Controllers, TopStops(c) \/ Report(c) \/ Leave(c)
  PROVE  MInv'
<1> USE DEF ghost, store
<1>1. CASE TopStops(c)
  BY <1>1, EndStep DEF TopStops
<1>2. CASE Leave(c)
  BY <1>2, EndStep DEF Leave, Ends
<1>3. CASE Report(c)
  <2>1. PICK l \in {then[c][1], then[c][2]} :
          Goto(c, l) /\ (inv' = inv \/ inv' = "ended")
    BY <1>3 DEF Report
  <2>2. CASE then[c] = Away
    BY <1>3, <2>1, <2>2, EndStep DEF Report, Away, Ends
  <2>3. CASE then[c] # Away
    <3>1. Free(c) /\ Active(c)
      BY <1>3, <2>3 DEF Report, MInv, Yields, Free, Active
    <3>2. l \in Calm
      <4>1. then[c] \in Thens
        BY ThenIs
      <4>2. l \in {"leave", "closing", "error", "worked"}
        BY <2>1, <4>1 DEF Thens, Away
      <4> QED BY <4>2, CalmLabels DEF Works, Ends
    <3>3. then' = [then EXCEPT ![c] = then[c]] /\ then[c] \in Thens
      BY <1>3, ThenIs DEF Report
    <3> QED BY <1>3, <2>1, <3>1, <3>2, <3>3, FreeGoto, ThenIs DEF Report
  <2> QED BY <2>2, <2>3
<1> QED BY <1>1, <1>2, <1>3

(* What a controller that is gone leaves. *)
LEMMA ForgetIs ==
  ASSUME MInv, NEW c \in Controllers, Forget(c)
  PROVE  /\ my' = [my EXCEPT ![c] = NewRecord] /\ then' = [then EXCEPT ![c] = Away]
         /\ pc' = [pc EXCEPT ![c] = "done"]
         /\ NewRecord \in Records /\ NewRecord.phase = "ready"
         /\ my' \in [Controllers -> Records] /\ pc' \in [Controllers -> Labels]
         /\ then' \in [Controllers -> Thens]
         /\ pc'[c] = "done" /\ my'[c] = NewRecord
         /\ ~Asking(c)' /\ ~Active(c)'
         /\ \A d \in Controllers : d # c =>
              /\ my'[d] = my[d] /\ pc'[d] = pc[d] /\ then'[d] = then[d]
              /\ (Asking(d)' <=> Asking(d)) /\ (Active(d)' <=> Active(d))
<1>1. NewRecord \in Records /\ NewRecord.phase = "ready"
  BY DEF NewRecord, Records, Phases, Nothing
<1> QED BY <1>1 DEF Forget, Goto, MInv, Typed, Away, Thens, Labels, Asking, Active, Asks

LEMMA CrashKeeps ==
  ASSUME MInv, NEW c \in Controllers, Crash(c)
  PROVE  MInv'
<1>1. Forget(c) /\ UNCHANGED <<row, inv, sent, left>>
  BY DEF Crash, store
<1>2. Typed'
  BY <1>1, ForgetIs DEF MInv, Typed
<1>3. Alone' /\ Marked'
  BY <1>1, ForgetIs DEF MInv, Alone, Marked
<1>4. Yields'
  BY <1>1, ForgetIs DEF MInv, Yields
<1>5. Final'
  BY <1>1, ForgetIs DEF MInv, Final, Ended
<1>6. Reserved'
  BY <1>1, ForgetIs DEF MInv, Reserved
<1> QED BY <1>2, <1>3, <1>4, <1>5, <1>6 DEF MInv

(* The row given back while another is asking still bears its mark: the    *)
(* copy of whoever gives it back does.                                     *)
LEMMA ReleaseKeeps ==
  ASSUME MInv, NEW c \in Controllers, Release(c)
  PROVE  MInv'
<1>1. Forget(c) /\ UNCHANGED <<inv, sent, left>> /\ pc[c] = "closing"
  BY DEF Release, ghost
<1>2. my[c] \in Records /\ Active(c)
  BY <1>1 DEF MInv, Typed, Active
<1>3. CASE row' = row
  <2>1. Typed' /\ Alone' /\ Marked' /\ Yields'
    BY <1>1, <1>3, ForgetIs DEF MInv, Typed, Alone, Marked, Yields
  <2>2. Final' /\ Reserved'
    BY <1>1, <1>3, ForgetIs DEF MInv, Final, Ended, Reserved
  <2> QED BY <2>1, <2>2 DEF MInv
<1>4. CASE row.runner = c /\ row' # row
  <2>1. PICK terminal \in {FALSE, Ended} :
          row' = [rec |-> [my[c] EXCEPT !.phase = IF terminal THEN "terminal" ELSE @], runner |-> NoOne]
    BY <1>4 DEF Release
  <2> DEFINE x == IF terminal THEN "terminal" ELSE my[c].phase
             rec == [my[c] EXCEPT !.phase = x]
  <2>2. x \in Phases /\ (x = my[c].phase \/ (x = "terminal" /\ Ended))
    <3>1. "terminal" \in Phases /\ my[c].phase \in Phases
      BY <1>2, Fields DEF Phases
    <3>2. CASE terminal = FALSE
      BY <3>1, <3>2
    <3>3. CASE terminal = Ended
      BY <3>1, <3>3
    <3> QED BY <3>2, <3>3
  <2> HIDE DEF x
  <2>3. rec \in Records /\ rec.phase = x /\ rec.generations = my[c].generations
    BY <1>2, <2>2, Fields
  <2>4. row' = [rec |-> rec, runner |-> NoOne]
    BY <2>1 DEF x
  <2> HIDE DEF rec
  <2>5. row'.runner = NoOne /\ row'.rec = rec
    BY <2>4
  <2>6. Typed'
    BY <1>1, <2>3, <2>4, ForgetIs DEF MInv, Typed
  <2>7. Alone' /\ Yields'
    BY <1>1, <2>5, ControllerAssumption, ForgetIs DEF MInv, Alone, Yields
  <2>8. Marked'
    <3> SUFFICES ASSUME NEW a \in Controllers, Asking(a)'
                 PROVE  /\ row'.rec.phase \in Marks /\ row'.rec.generations = my'[a].generations
                        /\ my'[a].phase = "request_inflight" /\ my'[a].generations > 0
      BY DEF Marked
    <3>1. a # c /\ Asking(a) /\ my'[a] = my[a]
      BY <1>1, ForgetIs
    <3>2. my[c].phase \in Marks /\ my[c].generations = my[a].generations
      BY <1>2, <1>4, <3>1 DEF MInv, Yields
    <3> QED BY <2>2, <2>3, <2>5, <3>1, <3>2 DEF MInv, Marked, Marks
  <2>9. Final'
    BY <1>1, <2>2, <2>3, <2>5, ForgetIs DEF MInv, Final, Ended
  <2>10. Reserved'
    BY <1>1, <1>2, <1>4, <2>3, <2>5, ControllerAssumption, ForgetIs DEF MInv, Reserved
  <2> QED BY <2>6, <2>7, <2>8, <2>9, <2>10 DEF MInv
<1> QED BY <1>3, <1>4 DEF Release

(* A takeover while another is asking finds its mark.                      *)
LEMMA ClaimKeeps ==
  ASSUME MInv, NEW c \in Controllers, Claim(c)
  PROVE  MInv'
<1> DEFINE l == IF row.rec.phase = "request_inflight" THEN "report" ELSE "top"
<1>1. /\ pc[c] = "idle" /\ then' = then /\ inv' = inv /\ sent' = sent /\ left' = left
      /\ row' = [row EXCEPT !.runner = c] /\ my' = [my EXCEPT ![c] = row.rec]
      /\ pc' = [pc EXCEPT ![c] = l]
  BY DEF Claim, Keep, Goto, ghost
<1>2. l \in {"report", "top"} /\ (l = "top" => row.rec.phase # "request_inflight")
  OBVIOUS
<1> HIDE DEF l
<1>3. /\ row \in [rec : Records, runner : Controllers \cup {NoOne}]
      /\ my \in [Controllers -> Records] /\ pc \in [Controllers -> Labels]
  BY DEF MInv, Typed
<1>4. row'.runner = c /\ row'.rec = row.rec
  BY <1>1, <1>3
<1>5. /\ pc'[c] = l /\ my'[c] = row.rec /\ then[c] = Away
      /\ \A d \in Controllers : d # c => pc'[d] = pc[d] /\ my'[d] = my[d]
  BY <1>1, <1>3 DEF MInv, Final
<1>6. \A d \in Controllers : Asking(d)' <=> Asking(d) /\ d # c
  BY <1>1, <1>2, <1>5 DEF Asking, Asks
<1>7. Typed'
  BY <1>1, <1>2, <1>3 DEF MInv, Typed, Labels, Ends
<1>8. Alone' /\ Marked'
  BY <1>4, <1>5, <1>6 DEF MInv, Alone, Marked
<1>9. Yields'
  <2> SUFFICES ASSUME NEW a \in Controllers, Asking(a)', a # c
               PROVE  /\ pc'[c] \in Ends \cup {"top"} /\ then'[c] = Away
                      /\ my'[c].phase \in Marks /\ my'[c].generations = my'[a].generations
                      /\ pc'[c] = "top" => my'[c].phase = "terminal"
    BY <1>4 DEF Yields
  <2>1. row.rec.phase \in Marks /\ row.rec.generations = my[a].generations
    BY <1>6 DEF MInv, Marked
  <2> QED BY <1>1, <1>2, <1>5, <2>1 DEF Marks, Ends
<1>10. Final'
  BY <1>1, <1>2, <1>4, <1>5 DEF MInv, Final, Ended
<1>11. Reserved'
  BY <1>1, <1>2, <1>4, <1>5 DEF MInv, Reserved
<1> QED BY <1>7, <1>8, <1>9, <1>10, <1>11 DEF MInv

(* Time, ownership and cancellation touch neither the row nor a copy. *)
LEMMA AroundKeeps ==
  ASSUME MInv, UNCHANGED <<row, my, pc, then, sent, left>>, inv' = inv \/ inv' = "cancelled"
  PROVE  MInv'
BY DEF MInv, Typed, Alone, Marked, Yields, Final, Reserved, Asking, Active, Ended

LEMMA StepKeeps ==
  ASSUME MInv, NEW c \in Controllers, Step(c)
  PROVE  MInv'
<1>1. CASE TopStops(c) \/ Report(c) \/ Leave(c)
  BY <1>1, EndsKeep
<1>2. CASE Bootstrap(c) \/ Resume(c) \/ Exhausted(c)
  BY <1>2, HeadKeeps
<1>3. CASE Reserve(c) \/ Refund(c) \/ Send(c) \/ Release(c)
  BY <1>3, ReserveKeeps, RefundKeeps, SendKeeps, ReleaseKeeps
<1>4. CASE \/ SendCancelled(c) \/ Refuse(c) \/ RateLimit(c) \/ TransportFails(c) \/ Repair(c)
           \/ \E kind \in Kinds, expect \in 0..MaxGenerations :
                (kind # "reason" => expect = 0) /\ Respond(c, kind, expect)
  BY <1>4, AnswerKeeps
<1>5. CASE \/ DecisionThrows(c) \/ Prepare(c) \/ FlowBegins(c) \/ FlowGoes(c) \/ Wait(c) \/ FlowStep(c)
  BY <1>5, WorkKeeps
<1>6. CASE Propose(c) \/ Run(c) \/ FlowEnds(c) \/ Reason(c) \/ Read(c) \/ Conclude(c)
  BY <1>6, ActionKeeps
<1>7. CASE Error(c) \/ Worked(c)
  BY <1>7, TailKeeps
<1> QED BY <1>1, <1>2, <1>3, <1>4, <1>5, <1>6, <1>7 DEF Step

LEMMA NextKeeps ==
  ASSUME MInv, [Next]_vars
  PROVE  MInv'
<1> USE DEF store, local, ghost
<1>1. ASSUME NEW c \in Controllers, Claim(c) \/ Step(c) \/ Crash(c) PROVE MInv'
  BY <1>1, ClaimKeeps, StepKeeps, CrashKeeps
<1>2. ASSUME NEW c \in Controllers, Heartbeat(c) \/ HeartbeatThrows(c) PROVE MInv'
  BY <1>2, AroundKeeps DEF Heartbeat, HeartbeatThrows
<1>3. CASE DeadlinePasses \/ LeasePasses \/ RetryTimeComes \/ ClaimOwnership \/ CancelInvestigation
  BY <1>3, AroundKeeps DEF DeadlinePasses, LeasePasses, RetryTimeComes, ClaimOwnership,
     CancelInvestigation
<1>4. CASE UNCHANGED vars
  BY <1>4, AroundKeeps DEF vars
<1> QED BY <1>1, <1>2, <1>3, <1>4 DEF Next

THEOREM MInvHolds == Spec => []MInv
BY InitMInv, NextKeeps, PTL DEF Spec

-----------------------------------------------------------------------------
(* A request at the transport keeps its mark in the durable record, from   *)
(* which every other controller of model_controller.cpp:533 resumes.       *)
THEOREM MarkIsKept == Spec => []InFlightIsMarked
<1>1. MInv => InFlightIsMarked
  BY DEF MInv, Marked, Asking, Asks, Marks, InFlightIsMarked
<1> QED BY <1>1, MInvHolds, PTL

(* At most one request is at the provider, of however many controllers,    *)
(* although the row is fenced only when it is written.                     *)
THEOREM OneAtATime == Spec => []OneRequestInFlight
<1>1. ASSUME MInv PROVE OneRequestInFlight
  <2> DEFINE S == {c \in Controllers : pc[c] = "transport"}
  <2>1. \A c, d \in S : c = d
    BY <1>1 DEF MInv, Alone, Asking, Asks
  <2>2. CASE S = {}
    BY <2>2, FS_EmptySet DEF OneRequestInFlight
  <2>3. CASE S # {}
    <3>1. PICK c \in S : S = {c}
      BY <2>1, <2>3
    <3>2. Cardinality(S) = 1
      BY <3>1, FS_Singleton
    <3> QED BY <3>2 DEF OneRequestInFlight
  <2> QED BY <2>2, <2>3
<1> QED BY <1>1, MInvHolds, PTL

(* Requests that reached the provider never outnumber the generations the  *)
(* durable record has reserved, refunds included.                          *)
THEOREM SentWasReserved == Spec => []SentIsReserved
<1>1. ASSUME MInv PROVE SentIsReserved
  <2> DEFINE n == row.rec.generations
  <2>1. n \in Nat /\ sent \subseteq 1..n
    BY <1>1 DEF MInv, Typed, Records, Reserved
  <2> HIDE DEF n
  <2>2. IsFiniteSet(1..n) /\ Cardinality(1..n) = n
    BY <2>1, FS_Interval
  <2>3. Cardinality(sent) <= Cardinality(1..n)
    BY <2>1, <2>2, FS_Subset
  <2> QED BY <2>2, <2>3 DEF n, SentIsReserved
<1> QED BY <1>1, MInvHolds, PTL

(* What may be at the provider is one request, marked in the durable       *)
(* record and paid for by it, whichever controllers stall, crash and       *)
(* resume.                                                                 *)
THEOREM OneRequestHolds == Spec => []OneRequest
BY SentWasReserved, OneAtATime, MarkIsKept, PTL DEF OneRequest

-----------------------------------------------------------------------------
(* Resuming: what every controller holds of a decision that is saved.      *)

Runs(c) == row.runner = c /\ Active(c)
Saved(r) == r.phase = "response_saved"

\* c is to carry out a decision, or is carrying it out.
Carries(c) ==
  pc[c] \in {"decide", "propose", "run", "flow", "step"} \/ (pc[c] = "top" /\ Saved(my[c]))

-----------------------------------------------------------------------------
(* What a step does to the decision: it writes the copy it keeps or does   *)
(* not, and takes the decision along, settles it, or makes a new one.      *)

Writes(c) == row.runner = c /\ row'.runner = c /\ row'.rec = my'[c]
Alters(c) ==
  /\ \A d \in Controllers : d # c => my'[d] = my[d] /\ pc'[d] = pc[d]
  /\ row' = row \/ Writes(c)

Core(r, s) ==
  /\ s.phase = r.phase /\ s.pending = r.pending /\ s.generations = r.generations
  /\ s.expect = r.expect /\ s.pinned = r.pinned

TakesAlong(c) == Core(my[c], my'[c]) /\ (Carries(c)' => Carries(c))
Settles(c) ==
  /\ my'[c].phase = "ready" /\ ~Carries(c)'
  /\ \/ my'[c].generations = my[c].generations
     \/ Asking(c) /\ my'[c].generations = my[c].generations - 1
  /\ my'[c].pinned \in {my[c].pinned, 0}
Reserves(c) ==
  /\ my'[c].phase = "request_inflight" /\ ~Carries(c)' /\ my[c].generations < MaxGenerations
  /\ my'[c].generations = my[c].generations + 1 /\ my'[c].pinned = my[c].pinned
Answered(c) ==
  /\ Asking(c) /\ Saved(my'[c]) /\ (Carries(c)' => Writes(c))
  /\ my'[c].generations = my[c].generations /\ my'[c].pinned = my[c].pinned
Scheduled(c) ==
  /\ Recipe = "assisted_static" /\ Saved(my'[c]) /\ (Carries(c)' => Writes(c))
  /\ my'[c].generations = my[c].generations /\ my'[c].pending \in {"analyze", "function"}
  /\ my'[c].pinned \in {my[c].pinned, 0}
Pins(c) ==
  /\ pc[c] = "decide" /\ my[c].pinned = 0 /\ my[c].pending = "analyze"
  /\ my'[c].phase = my[c].phase /\ my'[c].pending = my[c].pending
  /\ my'[c].generations = my[c].generations
  /\ my'[c].expect = my[c].expect /\ my'[c].pinned \in 1..Ask
  /\ IF Recipe = "general" THEN Carries(c)' => Writes(c)
     ELSE my'[c].pinned = Ask

Shaped(c) ==
  /\ Alters(c)
  /\ TakesAlong(c) \/ Settles(c) \/ Reserves(c) \/ Answered(c) \/ Scheduled(c) \/ Pins(c)

(* What the three ways to move on write. *)
LEMMA SaveIs ==
  ASSUME MInv, NEW c \in Controllers, NEW rec, NEW good, NEW bad, good # bad,
         Save(c, rec, good, bad)
  PROVE  /\ Alters(c) /\ my'[c] = rec /\ pc'[c] \in {good, bad}
         /\ pc'[c] = good => Writes(c)
<1>1. /\ my \in [Controllers -> Records] /\ pc \in [Controllers -> Labels]
      /\ row \in [rec : Records, runner : Controllers \cup {NoOne}]
  BY DEF MInv, Typed
<1>2. my'[c] = rec /\ \A d \in Controllers : d # c => my'[d] = my[d]
  BY <1>1 DEF Save, Keep
<1>3. CASE row.runner = c /\ row' = [row EXCEPT !.rec = rec] /\ Goto(c, good)
  BY <1>1, <1>2, <1>3 DEF Alters, Writes, Goto
<1>4. CASE row' = row /\ Goto(c, bad)
  BY <1>1, <1>2, <1>4 DEF Alters, Goto
<1> QED BY <1>3, <1>4 DEF Save

LEMMA KeepIs ==
  ASSUME MInv, NEW c \in Controllers, NEW rec, NEW l, Keep(c, rec), Goto(c, l), row' = row
  PROVE  Alters(c) /\ my'[c] = rec /\ pc'[c] = l
BY DEF MInv, Typed, Keep, Goto, Alters

LEMMA GotoIs ==
  ASSUME MInv, NEW c \in Controllers, NEW l, Goto(c, l), row' = row, my' = my
  PROVE  Alters(c) /\ my'[c] = my[c] /\ pc'[c] = l
BY DEF MInv, Typed, Goto, Alters

Places == {"decide", "propose", "run", "flow", "step"}

(* A step that keeps the core of the decision takes it along. *)
LEMMA Along ==
  ASSUME MInv, NEW c \in Controllers, Alters(c), Core(my[c], my'[c]),
         pc'[c] \in Places => pc[c] \in Places,
         pc'[c] # "top"
  PROVE  Shaped(c)
BY DEF Shaped, TakesAlong, Carries, Places

(* Every step of a controller has one of these shapes: at the head of the *)
(* loop, around a request, while a decision is carried out, when it is    *)
(* pinned, and at its end.                                                *)
LEMMA HeadShape ==
  ASSUME MInv, NEW c \in Controllers,
         TopStops(c) \/ Bootstrap(c) \/ Resume(c) \/ Exhausted(c) \/ Reserve(c)
  PROVE  Shaped(c)
<1> USE DEF store
<1>1. pc[c] = "top" /\ my[c] \in Records
  BY DEF TopStops, Bootstrap, Resume, Exhausted, Reserve, TopGoes, MInv, Typed
<1>2. Core(my[c], Going(c)) /\ Going(c) \in Records
  BY <1>1, GoingIs DEF Core, Going, Records
<1>3. CASE TopStops(c)
  BY <1>3, GotoIs, Along DEF TopStops, Core, Places
<1>4. CASE Bootstrap(c)
  <2> DEFINE rec == [Going(c) EXCEPT !.bootstrapped = TRUE, !.pending = "analyze",
                                     !.phase = "response_saved"]
  <2>1. /\ rec.phase = "response_saved" /\ rec.pending = "analyze"
        /\ rec.generations = my[c].generations /\ rec.pinned = my[c].pinned
    BY <1>2 DEF Records, Core
  <2>2. Save(c, rec, "decide", "closing") /\ Recipe = "assisted_static"
    BY <1>4 DEF Bootstrap, Bootstraps
  <2> HIDE DEF rec
  <2>3. /\ Alters(c) /\ my'[c] = rec /\ pc'[c] \in {"decide", "closing"}
        /\ pc'[c] = "decide" => Writes(c)
    BY <2>2, SaveIs
  <2> QED BY <2>1, <2>2, <2>3 DEF Shaped, Scheduled, Carries, Saved
<1>5. CASE Resume(c)
  <2>1. my[c].phase = "response_saved" /\ Alters(c) /\ my'[c] = Going(c)
    BY <1>5, KeepIs DEF Resume
  <2> QED BY <1>1, <1>2, <2>1 DEF Shaped, TakesAlong, Carries, Saved
<1>6. CASE Exhausted(c)
  BY <1>2, <1>6, KeepIs, Along DEF Exhausted, Places
<1>7. CASE Reserve(c)
  <2>0. my[c].generations < MaxGenerations
    BY <1>1, <1>7, ControllerAssumption DEF Reserve, Spent, Records
  <2> DEFINE rec == [Going(c) EXCEPT !.generations = @ + 1, !.phase = "request_inflight"]
  <2>1. /\ rec.phase = "request_inflight" /\ rec.generations = my[c].generations + 1
        /\ rec.pinned = my[c].pinned
    BY <1>2 DEF Records, Core
  <2>2. Save(c, rec, "call", "closing")
    BY <1>7 DEF Reserve
  <2> HIDE DEF rec
  <2>3. Alters(c) /\ my'[c] = rec /\ pc'[c] \in {"call", "closing"}
    BY <2>2, SaveIs
  <2> QED BY <2>0, <2>1, <2>3 DEF Shaped, Reserves, Carries
<1> QED BY <1>3, <1>4, <1>5, <1>6, <1>7

LEMMA AnswerShape ==
  ASSUME MInv, NEW c \in Controllers,
         \/ Refund(c) \/ Send(c) \/ SendCancelled(c) \/ Refuse(c)
         \/ RateLimit(c) \/ TransportFails(c) \/ Repair(c)
         \/ \E kind \in Kinds, expect \in 0..MaxGenerations : Respond(c, kind, expect)
  PROVE  Shaped(c)
<1> USE DEF store, ghost
<1>1. my[c] \in Records
  BY DEF MInv, Typed
<1>2. CASE Send(c) \/ SendCancelled(c) \/ Refuse(c)
  BY <1>2, GotoIs, Along DEF Send, SendCancelled, Refuse, Core, Places
<1>3. CASE (TransportFails(c) \/ Repair(c)) /\ cancelled[c]
  BY <1>3, GotoIs, Along DEF TransportFails, Repair, Core, Places
<1>4. ASSUME NEW rec, rec.phase = "ready", rec.generations = my[c].generations,
             rec.pinned = my[c].pinned,
             NEW good \in {"report", "top", "leave"}, Save(c, rec, good, "closing")
      PROVE  Shaped(c)
  <2>1. Alters(c) /\ my'[c] = rec /\ pc'[c] \in {"report", "top", "leave", "closing"}
    BY <1>4, SaveIs
  <2> QED BY <1>4, <2>1 DEF Shaped, Settles, Carries, Saved
<1>5. CASE RateLimit(c)
  <2> DEFINE rec == [my[c] EXCEPT !.phase = "ready", !.retry = TRUE]
  <2>1. rec.phase = "ready" /\ rec.generations = my[c].generations /\ rec.pinned = my[c].pinned
    BY <1>1 DEF Records
  <2>2. Save(c, rec, "leave", "closing")
    BY <1>5 DEF RateLimit
  <2> QED BY <1>4, <2>1, <2>2
<1>6. CASE TransportFails(c) /\ ~cancelled[c]
  <2> DEFINE rec == [my[c] EXCEPT !.phase = "ready"]
  <2>1. rec.phase = "ready" /\ rec.generations = my[c].generations /\ rec.pinned = my[c].pinned
    BY <1>1 DEF Records
  <2>2. Save(c, rec, "report", "closing")
    BY <1>6 DEF TransportFails
  <2> QED BY <1>4, <2>1, <2>2
<1>7. CASE Repair(c) /\ ~cancelled[c]
  <2> DEFINE rec == [my[c] EXCEPT !.phase = "ready", !.repairs = @ + 1]
             good == IF my[c].repairs >= MaxRepairs THEN "report" ELSE "top"
  <2>1. rec.phase = "ready" /\ rec.generations = my[c].generations /\ rec.pinned = my[c].pinned
    BY <1>1 DEF Records
  <2>2. Save(c, rec, good, "closing") /\ good \in {"report", "top", "leave"}
    BY <1>7 DEF Repair
  <2> QED BY <1>4, <2>1, <2>2
<1>8. CASE Refund(c)
  <2> DEFINE rec == [my[c] EXCEPT !.generations = @ - 1, !.phase = "ready", !.compactions = @ + 1]
             good == IF my[c].compactions >= MaxCompactions THEN "report" ELSE "top"
  <2>1. rec.phase = "ready" /\ rec.generations = my[c].generations - 1 /\ rec.pinned = my[c].pinned
    BY <1>1 DEF Records
  <2>2. Save(c, rec, good, "closing") /\ good \in {"report", "top"} /\ Asking(c)
    BY <1>8 DEF Refund, Asking, Asks
  <2> HIDE DEF rec, good
  <2>3. Alters(c) /\ my'[c] = rec /\ pc'[c] \in {"report", "top", "closing"}
    BY <2>2, SaveIs
  <2> QED BY <2>1, <2>2, <2>3 DEF Shaped, Settles, Carries, Saved
<1>9. CASE \E kind \in Kinds, expect \in 0..MaxGenerations : Respond(c, kind, expect)
  <2>1. PICK kind \in Kinds, expect \in 0..MaxGenerations : Respond(c, kind, expect)
    BY <1>9
  <2> DEFINE rec == [my[c] EXCEPT !.pending = kind, !.expect = expect, !.phase = "response_saved"]
  <2>2. rec.phase = "response_saved" /\ rec.generations = my[c].generations /\ rec.pinned = my[c].pinned
    BY <1>1 DEF Records
  <2>3. Save(c, rec, "decide", "repair") /\ Asking(c)
    BY <2>1 DEF Respond, Asking, Asks
  <2> HIDE DEF rec
  <2>4. /\ Alters(c) /\ my'[c] = rec /\ pc'[c] \in {"decide", "repair"}
        /\ pc'[c] = "decide" => Writes(c)
    BY <2>3, SaveIs
  <2> QED BY <2>2, <2>3, <2>4 DEF Shaped, Answered, Carries, Saved
<1> QED BY <1>2, <1>3, <1>5, <1>6, <1>7, <1>8, <1>9

LEMMA WorkShape ==
  ASSUME MInv, NEW c \in Controllers,
         \/ DecisionThrows(c) \/ FlowBegins(c) \/ FlowGoes(c) \/ Propose(c) \/ Run(c) \/ Wait(c)
         \/ FlowStep(c) \/ FlowEnds(c) \/ Reason(c) \/ Read(c) \/ Conclude(c) \/ Report(c) \/ Leave(c)
  PROVE  Shaped(c)
<1> USE DEF store, ghost
<1>1. my[c] \in Records /\ Core(my[c], my[c])
  BY DEF MInv, Typed, Core
<1>2. ASSUME NEW rec, Core(my[c], rec), NEW good, good # "top",
             good \in Places => pc[c] \in Places,
             Save(c, rec, good, "error")
      PROVE  Shaped(c)
  <2>1. good # "error" \/ good = "error"
    OBVIOUS
  <2>2. CASE good # "error"
    <3>1. Alters(c) /\ my'[c] = rec /\ pc'[c] \in {good, "error"}
      BY <1>2, <2>2, SaveIs
    <3> QED BY <1>2, <3>1, Along DEF Places
  <2>3. CASE good = "error"
    <3>1. Alters(c) /\ my'[c] = rec /\ pc'[c] = "error"
      BY <1>2, <2>3 DEF Save, MInv, Typed, Keep, Goto, Alters, Writes
    <3> QED BY <1>2, <3>1, Along DEF Places
  <2> QED BY <2>2, <2>3
<1>3. CASE DecisionThrows(c)
  <2> DEFINE rec == [my[c] EXCEPT !.next = FlowSteps]
  <2>1. Core(my[c], rec)
    BY <1>1 DEF Records, Core
  <2>2. CASE my[c].pending = "function" /\ pc[c] # "decide"
    BY <1>2, <1>3, <2>1, <2>2 DEF DecisionThrows, Places
  <2>3. CASE ~(my[c].pending = "function" /\ pc[c] # "decide")
    BY <1>1, <1>3, <2>3, GotoIs, Along DEF DecisionThrows, Places
  <2> QED BY <2>2, <2>3
<1>4. CASE FlowBegins(c)
  <2> DEFINE rec == [my[c] EXCEPT !.working = TRUE]
  <2>1. Core(my[c], rec)
    BY <1>1 DEF Records, Core
  <2>2. CASE Goto(c, "report") /\ UNCHANGED <<row, late, my>>
    BY <1>1, <2>2, GotoIs, Along DEF Places
  <2>3. CASE Save(c, rec, "flow", "error")
    BY <1>2, <1>4, <2>1, <2>3 DEF FlowBegins, Places
  <2> QED BY <1>4, <2>2, <2>3 DEF FlowBegins
<1>5. CASE FlowStep(c)
  <2> DEFINE rec == [my[c] EXCEPT !.next = @ + 1]
  <2>1. Core(my[c], rec)
    BY <1>1 DEF Records, Core
  <2> QED BY <1>2, <1>5, <2>1 DEF FlowStep, Places
<1>6. CASE FlowGoes(c) \/ Propose(c) \/ Run(c) \/ Reason(c) \/ Read(c) \/ Conclude(c) \/ Leave(c)
  <2>1. PICK l \in {"propose", "visited", "run", "wait", "step", "worked", "report", "closing"} :
          Goto(c, l)
    BY <1>6 DEF FlowGoes, Propose, Run, Reason, Read, Conclude, Leave
  <2>2. row' = row /\ my' = my
    BY <1>6 DEF FlowGoes, Propose, Run, Reason, Read, Conclude, Leave
  <2>3. l \in Places => pc[c] \in Places
    BY <1>6, <2>1, GotoIs, <2>2 DEF FlowGoes, Propose, Run, Reason, Read, Conclude, Leave, Places, Goto
  <2> QED BY <1>1, <2>1, <2>2, <2>3, GotoIs, Along
<1>7. CASE Report(c)
  <2>1. PICK l \in {then[c][1], then[c][2]} : Goto(c, l)
    BY <1>7 DEF Report
  <2>2. l \in {"leave", "closing", "error", "worked"}
    BY <2>1 DEF MInv, Typed, Thens, Away
  <2> QED BY <1>1, <1>7, <2>1, <2>2, GotoIs, Along DEF Report, Places
<1>8. CASE FlowEnds(c)
  <2> DEFINE rec == [my[c] EXCEPT !.visited = TRUE]
  <2>1. Core(my[c], rec)
    BY <1>1 DEF Records, Core
  <2>2. PICK l \in {"worked", "report"} : Goto(c, l)
    BY <1>8 DEF FlowEnds
  <2> QED BY <1>8, <2>1, <2>2, KeepIs, Along DEF FlowEnds, Places
<1>9. CASE Wait(c)
  <2>1. Alters(c) /\ my'[c] = my[c] /\ pc'[c] = "leave"
    BY <1>9 DEF Wait, MInv, Typed, Goto, Alters, Writes
  <2> QED BY <1>1, <2>1, Along DEF Places
<1> QED BY <1>3, <1>4, <1>5, <1>6, <1>7, <1>8, <1>9

LEMMA PrepareShape ==
  ASSUME MInv, NEW c \in Controllers, Prepare(c)
  PROVE  Shaped(c)
<1>1. my[c] \in Records /\ pc[c] = "decide" /\ my[c].pending = "analyze" /\ left \in Int
  BY DEF Prepare, MInv, Typed
<1>2. Recipe \in {"general", "assisted_static"} /\ Ask \in Nat \ {0}
  BY ControllerAssumption
<1>3. CASE my[c].pinned = 0 /\ Recipe = "general"
  <2> DEFINE fit == IF left < Ask THEN left ELSE Ask
             rec == [my[c] EXCEPT !.pinned = fit]
  <2>1. fit \in 1..Ask
    BY <1>1, <1>2, <1>3 DEF Prepare
  <2>2. Save(c, rec, "propose", "error")
    BY <1>3 DEF Prepare
  <2> HIDE DEF fit
  <2>3. /\ rec.phase = my[c].phase /\ rec.pending = my[c].pending /\ rec.expect = my[c].expect
        /\ rec.generations = my[c].generations /\ rec.pinned = fit
    BY <1>1 DEF Records
  <2> HIDE DEF rec
  <2>4. /\ Alters(c) /\ my'[c] = rec /\ pc'[c] \in {"propose", "error"}
        /\ pc'[c] = "propose" => Writes(c)
    BY <2>2, SaveIs
  <2>5. Carries(c)' => Writes(c)
    BY <2>4 DEF Carries
  <2> QED BY <1>1, <1>3, <2>1, <2>3, <2>4, <2>5 DEF Shaped, Pins
<1>4. CASE ~(my[c].pinned = 0 /\ Recipe = "general")
  <2> DEFINE pin == IF my[c].pinned = 0 THEN Ask ELSE my[c].pinned
             rec == [my[c] EXCEPT !.pinned = pin]
  <2>1. Keep(c, rec) /\ Goto(c, "propose") /\ row' = row
    BY <1>4 DEF Prepare
  <2>2. /\ rec.phase = my[c].phase /\ rec.pending = my[c].pending /\ rec.expect = my[c].expect
        /\ rec.generations = my[c].generations /\ rec.pinned = pin
    <3> HIDE DEF pin
    <3> QED BY <1>1 DEF Records
  <2> HIDE DEF rec
  <2>3. Alters(c) /\ my'[c] = rec /\ pc'[c] = "propose"
    BY <2>1, KeepIs
  <2>4. CASE my[c].pinned = 0
    BY <1>1, <1>2, <1>4, <2>2, <2>3, <2>4 DEF Shaped, Pins
  <2>5. CASE my[c].pinned # 0
    BY <1>1, <2>2, <2>3, <2>5, Along DEF Core, Places
  <2> QED BY <2>4, <2>5
<1> QED BY <1>3, <1>4

LEMMA TailShape ==
  ASSUME MInv, NEW c \in Controllers, Error(c) \/ Worked(c)
  PROVE  Shaped(c)
<1>1. my[c] \in Records
  BY DEF MInv, Typed
<1>2. ASSUME NEW n, Tail(c, n) PROVE Shaped(c)
  <2>1. PICK chain \in {"none", "function"} :
          /\ chain = "function" => Recipe = "assisted_static"
          /\ Save(c, [my[c] EXCEPT !.repairs = n, !.pending = chain, !.pinned = 0, !.expect = 0,
                                   !.phase = IF chain = Nothing THEN "ready" ELSE "response_saved"],
                  "top", "closing")
    BY <1>2 DEF Tail, Nothing
  <2> DEFINE p == IF chain = Nothing THEN "ready" ELSE "response_saved"
             rec == [my[c] EXCEPT !.repairs = n, !.pending = chain, !.pinned = 0, !.expect = 0,
                                  !.phase = p]
  <2>2. Save(c, rec, "top", "closing")
    BY <2>1
  <2>3. \/ chain = "none" /\ p = "ready"
        \/ Recipe = "assisted_static" /\ chain = "function" /\ p = "response_saved"
    <3>1. CASE chain = "none"
      BY <3>1 DEF Nothing
    <3>2. CASE chain = "function"
      BY <2>1, <3>2 DEF Nothing
    <3> QED BY <3>1, <3>2
  <2> HIDE DEF p
  <2>4. rec.phase = p /\ rec.generations = my[c].generations /\ rec.pending = chain /\ rec.pinned = 0
    BY <1>1 DEF Records
  <2> HIDE DEF rec
  <2>5. /\ Alters(c) /\ my'[c] = rec /\ pc'[c] \in {"top", "closing"}
        /\ pc'[c] = "top" => Writes(c)
    BY <2>2, SaveIs
  <2> QED BY <2>3, <2>4, <2>5 DEF Shaped, Settles, Scheduled, Carries, Saved
<1>3. CASE Worked(c) \/ ~(my[c].repairs >= MaxRepairs)
  BY <1>2, <1>3 DEF Worked, Error
<1>4. CASE Error(c) /\ my[c].repairs >= MaxRepairs
  <2> DEFINE rec == [my[c] EXCEPT !.repairs = @ + 1]
  <2>1. Core(my[c], rec)
    BY <1>1 DEF Records, Core
  <2> QED BY <1>4, <2>1, KeepIs, Along DEF Error, Places
<1> QED BY <1>3, <1>4

(* Together: a controller that steps is shaped so, or releases the row. *)
LEMMA StepShape ==
  ASSUME MInv, NEW c \in Controllers, Step(c)
  PROVE  Shaped(c) \/ Release(c)
<1>1. CASE TopStops(c) \/ Bootstrap(c) \/ Resume(c) \/ Exhausted(c) \/ Reserve(c)
  BY <1>1, HeadShape
<1>2. CASE \/ Refund(c) \/ Send(c) \/ SendCancelled(c) \/ Refuse(c)
           \/ RateLimit(c) \/ TransportFails(c) \/ Repair(c)
           \/ \E kind \in Kinds, expect \in 0..MaxGenerations :
                (kind # "reason" => expect = 0) /\ Respond(c, kind, expect)
  BY <1>2, AnswerShape
<1>3. CASE \/ DecisionThrows(c) \/ FlowBegins(c) \/ FlowGoes(c) \/ Propose(c) \/ Run(c) \/ Wait(c)
           \/ FlowStep(c) \/ FlowEnds(c) \/ Reason(c) \/ Read(c) \/ Conclude(c) \/ Report(c) \/ Leave(c)
  BY <1>3, WorkShape
<1>4. CASE Prepare(c) \/ Error(c) \/ Worked(c)
  BY <1>4, PrepareShape, TailShape
<1> QED BY <1>1, <1>2, <1>3, <1>4 DEF Step

LEMMA StepIsActive ==
  ASSUME NEW c \in Controllers, Step(c)
  PROVE  Active(c)
<1>1. PICK l \in Labels \ {"idle", "done"} : pc[c] = l
  BY DEF Step, TopStops, Bootstrap, Resume, Exhausted, Reserve, TopGoes, Refund, Send, SendCancelled,
     Respond, Refuse, RateLimit, TransportFails, Repair, DecisionThrows, Prepare, FlowBegins,
     FlowGoes, Propose, Run, Wait, FlowStep, FlowEnds, Reason, Read, Conclude, Report, Error, Worked,
     Leave, Release, Labels, Asks, Ends, Works
<1> QED BY <1>1 DEF Active

(* The end of a controller, and its beginning. *)
Leaves(c) ==
  /\ \A d \in Controllers : d # c => my'[d] = my[d] /\ pc'[d] = pc[d]
  /\ pc'[c] = "done" /\ my'[c] = NewRecord
  /\ \/ row' = row
     \/ /\ row.runner = c /\ Active(c) /\ row'.runner = NoOne
        /\ \E x \in {my[c].phase, "terminal"} : row'.rec = [my[c] EXCEPT !.phase = x]
Claims(c) ==
  /\ \A d \in Controllers : d # c => my'[d] = my[d] /\ pc'[d] = pc[d]
  /\ row'.runner = c /\ row'.rec = row.rec /\ my'[c] = row.rec
  /\ pc'[c] \in {"report", "top"}

LEMMA ReleaseLeaves ==
  ASSUME MInv, NEW c \in Controllers, Release(c) \/ Crash(c)
  PROVE  Leaves(c)
<1>1. CASE Crash(c)
  BY <1>1, ForgetIs DEF Crash, Leaves, store
<1>2. CASE Release(c)
  <2>1. Forget(c) /\ Active(c)
    BY <1>2 DEF Release, Active
  <2>2. CASE row' = row
    BY <2>1, <2>2, ForgetIs DEF Leaves
  <2>3. CASE row' # row
    <3>1. PICK terminal \in {FALSE, Ended} :
            row' = [rec |-> [my[c] EXCEPT !.phase = IF terminal THEN "terminal" ELSE @], runner |-> NoOne]
      BY <1>2, <2>3 DEF Release
    <3> DEFINE x == IF terminal THEN "terminal" ELSE my[c].phase
    <3>2. x \in {my[c].phase, "terminal"}
      <4>1. CASE terminal = FALSE
        BY <4>1
      <4>2. CASE terminal = Ended
        BY <4>2
      <4> QED BY <4>1, <4>2
    <3>3. row' = [rec |-> [my[c] EXCEPT !.phase = x], runner |-> NoOne]
      BY <3>1
    <3> HIDE DEF x
    <3>4. row'.rec = [my[c] EXCEPT !.phase = x] /\ row'.runner = NoOne
      BY <3>3
    <3>5. row.runner = c
      BY <1>2, <2>3 DEF Release
    <3> QED BY <2>1, <3>2, <3>4, <3>5, ForgetIs DEF Leaves
  <2> QED BY <2>2, <2>3
<1> QED BY <1>1, <1>2

LEMMA ClaimClaims ==
  ASSUME MInv, NEW c \in Controllers, Claim(c)
  PROVE  Claims(c)
BY DEF MInv, Typed, Claim, Keep, Goto, Claims

-----------------------------------------------------------------------------
(* The cursor of the copy and where the controller goes with it. *)
Walks(c) ==
  /\ \/ my'[c].next = my[c].next
     \/ my'[c].next = FlowSteps
     \/ pc[c] = "step" /\ my'[c].next = my[c].next + 1
  /\ pc'[c] = "step" =>
       /\ Run(c) /\ my'[c] = my[c] /\ my[c].pending = "function"
       /\ act' = [act EXCEPT ![Key(c)].status = "settled"]
  /\ pc'[c] = "flow" =>
       my'[c].pending = "function" \/ (pc[c] = "step" /\ my'[c].pending = my[c].pending)
  /\ pc'[c] = "propose" =>
       \/ my'[c].pending = "analyze" /\ my'[c].pinned # 0
       \/ pc[c] = "flow" /\ my'[c] = my[c] /\ my[c].next < FlowSteps
  /\ pc'[c] = "run" => Propose(c) /\ my'[c] = my[c]
  /\ Asking(c)' => Asking(c) \/ (TopGoes(c) /\ row.runner = c)

(* The steps that leave the copy alone, those that save it and go         *)
(* elsewhere, and those that go on with the work.                         *)
LEMMA QuietWalk ==
  ASSUME MInv, NEW c \in Controllers,
         \/ TopStops(c) \/ Send(c) \/ SendCancelled(c) \/ Refuse(c) \/ FlowGoes(c)
         \/ Propose(c) \/ Run(c) \/ Wait(c) \/ Reason(c) \/ Read(c) \/ Conclude(c) \/ Report(c)
         \/ Leave(c)
  PROVE  Walks(c)
<1> USE DEF store, ghost
<1>1. my' = my /\ pc \in [Controllers -> Labels]
  BY DEF TopStops, Send, SendCancelled, Refuse, FlowGoes, Propose, Run, Wait, Reason, Read, Conclude,
     Report, Leave, MInv, Typed
<1>2. CASE Report(c)
  <2>1. PICK l \in {then[c][1], then[c][2]} : Goto(c, l)
    BY <1>2 DEF Report
  <2>2. then[c] \in Thens
    BY ThenIs
  <2>3. l \in {"leave", "closing", "error", "worked"}
    BY <2>1, <2>2 DEF Thens, Away
  <2>4. my'[c] = my[c] /\ pc'[c] = l
    BY <1>1, <2>1 DEF Goto
  <2> QED BY <2>3, <2>4 DEF Walks, Asking, Asks
<1>3. CASE Run(c)
  <2>1. pc'[c] \in {"step", "wait", "worked"}
    BY <1>1, <1>3 DEF Run, Goto
  <2>2. CASE pc'[c] = "step"
    BY <1>1, <1>3, <2>2 DEF Run, Goto, Walks, Asking, Asks
  <2>3. CASE pc'[c] \in {"wait", "worked"}
    BY <1>1, <2>3 DEF Walks, Asking, Asks
  <2> QED BY <2>1, <2>2, <2>3
<1>4. CASE FlowGoes(c)
  BY <1>1, <1>4 DEF FlowGoes, Goto, Walks, Asking, Asks
<1>5. CASE \/ TopStops(c) \/ Send(c) \/ SendCancelled(c) \/ Refuse(c) \/ Propose(c) \/ Wait(c)
           \/ Reason(c) \/ Read(c) \/ Conclude(c) \/ Leave(c)
  <2>1. PICK l \in {"leave", "transport", "repair", "run", "worked", "report", "closing"} :
          Goto(c, l) /\ (l = "transport" => pc[c] = "call") /\ (l = "run" => Propose(c))
    BY <1>5 DEF TopStops, Send, SendCancelled, Refuse, Propose, Wait, Reason, Read, Conclude, Leave
  <2> QED BY <1>1, <2>1 DEF Walks, Goto, Asking, Asks
<1> QED BY <1>2, <1>3, <1>4, <1>5

Elsewhere == {"top", "decide", "closing", "report", "repair", "leave", "visited", "error", "worked"}

LEMMA SavedWalk ==
  ASSUME MInv, NEW c \in Controllers,
         \/ Bootstrap(c) \/ Resume(c) \/ Exhausted(c) \/ Reserve(c) \/ Refund(c)
         \/ RateLimit(c) \/ TransportFails(c) \/ Repair(c) \/ Error(c) \/ Worked(c) \/ FlowEnds(c)
         \/ \E kind \in Kinds, expect \in 0..MaxGenerations : Respond(c, kind, expect)
         \/ DecisionThrows(c)
  PROVE  Walks(c)
<1>1. my[c] \in Records /\ my \in [Controllers -> Records] /\ pc \in [Controllers -> Labels]
  BY DEF MInv, Typed
<1>2. ASSUME NEW rec, rec.next = my[c].next \/ rec.next = FlowSteps,
             NEW l \in Elsewhere, Keep(c, rec), Goto(c, l)
      PROVE  Walks(c)
  <2>1. my'[c] = rec /\ pc'[c] = l
    BY <1>1, <1>2 DEF Keep, Goto
  <2> QED BY <1>2, <2>1 DEF Walks, Elsewhere, Asking, Asks
<1>3. ASSUME NEW rec, rec.next = my[c].next \/ rec.next = FlowSteps,
             NEW good \in Elsewhere, NEW bad \in Elsewhere,
             Save(c, rec, good, bad)
      PROVE  Walks(c)
  BY <1>2, <1>3 DEF Save
<1> USE DEF Elsewhere
<1>4. CASE Bootstrap(c)
  <2> DEFINE rec == [Going(c) EXCEPT !.bootstrapped = TRUE, !.pending = "analyze",
                                     !.phase = "response_saved"]
  <2>1. rec.next = my[c].next
    BY <1>1 DEF Records, Going
  <2>2. Save(c, rec, "decide", "closing")
    BY <1>4 DEF Bootstrap
  <2> HIDE DEF rec
  <2> QED BY <1>3, <2>1, <2>2
<1>5. CASE Resume(c) \/ Exhausted(c)
  <2>1. Going(c).next = my[c].next
    BY <1>1 DEF Going, Records
  <2>2. PICK l \in {"decide", "report"} : Keep(c, Going(c)) /\ Goto(c, l)
    BY <1>5 DEF Resume, Exhausted
  <2> QED BY <1>2, <2>1, <2>2
<1>6. CASE Reserve(c)
  <2> DEFINE rec == [Going(c) EXCEPT !.generations = @ + 1, !.phase = "request_inflight"]
  <2>1. rec.next = my[c].next
    BY <1>1 DEF Records, Going
  <2>2. Save(c, rec, "call", "closing") /\ TopGoes(c)
    BY <1>6 DEF Reserve
  <2> HIDE DEF rec
  <2>3. my'[c] = rec /\ pc'[c] \in {"call", "closing"} /\ (pc'[c] = "call" => row.runner = c)
    BY <2>2, SaveIs DEF Writes
  <2> QED BY <2>1, <2>2, <2>3 DEF Walks, Asking, Asks
<1>7. CASE Refund(c)
  <2> DEFINE rec == [my[c] EXCEPT !.generations = @ - 1, !.phase = "ready", !.compactions = @ + 1]
  <2>1. rec.next = my[c].next
    BY <1>1 DEF Records
  <2>2. PICK l \in {"report", "top"} : Save(c, rec, l, "closing")
    BY <1>7 DEF Refund
  <2> HIDE DEF rec
  <2> QED BY <1>3, <2>1, <2>2
<1>8. CASE RateLimit(c)
  <2> DEFINE rec == [my[c] EXCEPT !.phase = "ready", !.retry = TRUE]
  <2>1. rec.next = my[c].next
    BY <1>1 DEF Records
  <2>2. Save(c, rec, "leave", "closing")
    BY <1>8 DEF RateLimit
  <2> HIDE DEF rec
  <2> QED BY <1>3, <2>1, <2>2
<1>9. CASE (TransportFails(c) \/ Repair(c)) /\ cancelled[c]
  <2>1. Goto(c, "leave") /\ my' = my
    BY <1>9 DEF TransportFails, Repair
  <2> QED BY <1>1, <2>1 DEF Walks, Goto, Asking, Asks
<1>10. CASE TransportFails(c) /\ ~cancelled[c]
  <2> DEFINE rec == [my[c] EXCEPT !.phase = "ready"]
  <2>1. rec.next = my[c].next
    BY <1>1 DEF Records
  <2>2. Save(c, rec, "report", "closing")
    BY <1>10 DEF TransportFails
  <2> HIDE DEF rec
  <2> QED BY <1>3, <2>1, <2>2
<1>11. CASE Repair(c) /\ ~cancelled[c]
  <2> DEFINE rec == [my[c] EXCEPT !.phase = "ready", !.repairs = @ + 1]
  <2>1. rec.next = my[c].next
    BY <1>1 DEF Records
  <2>2. PICK l \in {"report", "top"} : Save(c, rec, l, "closing")
    BY <1>11 DEF Repair
  <2> HIDE DEF rec
  <2> QED BY <1>3, <2>1, <2>2
<1>12. CASE FlowEnds(c)
  <2> DEFINE rec == [my[c] EXCEPT !.visited = TRUE]
  <2>1. rec.next = my[c].next
    BY <1>1 DEF Records
  <2>2. PICK l \in {"worked", "report"} : Keep(c, rec) /\ Goto(c, l)
    BY <1>12 DEF FlowEnds
  <2> HIDE DEF rec
  <2> QED BY <1>2, <2>1, <2>2
<1>13. CASE \E kind \in Kinds, expect \in 0..MaxGenerations : Respond(c, kind, expect)
  <2>1. PICK kind \in Kinds, expect \in 0..MaxGenerations : Respond(c, kind, expect)
    BY <1>13
  <2> DEFINE rec == [my[c] EXCEPT !.pending = kind, !.expect = expect, !.phase = "response_saved"]
  <2>2. rec.next = my[c].next
    BY <1>1 DEF Records
  <2>3. Save(c, rec, "decide", "repair")
    BY <2>1 DEF Respond
  <2> HIDE DEF rec
  <2> QED BY <1>3, <2>2, <2>3
<1>14. CASE DecisionThrows(c)
  <2> DEFINE rec == [my[c] EXCEPT !.next = FlowSteps]
  <2>1. rec.next = FlowSteps
    BY <1>1 DEF Records
  <2>2. CASE my[c].pending = "function" /\ pc[c] # "decide"
    <3>1. Save(c, rec, "visited", "error")
      BY <1>14, <2>2 DEF DecisionThrows
    <3> HIDE DEF rec
    <3> QED BY <1>3, <2>1, <3>1
  <2>3. CASE ~(my[c].pending = "function" /\ pc[c] # "decide")
    <3>1. Goto(c, "error") /\ my' = my
      BY <1>14, <2>3 DEF DecisionThrows
    <3> QED BY <1>1, <3>1 DEF Walks, Goto, Asking, Asks
  <2> QED BY <2>2, <2>3
<1>15. ASSUME NEW n, Tail(c, n) PROVE Walks(c)
  <2>1. PICK chain : Save(c, [my[c] EXCEPT !.repairs = n, !.pending = chain, !.pinned = 0, !.expect = 0,
                          !.phase = IF chain = Nothing THEN "ready" ELSE "response_saved"],
                          "top", "closing")
    BY <1>15 DEF Tail
  <2> DEFINE p == IF chain = Nothing THEN "ready" ELSE "response_saved"
             rec == [my[c] EXCEPT !.repairs = n, !.pending = chain, !.pinned = 0, !.expect = 0, !.phase = p]
  <2>2. Save(c, rec, "top", "closing")
    BY <2>1
  <2> HIDE DEF p
  <2>3. rec.next = my[c].next
    BY <1>1 DEF Records
  <2> HIDE DEF rec
  <2> QED BY <1>3, <2>2, <2>3
<1>16. CASE Worked(c) \/ (Error(c) /\ ~(my[c].repairs >= MaxRepairs))
  BY <1>15, <1>16 DEF Worked, Error
<1>17. CASE Error(c) /\ my[c].repairs >= MaxRepairs
  <2> DEFINE rec == [my[c] EXCEPT !.repairs = @ + 1]
  <2>1. rec.next = my[c].next
    BY <1>1 DEF Records
  <2>2. Keep(c, rec) /\ Goto(c, "report")
    BY <1>17 DEF Error
  <2> HIDE DEF rec
  <2> QED BY <1>2, <2>1, <2>2
<1> QED BY <1>4, <1>5, <1>6, <1>7, <1>8, <1>9, <1>10, <1>11, <1>12, <1>13, <1>14, <1>16, <1>17

LEMMA FlowWalk ==
  ASSUME MInv, NEW c \in Controllers, Prepare(c) \/ FlowBegins(c) \/ FlowStep(c)
  PROVE  Walks(c)
<1>1. my[c] \in Records /\ my \in [Controllers -> Records] /\ pc \in [Controllers -> Labels]
  BY DEF MInv, Typed
<1>2. CASE FlowBegins(c)
  <2> DEFINE rec == [my[c] EXCEPT !.working = TRUE]
  <2>1. rec.next = my[c].next /\ rec.pending = my[c].pending
    BY <1>1 DEF Records
  <2>2. CASE Goto(c, "report") /\ UNCHANGED <<row, late, my>>
    BY <1>1, <2>2 DEF Walks, Goto, Asking, Asks
  <2>3. CASE Save(c, rec, "flow", "error")
    <3>1. my'[c] = rec /\ pc'[c] \in {"flow", "error"}
      BY <2>3, SaveIs
    <3> QED BY <1>2, <2>1, <3>1 DEF Walks, FlowBegins, Asking, Asks
  <2> QED BY <1>2, <2>2, <2>3 DEF FlowBegins
<1>3. CASE FlowStep(c)
  <2> DEFINE rec == [my[c] EXCEPT !.next = @ + 1]
  <2>1. rec.next = my[c].next + 1 /\ rec.pending = my[c].pending
    BY <1>1 DEF Records
  <2>2. my'[c] = rec /\ pc'[c] \in {"flow", "error"} /\ pc[c] = "step"
    BY <1>3, SaveIs DEF FlowStep
  <2> QED BY <2>1, <2>2 DEF Walks, Asking, Asks
<1>4. CASE Prepare(c)
  <2> DEFINE fit == IF left < Ask THEN left ELSE Ask
             pin == IF my[c].pinned = 0 THEN Ask ELSE my[c].pinned
  <2>1. PICK n \in {fit, pin} :
          /\ n # 0 /\ my' = [my EXCEPT ![c] = [my[c] EXCEPT !.pinned = n]]
          /\ pc' = [pc EXCEPT ![c] = "propose"] \/ pc' = [pc EXCEPT ![c] = "error"]
    <3>1. CASE my[c].pinned = 0 /\ Recipe = "general"
      <4>1. fit # 0
        BY <1>4, <3>1, ControllerAssumption DEF Prepare, MInv, Typed
      <4> HIDE DEF fit
      <4> QED BY <1>4, <3>1, <4>1 DEF Prepare, Save, Keep, Goto, fit
    <3>2. CASE ~(my[c].pinned = 0 /\ Recipe = "general")
      <4>1. pin # 0
        BY <3>2, ControllerAssumption
      <4> QED BY <1>4, <3>2, <4>1 DEF Prepare, Keep, Goto
    <3> QED BY <3>1, <3>2
  <2>2. my[c].pending = "analyze"
    BY <1>4 DEF Prepare
  <2> HIDE DEF fit, pin
  <2>3. my'[c].next = my[c].next /\ my'[c].pending = "analyze" /\ my'[c].pinned = n
    BY <1>1, <2>1, <2>2 DEF Records
  <2> QED BY <1>1, <2>1, <2>3 DEF Walks, Asking, Asks
<1> QED BY <1>2, <1>3, <1>4

(* Together: every step but the release walks so. *)
LEMMA StepWalks ==
  ASSUME MInv, NEW c \in Controllers, Step(c)
  PROVE  Walks(c) \/ Release(c)
BY QuietWalk, SavedWalk, FlowWalk DEF Step

(* All that any step does to the row, the copies and the places. *)
LEMMA Moves ==
  ASSUME MInv, [Next]_vars
  PROVE  \/ UNCHANGED <<row, my, pc>>
         \/ \E c \in Controllers : (Active(c) /\ Shaped(c) /\ Walks(c)) \/ Leaves(c) \/ Claims(c)
<1> USE DEF store, local, ghost
<1>1. ASSUME NEW c \in Controllers, Step(c) \/ Crash(c) \/ Claim(c)
      PROVE  (Active(c) /\ Shaped(c) /\ Walks(c)) \/ Leaves(c) \/ Claims(c)
  BY <1>1, StepShape, StepWalks, StepIsActive, ReleaseLeaves, ClaimClaims
<1>2. ASSUME NEW c \in Controllers, Heartbeat(c) \/ HeartbeatThrows(c)
      PROVE  UNCHANGED <<row, my, pc>>
  BY <1>2 DEF Heartbeat, HeartbeatThrows
<1>3. CASE DeadlinePasses \/ LeasePasses \/ RetryTimeComes \/ ClaimOwnership \/ CancelInvestigation
  BY <1>3 DEF DeadlinePasses, LeasePasses, RetryTimeComes, ClaimOwnership, CancelInvestigation
<1>4. CASE UNCHANGED vars
  BY <1>4 DEF vars
<1> QED BY <1>1, <1>2, <1>3, <1>4 DEF Next

(* Only these change an action or the reasoning record. *)
LEMMA Changes ==
  ASSUME [Next]_vars
  PROVE  \/ UNCHANGED <<act, rev, reasoned>>
         \/ \E c \in Controllers : Propose(c) \/ Run(c) \/ Reason(c)
<1> USE DEF store, local, ghost
<1>1. ASSUME NEW c \in Controllers, Step(c), ~Propose(c), ~Run(c), ~Reason(c)
      PROVE  UNCHANGED <<act, rev, reasoned>>
  BY <1>1 DEF Step, TopStops, Bootstrap, Resume, Exhausted, Reserve, Refund, Send, SendCancelled,
     Respond, Refuse, RateLimit, TransportFails, Repair, DecisionThrows, Prepare, FlowBegins,
     FlowGoes, Wait, FlowStep, FlowEnds, Read, Conclude, Report, Error, Worked, Leave, Release
<1>2. ASSUME NEW c \in Controllers, Claim(c) \/ Heartbeat(c) \/ HeartbeatThrows(c) \/ Crash(c)
      PROVE  UNCHANGED <<act, rev, reasoned>>
  BY <1>2 DEF Claim, Heartbeat, HeartbeatThrows, Crash
<1>3. CASE DeadlinePasses \/ LeasePasses \/ RetryTimeComes \/ ClaimOwnership \/ CancelInvestigation
  BY <1>3 DEF DeadlinePasses, LeasePasses, RetryTimeComes, ClaimOwnership, CancelInvestigation
<1>4. CASE UNCHANGED vars
  BY <1>4 DEF vars
<1> QED BY <1>1, <1>2, <1>3, <1>4 DEF Next

-----------------------------------------------------------------------------
(* Generations whose decision is in the durable record, and stays there    *)
(* whoever writes the record next.                                         *)

Covers(r, g) == g < r.generations \/ (g = r.generations /\ r.phase # "request_inflight")
Known(g) == Covers(row.rec, g) /\ \A d \in Controllers : Runs(d) => Covers(my[d], g)

(* What the record knows, it knows for good. *)
LEMMA KnownStays ==
  ASSUME MInv, [Next]_vars, NEW g \in Int, Known(g)
  PROVE  Known(g)'
<1>1. /\ row.rec.generations \in Int
      /\ \A d \in Controllers : my[d].generations \in Int /\ my[d] \in Records
  BY DEF MInv, Typed, Records
<1>2. CASE UNCHANGED <<row, my, pc>>
  BY <1>2 DEF Known, Covers, Runs, Active
<1>3. ASSUME NEW c \in Controllers, Active(c), Shaped(c)
      PROVE  Known(g)'
  <2>1. \A d \in Controllers : d # c /\ Runs(d)' => Runs(d) /\ my'[d] = my[d]
    BY <1>3 DEF Shaped, Alters, Writes, Runs, Active
  <2>2. CASE row.runner = c
    <3>1. Covers(my[c], g)
      BY <1>3, <2>2 DEF Known, Runs
    <3>2. Asking(c) => g < my[c].generations
      BY <3>1 DEF Covers, MInv, Marked
    <3>3. Covers(my'[c], g)
      BY <1>1, <1>3, <3>1, <3>2 DEF Shaped, TakesAlong, Core, Settles, Reserves, Answered, Scheduled,
         Pins, Covers, Saved
    <3> QED BY <1>3, <2>1, <3>3 DEF Known, Shaped, Alters, Writes, Covers
  <2>3. CASE row.runner # c
    BY <1>3, <2>1, <2>3 DEF Known, Shaped, Alters, Writes, Runs, Covers
  <2> QED BY <2>2, <2>3
<1>4. ASSUME NEW c \in Controllers, Leaves(c)
      PROVE  Known(g)'
  <2>1. \A d \in Controllers : Runs(d)' => Runs(d) /\ my'[d] = my[d]
    BY <1>4, ControllerAssumption DEF Leaves, Runs, Active
  <2>2. CASE row' = row
    BY <2>1, <2>2 DEF Known, Covers
  <2>3. CASE row' # row
    <3>1. Covers(my[c], g)
      BY <1>4, <2>3 DEF Leaves, Known, Runs
    <3>2. PICK x \in {my[c].phase, "terminal"} : row'.rec = [my[c] EXCEPT !.phase = x]
      BY <1>4, <2>3 DEF Leaves
    <3>3. row'.rec.generations = my[c].generations /\ row'.rec.phase = x
      BY <1>1, <3>2 DEF Records
    <3> QED BY <2>1, <3>1, <3>3 DEF Known, Covers
  <2> QED BY <2>2, <2>3
<1>5. ASSUME NEW c \in Controllers, Claims(c)
      PROVE  Known(g)'
  BY <1>5 DEF Claims, Known, Covers, Runs
<1> QED BY <1>2, <1>3, <1>4, <1>5, Moves

Carried == \A c \in Controllers : Carries(c) => Saved(my[c]) /\ Known(my[c].generations)
Acts == [Keys -> [status : {"absent", "proposed", "waiting", "settled"}, cost : Int]]
Decides ==
  /\ act \in Acts
  /\ Carried
  /\ \A g \in Generations : act[Decided(g)].status # "absent" => Known(g)
  /\ \A g \in reasoned : g \in Int /\ Known(g)

(* A decision is carried out from a saved copy, and stays saved. *)
LEMMA CarriedStays ==
  ASSUME MInv, Carried, [Next]_vars
  PROVE  Carried'
<1>1. \A d \in Controllers : my[d].generations \in Int
  BY DEF MInv, Typed, Records
<1>3. ASSUME NEW d \in Controllers, Carries(d),
             my'[d].phase = my[d].phase, my'[d].generations = my[d].generations
      PROVE  Saved(my[d])' /\ Known(my[d].generations)'
  <2>1. PICK g \in Int : g = my[d].generations
    BY <1>1
  <2>2. Known(g)'
    BY <1>3, <2>1, KnownStays DEF Carried
  <2> QED BY <1>3, <2>1, <2>2 DEF Carried, Saved, Known, Covers
<1>4. CASE UNCHANGED <<row, my, pc>>
  BY <1>3, <1>4 DEF Carried, Carries
<1>5. ASSUME NEW c \in Controllers, (Active(c) /\ Shaped(c)) \/ Leaves(c) \/ Claims(c),
             Carries(c)' => Saved(my[c])' /\ Known(my[c].generations)'
      PROVE  Carried'
  <2>1. \A d \in Controllers : d # c => my'[d] = my[d] /\ (Carries(d)' => Carries(d))
    BY <1>5 DEF Shaped, Alters, Leaves, Claims, Carries
  <2> QED BY <1>3, <1>5, <2>1 DEF Carried
<1>6. ASSUME NEW c \in Controllers, Active(c), Shaped(c), Carries(c)'
      PROVE  Saved(my[c])' /\ Known(my[c].generations)'
  <2>1. CASE TakesAlong(c) \/ Pins(c)
    <3>1. Carries(c) /\ my'[c].phase = my[c].phase /\ my'[c].generations = my[c].generations
      BY <1>6, <2>1 DEF TakesAlong, Core, Pins, Carries
    <3> QED BY <1>3, <3>1
  <2>2. CASE Answered(c) \/ Scheduled(c)
    <3>1. Saved(my'[c]) /\ row'.runner = c /\ row'.rec = my'[c]
      BY <1>6, <2>2 DEF Answered, Scheduled, Writes
    <3> QED BY <3>1 DEF Known, Covers, Runs, Saved
  <2> QED BY <1>6, <2>1, <2>2 DEF Shaped, Settles, Reserves
<1>7. ASSUME NEW c \in Controllers, Leaves(c)
      PROVE  ~Carries(c)'
  BY <1>7 DEF Leaves, Carries
<1>8. ASSUME NEW c \in Controllers, Claims(c), Carries(c)'
      PROVE  Saved(my[c])' /\ Known(my[c].generations)'
  BY <1>8 DEF Claims, Carries, Known, Covers, Runs, Saved
<1> QED BY <1>4, <1>5, <1>6, <1>7, <1>8, Moves

(* Generations and workflow steps have keys of their own. *)
LEMMA KeysDiffer ==
  /\ \A g, h : Decided(g) = Decided(h) => g = h
  /\ \A g, n : Decided(g) # Flow(n)
  /\ \A m, n : Flow(m) = Flow(n) => m = n
  /\ \A g \in Generations : Decided(g) \in Keys
  /\ \A n \in 0..(FlowSteps - 1) : Flow(n) \in Keys
BY DEF Decided, Flow, Keys

(* The action of a key changes only in the hands of who carries it out.    *)
LEMMA ActChanges ==
  ASSUME act \in Acts, [Next]_vars, MInv
  PROVE  /\ act' \in Acts
         /\ \A k \in Keys : act'[k] = act[k]
              \/ \E c \in Controllers :
                   /\ pc[c] \in {"propose", "run"} /\ k = Key(c) /\ act'[k].status # "absent"
                   /\ pc[c] = "propose" => act[k].status = "absent" /\ act'[k].cost = CostOf(c)
                   /\ pc[c] = "run" => act'[k].cost = act[k].cost
                   /\ act[k].status = "settled" => act'[k].status = "settled"
<1>1. CASE act' = act
  BY <1>1
<1>2. ASSUME NEW c \in Controllers, Propose(c), act' # act
      PROVE  /\ act' \in Acts
             /\ \A k \in Keys : act'[k] = act[k]
                  \/ /\ pc[c] = "propose" /\ k = Key(c) /\ act'[k].status # "absent"
                     /\ act[k].status = "absent" /\ act'[k].cost = CostOf(c)
  <2> DEFINE k == Key(c)
             v == [status |-> "proposed", cost |-> CostOf(c)]
  <2>1. act' = [act EXCEPT ![k] = v] /\ pc[c] = "propose" /\ act[k].status = "absent"
    BY <1>2 DEF Propose
  <2>2. v \in [status : {"absent", "proposed", "waiting", "settled"}, cost : Int] /\ v.cost = CostOf(c)
    BY DEF MInv, Typed, Records, CostOf
  <2>3. v.status = "proposed"
    OBVIOUS
  <2> HIDE DEF v, k
  <2>4. act' \in Acts
    BY <2>1, <2>2 DEF Acts
  <2>5. \A j \in Keys : act'[j] = IF j = k THEN v ELSE act[j]
    BY <2>1 DEF Acts
  <2> QED BY <2>1, <2>2, <2>3, <2>4, <2>5 DEF k
<1>3. ASSUME NEW c \in Controllers, Run(c)
      PROVE  /\ act' \in Acts
             /\ \A k \in Keys : act'[k] = act[k]
                  \/ /\ pc[c] = "run" /\ k = Key(c) /\ act'[k].status # "absent"
                     /\ act'[k].cost = act[k].cost
                     /\ act[k].status = "settled" => act'[k].status = "settled"
  <2> DEFINE k == Key(c)
  <2>1. PICK s \in {"waiting", "settled"} :
          /\ act' = [act EXCEPT ![k].status = s] /\ pc[c] = "run"
          /\ act[k].status = "settled" => s = "settled"
    BY <1>3 DEF Run
  <2> HIDE DEF k
  <2>2. act' \in Acts
    BY <2>1 DEF Acts
  <2>3. \A j \in Keys : act'[j] = IF j = k THEN [act[j] EXCEPT !.status = s] ELSE act[j]
    BY <2>1 DEF Acts
  <2>4. \A j \in Keys : act[j] \in [status : {"absent", "proposed", "waiting", "settled"}, cost : Int]
    BY DEF Acts
  <2>5. \A j \in Keys : j = k => act'[j].status = s /\ act'[j].cost = act[j].cost
    BY <2>3, <2>4
  <2> QED BY <2>1, <2>2, <2>3, <2>5 DEF k
<1>4. ASSUME NEW c \in Controllers, Reason(c) PROVE act' = act
  BY <1>4 DEF Reason
<1>5. act' = act \/ \E c \in Controllers : act' # act /\ (Propose(c) \/ Run(c))
  BY <1>4, Changes
<1> QED BY <1>1, <1>2, <1>3, <1>5

(* Actions and reasoning updates belong to saved decisions. *)
LEMMA DecidesKeeps ==
  ASSUME MInv, Decides, [Next]_vars
  PROVE  Decides'
<1>1. act' \in Acts /\ Carried'
  BY CarriedStays, ActChanges DEF Decides
<1>2. ASSUME NEW g \in Generations, act'[Decided(g)].status # "absent" PROVE Known(g)'
  <2>1. Decided(g) \in Keys /\ g \in Int
    BY KeysDiffer, ControllerAssumption DEF Generations
  <2>2. CASE act'[Decided(g)] = act[Decided(g)]
    BY <1>2, <2>1, <2>2, KnownStays DEF Decides
  <2>3. CASE act'[Decided(g)] # act[Decided(g)]
    <3>1. PICK c \in Controllers : pc[c] \in {"propose", "run"} /\ Decided(g) = Key(c)
      BY <2>1, <2>3, ActChanges DEF Decides
    <3>2. g = my[c].generations
      BY <3>1, KeysDiffer DEF Key
    <3>3. Known(g)
      BY <3>1, <3>2 DEF Decides, Carried, Carries
    <3> QED BY <2>1, <3>3, KnownStays
  <2> QED BY <2>2, <2>3
<1>3. ASSUME NEW g \in reasoned' PROVE g \in Int /\ Known(g)'
  <2>1. CASE g \in reasoned
    BY <2>1, KnownStays DEF Decides
  <2>2. CASE g \notin reasoned
    <3>1. PICK c \in Controllers : Reason(c)
      BY <1>3, <2>2, Changes DEF Propose, Run, ghost
    <3>2. g = my[c].generations /\ pc[c] = "decide"
      BY <1>3, <2>2, <3>1 DEF Reason
    <3>3. Known(g) /\ g \in Int
      BY <3>2 DEF Decides, Carried, Carries, MInv, Typed, Records
    <3> QED BY <3>3, KnownStays
  <2> QED BY <2>1, <2>2
<1> QED BY <1>1, <1>2, <1>3 DEF Decides

-----------------------------------------------------------------------------
(* Where a workflow stands. *)

(* The cursor is past settled steps only. *)
Past(a, n) == 0 < n /\ n < FlowSteps => a[Flow(n - 1)].status = "settled"
Ordered ==
  /\ act \in Acts
  /\ row.rec.next \in Nat /\ Past(act, row.rec.next)
  /\ \A c \in Controllers :
       /\ my[c].next \in Nat /\ Past(act, my[c].next)
       /\ pc[c] = "step" => Past(act, my[c].next + 1)
  /\ FlowInOrder

(* A settled step stays settled. *)
LEMMA PastStays ==
  ASSUME MInv, act \in Acts, [Next]_vars, NEW n \in Int, Past(act, n)
  PROVE  Past(act', n)
<1> SUFFICES ASSUME 0 < n, n < FlowSteps PROVE act'[Flow(n - 1)].status = "settled"
  BY DEF Past
<1>1. n - 1 \in 0..(FlowSteps - 1) /\ act[Flow(n - 1)].status = "settled"
  BY ControllerAssumption DEF Past
<1>2. Flow(n - 1) \in Keys
  BY <1>1, KeysDiffer
<1> QED BY <1>1, <1>2, ActChanges

(* A step is proposed only past settled ones. *)
LEMMA InOrderStays ==
  ASSUME MInv, Ordered, [Next]_vars
  PROVE  FlowInOrder'
<1>1. act \in Acts /\ act' \in Acts
  BY ActChanges DEF Ordered
<1> SUFFICES ASSUME NEW n \in 1..(FlowSteps - 1), act'[Flow(n)].status # "absent"
             PROVE  act'[Flow(n - 1)].status = "settled"
  BY DEF FlowInOrder
<1>2. n \in 0..(FlowSteps - 1) /\ n \in Int /\ 0 < n /\ n < FlowSteps /\ Flow(n) \in Keys
  BY KeysDiffer, ControllerAssumption
<1>3. Past(act, n)
  <2>1. CASE act'[Flow(n)] = act[Flow(n)]
    BY <2>1 DEF Ordered, FlowInOrder, Past
  <2>2. CASE act'[Flow(n)] # act[Flow(n)]
    <3>1. PICK c \in Controllers : Flow(n) = Key(c)
      BY <1>1, <1>2, <2>2, ActChanges
    <3>2. n = my[c].next
      BY <3>1, KeysDiffer DEF Key
    <3> QED BY <3>2 DEF Ordered
  <2> QED BY <2>1, <2>2
<1> QED BY <1>1, <1>2, <1>3, PastStays DEF Past

(* The cursor of every record stays past settled steps. *)
LEMMA OrderedKeeps ==
  ASSUME MInv, Ordered, [Next]_vars
  PROVE  Ordered'
<1>1. act \in Acts /\ act' \in Acts /\ FlowInOrder'
  BY ActChanges, InOrderStays DEF Ordered
<1>2. \A n \in Int : Past(act, n) => Past(act', n)
  BY <1>1, PastStays
<1>3. /\ row.rec.next \in Nat /\ Past(act', row.rec.next)
      /\ \A c \in Controllers :
           /\ my[c].next \in Nat /\ my[c].next + 1 \in Nat /\ Past(act', my[c].next)
           /\ pc[c] = "step" => Past(act', my[c].next + 1)
  BY <1>2 DEF Ordered
<1>4. CASE UNCHANGED <<row, my, pc>>
  BY <1>1, <1>3, <1>4 DEF Ordered
<1>5. ASSUME NEW c \in Controllers, Claims(c) PROVE Ordered'
  BY <1>1, <1>3, <1>5 DEF Claims, Ordered
<1>6. ASSUME NEW c \in Controllers, Leaves(c) PROVE Ordered'
  <2>2. row'.rec.next \in {row.rec.next, my[c].next}
    BY <1>6 DEF Leaves, MInv, Typed, Records
  <2>3. /\ my'[c].next = 0 /\ pc'[c] = "done"
        /\ \A d \in Controllers : d # c => my'[d] = my[d] /\ pc'[d] = pc[d]
    BY <1>6 DEF Leaves, NewRecord
  <2>4. Past(act', 0)
    BY DEF Past
  <2> QED BY <1>1, <1>3, <2>2, <2>3, <2>4 DEF Ordered
<1>7. ASSUME NEW c \in Controllers, Shaped(c), Walks(c) PROVE Ordered'
  <2>1. Walks(c) /\ Alters(c)
    BY <1>7 DEF Shaped
  <2>2. Past(act', FlowSteps) /\ FlowSteps \in Nat
    BY ControllerAssumption DEF Past
  <2>3. my'[c].next \in Nat /\ Past(act', my'[c].next)
    BY <1>3, <2>1, <2>2 DEF Walks
  <2>4. ASSUME pc'[c] = "step" PROVE Past(act', my'[c].next + 1)
    <3> DEFINE n == my[c].next
    <3>1. /\ my'[c].next = n /\ n \in Nat /\ Key(c) = Flow(n)
          /\ act' = [act EXCEPT ![Flow(n)].status = "settled"]
      BY <1>3, <2>1, <2>4 DEF Walks, Key
    <3> HIDE DEF n
    <3>2. CASE n + 1 < FlowSteps
      <4>1. Flow(n) \in Keys
        BY <3>1, <3>2, KeysDiffer, ControllerAssumption
      <4>2. act'[Flow(n)].status = "settled"
        BY <1>1, <3>1, <4>1 DEF Acts
      <4>3. (n + 1) - 1 = n
        BY <3>1
      <4> QED BY <3>1, <4>2, <4>3 DEF Past
    <3>3. CASE ~(n + 1 < FlowSteps)
      BY <3>1, <3>3 DEF Past
    <3> QED BY <3>2, <3>3
  <2>5. row'.rec.next \in {row.rec.next, my'[c].next}
    BY <2>1 DEF Alters, Writes
  <2>6. \A d \in Controllers : d # c => my'[d] = my[d] /\ pc'[d] = pc[d]
    BY <2>1 DEF Alters
  <2> QED BY <1>1, <1>3, <2>3, <2>4, <2>5, <2>6 DEF Ordered
<1> QED BY <1>4, <1>5, <1>6, <1>7, Moves

-----------------------------------------------------------------------------
(* A 429: whoever runs the row until the retry time comes knows of it, or  *)
(* found the mark of the request and only ends.                            *)

Heeds(r) == r.retry \/ r.phase \in Marks
BackedOff ==
  ~due =>
    /\ \A c \in Controllers : ~Asking(c)
    /\ Heeds(row.rec)
    /\ \A d \in Controllers : Runs(d) =>
         /\ pc[d] \in Ends \cup {"top"} /\ Heeds(my[d])
         /\ pc[d] = "top" => my[d].retry \/ my[d].phase = "terminal"
         /\ pc[d] = "report" => then[d] = Away

(* A controller changes where no other one goes. *)
LEMMA ThenOf ==
  ASSUME MInv, NEW c \in Controllers, Step(c) \/ Claim(c) \/ Crash(c)
  PROVE  \A d \in Controllers : d # c => then'[d] = then[d]
BY DEF MInv, Typed, Claim, Crash, Step, TopStops, Bootstrap, Resume, Exhausted, Reserve, Refund, Send,
   SendCancelled, Respond, Refuse, RateLimit, TransportFails, Repair, DecisionThrows, Prepare,
   FlowBegins, FlowGoes, Propose, Run, Wait, FlowStep, FlowEnds, Reason, Read, Conclude, Report,
   Error, Worked, Leave, Release, Forget, local, ghost

(* What remains to do at the head of the loop and in the ends. *)
LEMMA EndOnly ==
  ASSUME NEW c \in Controllers, Step(c), pc[c] \in Ends \cup {"top"}
  PROVE  TopGoes(c) \/ TopStops(c) \/ Report(c) \/ Leave(c) \/ Release(c)
BY DEF Step, TopStops, Bootstrap, Resume, Exhausted, Reserve, Refund, Send, SendCancelled,
   Respond, Refuse, RateLimit, TransportFails, Repair, DecisionThrows, Prepare,
   FlowBegins, FlowGoes, Propose, Run, Wait, FlowStep, FlowEnds, Reason, Read, Conclude, Report,
   Error, Worked, Leave, Release, Ends

(* Only a 429 starts the wait. *)
LEMMA DueChanges ==
  ASSUME [Next]_vars, ~due'
  PROVE  ~due \/ \E c \in Controllers : RateLimit(c)
<1> USE DEF store, local, ghost
<1>1. ASSUME NEW c \in Controllers, Step(c), ~RateLimit(c) PROVE due' = due
  BY <1>1 DEF Step, TopStops, Bootstrap, Resume, Exhausted, Reserve, Refund, Send, SendCancelled,
     Respond, Refuse, TransportFails, Repair, DecisionThrows, Prepare,
     FlowBegins, FlowGoes, Propose, Run, Wait, FlowStep, FlowEnds, Reason, Read, Conclude, Report,
     Error, Worked, Leave, Release
<1>2. ASSUME NEW c \in Controllers, Claim(c) \/ Heartbeat(c) \/ HeartbeatThrows(c) \/ Crash(c)
      PROVE  due' = due
  BY <1>2 DEF Claim, Heartbeat, HeartbeatThrows, Crash
<1>3. CASE DeadlinePasses \/ LeasePasses \/ RetryTimeComes \/ ClaimOwnership \/ CancelInvestigation
  BY <1>3 DEF DeadlinePasses, LeasePasses, RetryTimeComes, ClaimOwnership, CancelInvestigation
<1>4. CASE UNCHANGED vars
  BY <1>4 DEF vars
<1> QED BY <1>1, <1>2, <1>3, <1>4 DEF Next

(* The 429 finds nobody else asking, and whoever runs the row only ends. *)
LEMMA RateLimitBacksOff ==
  ASSUME MInv, NEW c \in Controllers, RateLimit(c)
  PROVE  BackedOff'
<1> DEFINE rec == [my[c] EXCEPT !.phase = "ready", !.retry = TRUE]
<1>1. rec.retry /\ my[c] \in Records
  BY DEF Records, MInv, Typed
<1>2. Save(c, rec, "leave", "closing") /\ Asking(c) /\ then' = then
  BY DEF RateLimit, Asking, Asks
<1> HIDE DEF rec
<1>3. Alters(c) /\ my'[c] = rec /\ pc'[c] \in {"leave", "closing"}
  BY <1>2, SaveIs
<1>4. \A d \in Controllers : ~Asking(d)'
  BY <1>2, <1>3 DEF MInv, Alone, Alters, Asking, Asks
<1>5. Heeds(row'.rec)
  BY <1>1, <1>2, <1>3 DEF MInv, Marked, Alters, Writes, Heeds
<1>6. ASSUME NEW d \in Controllers, Runs(d)'
      PROVE  /\ pc'[d] \in Ends \cup {"top"} /\ Heeds(my'[d])
             /\ pc'[d] = "top" => my'[d].retry \/ my'[d].phase = "terminal"
             /\ pc'[d] = "report" => then'[d] = Away
  <2>1. CASE d = c
    BY <1>1, <1>3, <2>1 DEF Ends, Heeds
  <2>2. CASE d # c
    <3>1. row.runner = d /\ Active(d) /\ my'[d] = my[d] /\ pc'[d] = pc[d] /\ then'[d] = then[d]
      BY <1>2, <1>3, <1>6, <2>2 DEF Runs, Active, Alters, Writes
    <3> QED BY <1>2, <2>2, <3>1 DEF MInv, Yields, Heeds
  <2> QED BY <2>1, <2>2
<1> QED BY <1>4, <1>5, <1>6 DEF BackedOff

(* Until the retry time comes, it stays so. *)
LEMMA BackedOffKeeps ==
  ASSUME MInv, BackedOff, [Next]_vars
  PROVE  BackedOff'
<1> USE DEF store, local, ghost
<1> SUFFICES ASSUME ~due' PROVE BackedOff'
  BY DEF BackedOff
<1>1. CASE \E c \in Controllers : RateLimit(c)
  BY <1>1, RateLimitBacksOff
<1> SUFFICES ASSUME ~due PROVE BackedOff'
  BY <1>1, DueChanges
<1>2. /\ \A c \in Controllers : ~Asking(c) /\ my[c] \in Records
      /\ Heeds(row.rec)
  BY DEF BackedOff, MInv, Typed
<1>3. \A d \in Controllers : Runs(d) =>
         /\ pc[d] \in Ends \cup {"top"} /\ Heeds(my[d])
         /\ pc[d] = "top" => my[d].retry \/ my[d].phase = "terminal"
         /\ pc[d] = "report" => then[d] = Away
  BY DEF BackedOff
<1>4. CASE UNCHANGED <<row, my, pc, then>>
  BY <1>2, <1>3, <1>4 DEF BackedOff, Runs, Active, Asking
<1>5. ASSUME NEW c \in Controllers, Claim(c) PROVE BackedOff'
  <2>1. /\ Claims(c) /\ pc'[c] = (IF row.rec.phase = "request_inflight" THEN "report" ELSE "top")
        /\ then' = then /\ then[c] = Away
    BY <1>5, ClaimClaims DEF Claim, Goto, MInv, Typed, Final
  <2>2. \A d \in Controllers : ~Asking(d)'
    BY <1>2, <2>1 DEF Claims, Asking, Asks
  <2>3. Heeds(row'.rec) /\ \A d \in Controllers : Runs(d)' => d = c
    BY <1>2, <2>1 DEF Claims, Runs
  <2>4. /\ pc'[c] \in Ends \cup {"top"} /\ Heeds(my'[c]) /\ then'[c] = Away
        /\ pc'[c] = "top" => my'[c].retry \/ my'[c].phase = "terminal"
    BY <1>2, <2>1 DEF Claims, Heeds, Marks, Ends
  <2> QED BY <2>2, <2>3, <2>4 DEF BackedOff
<1>6. ASSUME NEW c \in Controllers, Release(c) \/ Crash(c) PROVE BackedOff'
  <2>1. Leaves(c) /\ \A d \in Controllers : d # c => then'[d] = then[d]
    BY <1>6, ReleaseLeaves, ThenOf DEF Step
  <2>2. \A d \in Controllers : ~Asking(d)'
    BY <1>2, <2>1 DEF Leaves, Asking, Asks
  <2>3. \A d \in Controllers : Runs(d)' => d # c /\ Runs(d) /\ my'[d] = my[d] /\ pc'[d] = pc[d]
    BY <2>1, ControllerAssumption DEF Leaves, Runs, Active
  <2>4. Heeds(row'.rec)
    <3>1. CASE row' = row
      BY <1>2, <3>1
    <3>2. CASE row' # row
      <4>1. Heeds(my[c])
        BY <1>3, <2>1, <3>2 DEF Leaves, Runs
      <4>2. PICK x \in {my[c].phase, "terminal"} : row'.rec = [my[c] EXCEPT !.phase = x]
        BY <2>1, <3>2 DEF Leaves
      <4>3. row'.rec.retry = my[c].retry /\ row'.rec.phase = x
        BY <1>2, <4>2 DEF Records
      <4> QED BY <4>1, <4>2, <4>3 DEF Heeds, Marks
    <3> QED BY <3>1, <3>2
  <2> QED BY <1>3, <2>1, <2>2, <2>3, <2>4 DEF BackedOff
<1>7. ASSUME NEW c \in Controllers, Step(c), ~Release(c) PROVE BackedOff'
  <2>1. Alters(c) /\ Walks(c) /\ Active(c) /\ \A d \in Controllers : d # c => then'[d] = then[d]
    BY <1>7, StepShape, StepWalks, StepIsActive, ThenOf DEF Shaped
  <2>2. CASE row.runner # c
    <3>1. row' = row /\ \A d \in Controllers : ~Asking(d)'
      BY <1>2, <2>1, <2>2 DEF Alters, Writes, Walks, Asking
    <3>2. \A d \in Controllers : Runs(d)' => Runs(d) /\ d # c
      BY <2>1, <2>2, <3>1 DEF Alters, Runs, Active
    <3> QED BY <1>2, <1>3, <2>1, <3>1, <3>2 DEF BackedOff, Alters
  <2>3. CASE row.runner = c
    <3>1. /\ pc[c] \in Ends \cup {"top"} /\ Heeds(my[c])
          /\ pc[c] = "top" => my[c].retry \/ my[c].phase = "terminal"
          /\ pc[c] = "report" => then[c] = Away
      BY <1>3, <2>1, <2>3 DEF Runs
    <3>2. ~TopGoes(c)
      BY <3>1 DEF TopGoes, Waiting, MInv, Final
    <3>3. TopStops(c) \/ Report(c) \/ Leave(c)
      BY <1>7, <3>1, <3>2, EndOnly
    <3>4. UNCHANGED <<row, my, then>>
      BY <3>3 DEF TopStops, Report, Leave
    <3>5. pc'[c] \in {"leave", "closing"}
      <4>1. PICK l \in {"leave", "closing"} : Goto(c, l)
        BY <3>1, <3>3 DEF TopStops, Report, Leave, Away
      <4> QED BY <4>1 DEF Goto, MInv, Typed
    <3>6. \A d \in Controllers : ~Asking(d)'
      BY <1>2, <2>1, <3>5 DEF Alters, Asking, Asks
    <3>7. \A d \in Controllers : Runs(d)' => Runs(d)
      BY <2>1, <2>3, <3>4 DEF Alters, Runs, Active
    <3> QED BY <1>2, <1>3, <2>1, <3>4, <3>5, <3>6, <3>7 DEF BackedOff, Alters, Ends
  <2> QED BY <2>2, <2>3
<1>8. ASSUME NEW c \in Controllers, Heartbeat(c) \/ HeartbeatThrows(c)
      PROVE  BackedOff'
  BY <1>4, <1>8 DEF Heartbeat, HeartbeatThrows
<1>9. CASE DeadlinePasses \/ LeasePasses \/ RetryTimeComes \/ ClaimOwnership \/ CancelInvestigation
  BY <1>4, <1>9 DEF DeadlinePasses, LeasePasses, RetryTimeComes, ClaimOwnership, CancelInvestigation
<1>10. CASE UNCHANGED vars
  BY <1>4, <1>10 DEF vars
<1> QED BY <1>5, <1>6, <1>7, <1>8, <1>9, <1>10 DEF Next

-----------------------------------------------------------------------------
(* The reasoning update of a generation: every record it may be applied    *)
(* from expects the same revision, which is past once it was applied.      *)

Holds(c) == Carries(c) \/ Runs(c)
Reasons(r) == Saved(r) /\ r.pending = "reason"
Older(r) == Reasons(r) /\ r.generations \in reasoned => r.expect < rev
Same(r, s) == Reasons(r) /\ Reasons(s) /\ r.generations = s.generations => r.expect = s.expect
Agree ==
  /\ rev \in Int
  /\ Older(row.rec)
  /\ \A c \in Controllers : Holds(c) => Older(my[c]) /\ Same(row.rec, my[c])
  /\ \A c, d \in Controllers : Holds(c) /\ Holds(d) => Same(my[c], my[d])

(* What c may hold or write beside the others. *)
Fits(r, c) ==
  /\ Older(r) /\ Same(row.rec, r)
  /\ \A d \in Controllers : d # c /\ Holds(d) => Same(my[d], r)

(* One controller moves, with a copy that fits the others. *)
LEMMA AgreeStep ==
  ASSUME Agree, NEW c \in Controllers, NEW r, UNCHANGED <<rev, reasoned>>,
         \A d \in Controllers : d # c => my'[d] = my[d] /\ (Holds(d)' => Holds(d)),
         Holds(c)' => my'[c] = r,
         row'.rec = row.rec \/ row'.rec = r,
         Holds(c)' \/ row'.rec = r => Fits(r, c)
  PROVE  Agree'
<1>1. rev' \in Int /\ Older(row.rec)'
  BY DEF Agree, Fits, Older
<1>2. \A d \in Controllers : Holds(d)' => Older(my[d])' /\ Same(row.rec, my[d])'
  BY DEF Agree, Fits, Older, Same
<1>3. \A d, e \in Controllers : Holds(d)' /\ Holds(e)' => Same(my[d], my[e])'
  BY DEF Agree, Fits, Same
<1> QED BY <1>1, <1>2, <1>3 DEF Agree

(* A copy with the same decision, or without one, still fits. *)
LEMMA SameFits ==
  ASSUME Agree, NEW c \in Controllers, Holds(c), NEW r, Core(my[c], r) \/ ~Reasons(r)
  PROVE  Fits(r, c)
BY DEF Agree, Fits, Core, Older, Same, Reasons, Saved

(* An answer is of a generation nobody else carries out. *)
LEMMA AnswerFits ==
  ASSUME MInv, Decides, NEW c \in Controllers, Asking(c), row.runner = c, NEW r,
         r.generations = my[c].generations
  PROVE  /\ Fits(r, c)
         /\ \A d \in Controllers : Carries(d) => my[d].generations # r.generations
         /\ \A g \in Generations : act[Decided(g)].status # "absent" => g # r.generations
<1>1. /\ Runs(c) /\ row.rec.phase \in Marks /\ my[c].phase = "request_inflight"
      /\ my[c].generations \in Int
  BY DEF MInv, Typed, Records, Marked, Runs, Asking, Active, Asks
<1>2. \A g : Known(g) => g # my[c].generations
  BY <1>1 DEF Known, Covers
<1>3. ASSUME NEW d \in Controllers, Carries(d) PROVE my[d].generations # r.generations
  BY <1>2, <1>3 DEF Decides, Carried
<1>4. ASSUME NEW d \in Controllers, Runs(d) PROVE d = c
  BY <1>4 DEF Runs
<1>5. r.generations \notin reasoned
  BY <1>2 DEF Decides
<1>6. ~Reasons(row.rec)
  BY <1>1 DEF Reasons, Saved, Marks
<1>7. \A g \in Generations : act[Decided(g)].status # "absent" => g # r.generations
  BY <1>2 DEF Decides
<1> QED BY <1>3, <1>4, <1>5, <1>6, <1>7 DEF Fits, Older, Same, Holds

(* An update makes every record of its decision older than the revision. *)
LEMMA ReasonAgrees ==
  ASSUME MInv, Decides, Agree, NEW c \in Controllers, Reason(c)
  PROVE  Agree' /\ my[c].generations \notin reasoned
<1>1. /\ pc[c] = "decide" /\ my[c].pending = "reason" /\ my[c].expect = rev /\ rev' = rev + 1
      /\ reasoned' = reasoned \cup {my[c].generations} /\ row' = row /\ my' = my
      /\ pc' = [pc EXCEPT ![c] = "worked"]
  BY DEF Reason, Goto
<1>2. Reasons(my[c]) /\ Holds(c)
  BY <1>1 DEF Decides, Carried, Carries, Reasons, Holds
<1>3. \A d \in Controllers : Holds(d)' => Holds(d)
  BY <1>1 DEF MInv, Typed, Holds, Carries, Runs, Active
<1>4. my[c].generations \notin reasoned
  BY <1>1, <1>2 DEF Agree, Older
<1>5. /\ \A d \in Controllers : my[d].expect \in Int
      /\ row.rec.expect \in Int /\ rev \in Int /\ rev' \in Int
  BY <1>1 DEF MInv, Typed, Records, Agree
<1>6. Older(row.rec)'
  BY <1>1, <1>2, <1>5 DEF Agree, Older, Same, Reasons, Saved
<1>7. \A d \in Controllers : Holds(d) => Older(my[d])'
  BY <1>1, <1>2, <1>5 DEF Agree, Older, Same, Reasons, Saved
<1>8. \A d \in Controllers : Holds(d) => Same(row.rec, my[d])'
  BY <1>1 DEF Agree, Same
<1>9. \A d, e \in Controllers : Holds(d) /\ Holds(e) => Same(my[d], my[e])'
  BY <1>1 DEF Agree, Same
<1> QED BY <1>3, <1>4, <1>5, <1>6, <1>7, <1>8, <1>9 DEF Agree

(* Every step keeps the agreement on reasoning updates. *)
LEMMA AgreeKeeps ==
  ASSUME MInv, Decides, Agree, [Next]_vars
  PROVE  Agree'
<1>1. CASE \E c \in Controllers : Reason(c)
  BY <1>1, ReasonAgrees
<1>2. CASE UNCHANGED <<rev, reasoned>>
  <2>1. CASE UNCHANGED <<row, my, pc>>
    BY <1>2, <2>1 DEF Agree, Older, Same, Holds, Carries, Runs, Active
  <2>2. ASSUME NEW c \in Controllers, Active(c), Shaped(c) PROVE Agree'
    <3> DEFINE r == my'[c]
    <3>1. \A d \in Controllers : d # c => my'[d] = my[d] /\ (Holds(d)' => Holds(d))
      BY <2>2 DEF Shaped, Alters, Writes, Holds, Carries, Runs, Active
    <3>2. row'.rec = row.rec \/ row'.rec = r
      BY <2>2 DEF Shaped, Alters, Writes
    <3>3. Writes(c) \/ Runs(c)' => Runs(c)
      BY <2>2 DEF Shaped, Alters, Writes, Runs
    <3>4. ASSUME Holds(c)' \/ Writes(c) PROVE Fits(r, c)
      <4>1. CASE TakesAlong(c) \/ Pins(c)
        <5>1. Holds(c)
          BY <3>3, <3>4, <4>1 DEF TakesAlong, Pins, Holds, Carries
        <5>2. Core(my[c], r) \/ ~Reasons(r)
          BY <4>1 DEF TakesAlong, Pins, Reasons, Core
        <5> HIDE DEF r
        <5> QED BY <5>1, <5>2, SameFits
      <4>2. CASE Settles(c) \/ Reserves(c) \/ Scheduled(c)
        <5>1. Holds(c)
          BY <3>3, <3>4, <4>2 DEF Settles, Reserves, Scheduled, Holds
        <5>2. ~Reasons(r)
          BY <4>2 DEF Settles, Reserves, Scheduled, Reasons, Saved
        <5> HIDE DEF r
        <5> QED BY <5>1, <5>2, SameFits
      <4>3. CASE Answered(c)
        <5>1. row.runner = c /\ Asking(c) /\ r.generations = my[c].generations
          BY <3>3, <3>4, <4>3 DEF Answered, Holds, Runs, Writes
        <5> HIDE DEF r
        <5> QED BY <5>1, AnswerFits
      <4> QED BY <2>2, <4>1, <4>2, <4>3 DEF Shaped
    <3>5. Fits(r, c) \/ (~Holds(c)' /\ row'.rec = row.rec)
      BY <2>2, <3>4 DEF Shaped, Alters
    <3>6. CASE Fits(r, c)
      BY <1>2, <3>1, <3>2, <3>6, AgreeStep
    <3>7. CASE ~Holds(c)' /\ row'.rec = row.rec
      BY <1>2, <3>1, <3>7 DEF Agree, Older, Same
    <3> QED BY <3>5, <3>6, <3>7
  <2>3. ASSUME NEW c \in Controllers, Leaves(c) PROVE Agree'
    <3>1. \A d \in Controllers : d # c => my'[d] = my[d] /\ (Holds(d)' => Holds(d))
      BY <2>3, ControllerAssumption DEF Leaves, Holds, Carries, Runs, Active
    <3>2. ~Holds(c)'
      BY <2>3 DEF Leaves, Holds, Carries, Runs, Active
    <3>3. CASE row' = row
      BY <1>2, <3>1, <3>2, <3>3 DEF Agree, Older, Same
    <3>4. CASE row' # row
      <4>1. PICK x \in {my[c].phase, "terminal"} : row'.rec = [my[c] EXCEPT !.phase = x]
        BY <2>3, <3>4 DEF Leaves
      <4>2. Holds(c) /\ my[c] \in Records
        BY <2>3, <3>4 DEF Leaves, Holds, Runs, MInv, Typed
      <4>3. Core(my[c], row'.rec) \/ ~Reasons(row'.rec)
        BY <4>1, <4>2 DEF Records, Core, Reasons, Saved
      <4> DEFINE r == row'.rec
      <4>4. Core(my[c], r) \/ ~Reasons(r)
        BY <4>3
      <4>5. row'.rec = r
        OBVIOUS
      <4> HIDE DEF r
      <4> QED BY <1>2, <3>1, <3>2, <4>2, <4>4, <4>5, SameFits, AgreeStep
    <3> QED BY <3>3, <3>4
  <2>4. ASSUME NEW c \in Controllers, Claims(c) PROVE Agree'
    <3>1. \A d \in Controllers : d # c => my'[d] = my[d] /\ (Holds(d)' => Holds(d))
      BY <2>4 DEF Claims, Holds, Carries, Runs, Active
    <3>2. Fits(row.rec, c)
      BY DEF Agree, Fits, Same
    <3>3. my'[c] = row.rec /\ row'.rec = row.rec
      BY <2>4 DEF Claims
    <3> QED BY <1>2, <3>1, <3>2, <3>3, AgreeStep
  <2> QED BY <2>1, <2>2, <2>3, <2>4, Moves
<1> QED BY <1>1, <1>2, Changes DEF Propose, Run, ghost

-----------------------------------------------------------------------------
(* What is proposed for a generation is what was pinned for it. *)

Bounded ==
  /\ row.rec.generations <= MaxGenerations
  /\ \A c \in Controllers : my[c].generations <= MaxGenerations
Placed ==
  \A c \in Controllers :
    /\ pc[c] \in {"flow", "step"} => my[c].pending = "function"
    /\ pc[c] = "propose" =>
         \/ my[c].pending = "analyze" /\ my[c].pinned # 0
         \/ my[c].pending = "function" /\ my[c].next < FlowSteps
    /\ pc[c] = "run" => Key(c) \in Keys /\ act[Key(c)].status # "absent"
Priced ==
  /\ \A g \in Generations : act[Decided(g)].status # "absent" => act[Decided(g)].cost # 0
  /\ \A n \in 0..(FlowSteps - 1) : act[Flow(n)].status # "absent" => act[Flow(n)].cost = 1
Costed == Ordered /\ Bounded /\ Placed /\ Priced

(* Every record stays within its generations. *)
LEMMA BoundedKeeps ==
  ASSUME MInv, Bounded, [Next]_vars
  PROVE  Bounded'
<1>1. /\ MaxGenerations \in Nat
      /\ \A c \in Controllers : my[c].generations \in Nat /\ my[c] \in Records
  BY ControllerAssumption DEF MInv, Typed, Records
<1>2. CASE UNCHANGED <<row, my, pc>>
  BY <1>2 DEF Bounded
<1>3. ASSUME NEW c \in Controllers, Shaped(c) PROVE Bounded'
  <2>1. my'[c].generations <= MaxGenerations
    BY <1>1, <1>3 DEF Bounded, Shaped, TakesAlong, Core, Settles, Reserves, Answered, Scheduled, Pins
  <2> QED BY <1>3, <2>1 DEF Bounded, Shaped, Alters, Writes
<1>4. ASSUME NEW c \in Controllers, Leaves(c) PROVE Bounded'
  <2>1. my'[c].generations <= MaxGenerations
    BY <1>1, <1>4 DEF Leaves, NewRecord
  <2>2. row'.rec.generations \in {row.rec.generations, my[c].generations}
    BY <1>1, <1>4 DEF Leaves, Records
  <2> QED BY <1>4, <2>1, <2>2 DEF Bounded, Leaves
<1>5. ASSUME NEW c \in Controllers, Claims(c) PROVE Bounded'
  BY <1>5 DEF Bounded, Claims
<1> QED BY <1>2, <1>3, <1>4, <1>5, Moves

(* What is proposed has a key. *)
LEMMA ProposedKey ==
  ASSUME MInv, Costed, NEW c \in Controllers, pc[c] = "propose"
  PROVE  Key(c) \in Keys
<1>1. /\ my[c].generations \in Nat /\ my[c].generations <= MaxGenerations
      /\ my[c].next \in Nat
  BY DEF MInv, Typed, Records, Costed, Bounded, Ordered
<1>2. CASE my[c].pending = "analyze"
  <2>1. my[c].generations \in Generations
    BY <1>1, ControllerAssumption DEF Generations
  <2> QED BY <1>2, <2>1, KeysDiffer DEF Key
<1>3. CASE my[c].pending # "analyze" /\ my[c].next < FlowSteps
  <2>1. my[c].next \in 0..(FlowSteps - 1)
    BY <1>1, <1>3, ControllerAssumption
  <2> QED BY <1>3, <2>1, KeysDiffer DEF Key
<1> QED BY <1>2, <1>3 DEF Costed, Placed

(* Each place is reached only with the decision it carries out. *)
LEMMA PlacedKeeps ==
  ASSUME MInv, Costed, [Next]_vars
  PROVE  Placed'
<1>1. act \in Acts
  BY DEF Costed, Ordered
<1>2. \A k \in Keys : act[k].status # "absent" => act'[k].status # "absent"
  BY <1>1, ActChanges
<1>3. ASSUME NEW d \in Controllers, my'[d] = my[d], pc'[d] = pc[d], pc[d] = "run"
      PROVE  Key(d)' \in Keys /\ act'[Key(d)'].status # "absent"
  BY <1>2, <1>3 DEF Costed, Placed, Key
<1>4. CASE UNCHANGED <<row, my, pc>>
  BY <1>3, <1>4 DEF Costed, Placed
<1>5. ASSUME NEW c \in Controllers,
             \A d \in Controllers : d # c => my'[d] = my[d] /\ pc'[d] = pc[d],
             pc'[c] \in {"flow", "step"} => my'[c].pending = "function",
             pc'[c] = "propose" =>
               \/ my'[c].pending = "analyze" /\ my'[c].pinned # 0
               \/ my'[c].pending = "function" /\ my'[c].next < FlowSteps,
             pc'[c] = "run" => Key(c)' \in Keys /\ act'[Key(c)'].status # "absent"
      PROVE  Placed'
  BY <1>3, <1>5 DEF Costed, Placed
<1>6. ASSUME NEW c \in Controllers, Shaped(c), Walks(c) PROVE Placed'
  <2>1. pc'[c] \in {"flow", "step"} => my'[c].pending = "function"
    BY <1>6 DEF Walks, Costed, Placed
  <2>2. pc'[c] = "propose" =>
          \/ my'[c].pending = "analyze" /\ my'[c].pinned # 0
          \/ my'[c].pending = "function" /\ my'[c].next < FlowSteps
    BY <1>6 DEF Walks, Costed, Placed
  <2>3. ASSUME pc'[c] = "run" PROVE Key(c)' \in Keys /\ act'[Key(c)'].status # "absent"
    <3>1. Propose(c) /\ Key(c)' = Key(c) /\ Key(c) \in Keys
      BY <1>6, <2>3, ProposedKey DEF Walks, Key, Propose
    <3>2. act'[Key(c)].status # "absent"
      <4> DEFINE v == [status |-> "proposed", cost |-> CostOf(c)]
                 k == Key(c)
      <4>1. act'[k] = act[k] \/ act' = [act EXCEPT ![k] = v]
        BY <3>1 DEF Propose
      <4>2. act'[k] = act[k] => act[k].status # "absent" \/ act' = [act EXCEPT ![k] = v]
        BY <3>1 DEF Propose
      <4>3. v.status = "proposed" /\ k \in Keys
        BY <3>1
      <4> HIDE DEF v, k
      <4>4. CASE act' = [act EXCEPT ![k] = v]
        <5>1. act'[k] = v
          BY <1>1, <4>3, <4>4 DEF Acts
        <5> QED BY <4>3, <5>1 DEF k
      <4> QED BY <4>1, <4>2, <4>4 DEF k
    <3> QED BY <3>1, <3>2
  <2> QED BY <1>5, <1>6, <2>1, <2>2, <2>3 DEF Shaped, Alters
<1>7. ASSUME NEW c \in Controllers, Leaves(c) PROVE Placed'
  BY <1>5, <1>7 DEF Leaves
<1>8. ASSUME NEW c \in Controllers, Claims(c) PROVE Placed'
  BY <1>5, <1>8 DEF Claims
<1> QED BY <1>4, <1>6, <1>7, <1>8, Moves

(* Every action costs something, a workflow step costs 1. *)
LEMMA PricedKeeps ==
  ASSUME MInv, Costed, [Next]_vars
  PROVE  Priced'
<1>1. act \in Acts
  BY DEF Costed, Ordered
<1>2. \A c \in Controllers : pc[c] = "run" => act[Key(c)].status # "absent"
  BY DEF Costed, Placed
<1>3. ASSUME NEW g \in Generations, act'[Decided(g)].status # "absent" PROVE act'[Decided(g)].cost # 0
  <2>1. Decided(g) \in Keys
    BY KeysDiffer
  <2>2. CASE act'[Decided(g)] = act[Decided(g)]
    BY <1>3, <2>2 DEF Costed, Priced
  <2>3. CASE act'[Decided(g)] # act[Decided(g)]
    <3>1. PICK c \in Controllers :
            /\ pc[c] \in {"propose", "run"} /\ Decided(g) = Key(c)
            /\ pc[c] = "propose" => act'[Decided(g)].cost = CostOf(c)
            /\ pc[c] = "run" => act'[Decided(g)].cost = act[Decided(g)].cost
      BY <1>1, <2>1, <2>3, ActChanges
    <3>2. my[c].pending = "analyze"
      BY <3>1, KeysDiffer DEF Key
    <3> QED BY <1>2, <3>1, <3>2 DEF Costed, Placed, Priced, CostOf
  <2> QED BY <2>2, <2>3
<1>4. ASSUME NEW n \in 0..(FlowSteps - 1), act'[Flow(n)].status # "absent" PROVE act'[Flow(n)].cost = 1
  <2>1. Flow(n) \in Keys
    BY KeysDiffer
  <2>2. CASE act'[Flow(n)] = act[Flow(n)]
    BY <1>4, <2>2 DEF Costed, Priced
  <2>3. CASE act'[Flow(n)] # act[Flow(n)]
    <3>1. PICK c \in Controllers :
            /\ pc[c] \in {"propose", "run"} /\ Flow(n) = Key(c)
            /\ pc[c] = "propose" => act'[Flow(n)].cost = CostOf(c)
            /\ pc[c] = "run" => act'[Flow(n)].cost = act[Flow(n)].cost
      BY <1>1, <2>1, <2>3, ActChanges
    <3>2. my[c].pending # "analyze"
      BY <3>1, KeysDiffer DEF Key
    <3> QED BY <1>2, <3>1, <3>2 DEF Costed, Priced, CostOf
  <2> QED BY <2>2, <2>3
<1> QED BY <1>3, <1>4 DEF Priced

(* Together. *)
LEMMA CostedKeeps ==
  ASSUME MInv, Costed, [Next]_vars
  PROVE  Costed'
BY OrderedKeeps, BoundedKeeps, PlacedKeeps, PricedKeeps DEF Costed

(* General requests: the records from which a decision may be carried out, *)
(* the pins of those who carry it out, and the action, if there is one.    *)
Plans(r) == Saved(r) /\ r.pending = "analyze"
Fixes(c) == Carries(c) /\ my[c].pinned # 0
Fit(a, r) ==
  Plans(r) /\ a[Decided(r.generations)].status # "absent" =>
    a[Decided(r.generations)].cost = r.pinned
Like(r, s) == Plans(r) /\ Plans(s) /\ r.generations = s.generations => r.pinned = s.pinned
PinsAgree ==
  /\ Fit(act, row.rec)
  /\ \A c \in Controllers : Runs(c) \/ Fixes(c) => Fit(act, my[c])
  /\ \A d \in Controllers : Fixes(d) => Like(row.rec, my[d])
  /\ \A c, d \in Controllers : (Runs(c) \/ Fixes(c)) /\ Fixes(d) => Like(my[c], my[d])

(* What c may hold or write beside the others. *)
Suits(r, c) == Fit(act, r) /\ \A d \in Controllers : d # c /\ Fixes(d) => Like(r, my[d])

(* One controller moves, with a copy that suits the others. *)
LEMMA PinsStep ==
  ASSUME PinsAgree, NEW c \in Controllers, NEW r, act' = act,
         \A d \in Controllers : d # c =>
           my'[d] = my[d] /\ (Runs(d)' => Runs(d)) /\ (Fixes(d)' => Fixes(d)),
         row'.rec = row.rec \/ (row'.rec = r /\ Suits(r, c)),
         Runs(c)' \/ Fixes(c)' => my'[c] = r /\ Suits(r, c),
         Fixes(c)' => /\ Like(row'.rec, r)
                      /\ \A d \in Controllers : d # c /\ Runs(d)' => Like(my[d], r)
  PROVE  PinsAgree'
<1>1. Fit(act', row'.rec)
  BY DEF PinsAgree, Suits
<1>2. \A d \in Controllers : Runs(d)' \/ Fixes(d)' => Fit(act', my'[d])
  BY DEF PinsAgree, Suits
<1>3. \A d \in Controllers : Fixes(d)' => Like(row'.rec, my'[d])
  BY DEF PinsAgree, Suits
<1>4. ASSUME NEW d \in Controllers, NEW e \in Controllers, Runs(d)' \/ Fixes(d)', Fixes(e)'
      PROVE  Like(my'[d], my'[e])
  <2>1. CASE d = e
    BY <2>1 DEF Like
  <2>2. CASE d # c /\ e # c
    BY <1>4, <2>2 DEF PinsAgree
  <2>3. CASE d = c /\ e # c
    BY <1>4, <2>3 DEF Suits
  <2>4. CASE d # c /\ e = c
    BY <1>4, <2>4 DEF Suits, Like
  <2> QED BY <2>1, <2>2, <2>3, <2>4
<1> QED BY <1>1, <1>2, <1>3, <1>4 DEF PinsAgree

(* A copy with the same decision, or without one, still suits. *)
LEMMA SameSuits ==
  ASSUME PinsAgree, NEW c \in Controllers, Runs(c) \/ Fixes(c), NEW r, Core(my[c], r) \/ ~Plans(r)
  PROVE  Suits(r, c)
BY DEF PinsAgree, Suits, Core, Fit, Like, Plans, Saved

(* A controller pins only a decision that nobody else has pinned. *)
LEMMA ShapedPins ==
  ASSUME MInv, Decides, Costed, PinsAgree, Recipe = "general", act' = act,
         NEW c \in Controllers, Active(c), Shaped(c)
  PROVE  PinsAgree'
<1> DEFINE r == my'[c]
<1>1. \A d \in Controllers : d # c =>
        my'[d] = my[d] /\ (Runs(d)' => Runs(d)) /\ (Fixes(d)' => Fixes(d))
  BY DEF Shaped, Alters, Writes, Fixes, Carries, Runs, Active
<1>2. row' = row \/ (Runs(c) /\ row'.runner = c /\ row'.rec = r)
  BY DEF Shaped, Alters, Writes, Runs
<1>3. Runs(c)' => Runs(c)
  BY <1>2 DEF Runs
<1>4. /\ my[c] \in Records /\ my[c].generations \in Nat
      /\ my[c].generations <= MaxGenerations /\ MaxGenerations \in Nat
  BY ControllerAssumption DEF MInv, Typed, Records, Costed, Bounded
<1>5. my[c].generations \in Generations
  BY <1>4 DEF Generations
<1>6. CASE TakesAlong(c)
  <2>1. Core(my[c], r) /\ (Fixes(c)' => Fixes(c))
    BY <1>6 DEF TakesAlong, Core, Fixes
  <2>2. Runs(c) \/ Fixes(c) => Suits(r, c)
    <3> HIDE DEF r
    <3> QED BY <2>1, SameSuits
  <2>3. ASSUME Fixes(c)'
        PROVE  /\ Like(row'.rec, r)
               /\ \A d \in Controllers : d # c /\ Runs(d)' => Like(my[d], r)
    <3>1. Fixes(c)
      BY <2>1, <2>3
    <3>2. Like(row.rec, r) /\ \A d \in Controllers : d # c /\ Runs(d) => Like(my[d], r)
      <4> HIDE DEF r
      <4> QED BY <2>1, <3>1 DEF PinsAgree, Like, Core, Plans, Saved
    <3> QED BY <1>1, <1>2, <3>2 DEF Like
  <2>4. /\ row'.rec = row.rec \/ (row'.rec = r /\ Suits(r, c))
        /\ Runs(c)' \/ Fixes(c)' => my'[c] = r /\ Suits(r, c)
    BY <1>2, <1>3, <2>1, <2>2
  <2> HIDE DEF r
  <2> QED BY <1>1, <2>3, <2>4, PinsStep
<1>7. ASSUME Runs(c) => Suits(r, c), Carries(c)' => Writes(c)
      PROVE  PinsAgree'
  <2>1. ASSUME Fixes(c)'
        PROVE  Runs(c) /\ row'.rec = r /\ \A d \in Controllers : d # c => ~Runs(d)'
    BY <1>7, <2>1 DEF Fixes, Writes, Runs
  <2>2. Fixes(c)' => Like(row'.rec, r) /\ \A d \in Controllers : d # c /\ Runs(d)' => Like(my[d], r)
    BY <2>1 DEF Like
  <2>3. /\ row'.rec = row.rec \/ (row'.rec = r /\ Suits(r, c))
        /\ Runs(c)' \/ Fixes(c)' => my'[c] = r /\ Suits(r, c)
    BY <1>2, <1>3, <1>7, <2>1
  <2> HIDE DEF r
  <2> QED BY <1>1, <2>2, <2>3, PinsStep
<1>8. CASE Settles(c) \/ Reserves(c)
  <2>1. ~Plans(r) /\ ~Carries(c)'
    BY <1>8 DEF Settles, Reserves, Plans, Saved
  <2>2. Runs(c) => Suits(r, c)
    <3> HIDE DEF r
    <3> QED BY <2>1, SameSuits
  <2> QED BY <1>7, <2>1, <2>2
<1>9. CASE Answered(c)
  <2>1. Asking(c) /\ r.generations = my[c].generations
    BY <1>9 DEF Answered
  <2>2. ASSUME Runs(c) PROVE Suits(r, c)
    <3>1. row.runner = c
      BY <2>2 DEF Runs
    <3> HIDE DEF r
    <3>2. /\ \A d \in Controllers : Carries(d) => my[d].generations # r.generations
          /\ \A g \in Generations : act[Decided(g)].status # "absent" => g # r.generations
      BY <2>1, <3>1, AnswerFits
    <3> QED BY <1>5, <2>1, <3>2 DEF Suits, Fit, Like, Fixes
  <2> QED BY <1>7, <1>9, <2>2 DEF Answered
<1>10. CASE Pins(c)
  <2>1. Plans(my[c]) /\ my[c].pinned = 0
    BY <1>10 DEF Pins, Decides, Carried, Carries, Plans
  <2>2. r.generations = my[c].generations /\ (Carries(c)' => Writes(c))
    BY <1>10 DEF Pins
  <2>3. ASSUME Runs(c) PROVE Suits(r, c)
    <3>1. act[Decided(my[c].generations)].status = "absent"
      BY <1>5, <2>1, <2>3 DEF PinsAgree, Fit, Costed, Priced
    <3>2. \A d \in Controllers : Fixes(d) => ~(Plans(my[d]) /\ my[d].generations = my[c].generations)
      BY <2>1, <2>3 DEF PinsAgree, Like, Fixes
    <3> HIDE DEF r
    <3> QED BY <2>2, <3>1, <3>2 DEF Suits, Fit, Like
  <2> QED BY <1>7, <2>2, <2>3
<1> QED BY <1>6, <1>8, <1>9, <1>10 DEF Shaped, Scheduled

(* A proposed action fits what its proposer pinned, and so everyone. *)
LEMMA ActPins ==
  ASSUME MInv, Decides, Costed, PinsAgree, NEW c \in Controllers, Propose(c) \/ Run(c), [Next]_vars
  PROVE  PinsAgree'
<1>1. row' = row /\ my' = my
  BY DEF Propose, Run
<1>2. act \in Acts
  BY DEF Costed, Ordered
<1>3. \A d \in Controllers : (Runs(d)' => Runs(d)) /\ (Fixes(d)' => Fixes(d))
  <2>1. PICK l \in {"run", "wait", "step", "worked"} : Goto(c, l) /\ pc[c] \in {"propose", "run"}
    BY DEF Propose, Run
  <2>2. pc'[c] = l /\ \A d \in Controllers : d # c => pc'[d] = pc[d]
    BY <2>1 DEF Goto, MInv, Typed
  <2> QED BY <1>1, <2>1, <2>2 DEF Runs, Active, Fixes, Carries
<1>4. ASSUME NEW r, Fit(act, r), \A d \in Controllers : Fixes(d) => Like(r, my[d]),
             r.generations \in Generations
      PROVE  Fit(act', r)
  <2> DEFINE g == r.generations
  <2>1. Decided(g) \in Keys
    BY <1>4, KeysDiffer
  <2>2. CASE act'[Decided(g)] = act[Decided(g)]
    BY <1>4, <2>2 DEF Fit
  <2>3. CASE act'[Decided(g)] # act[Decided(g)]
    <3>1. PICK d \in Controllers :
            /\ pc[d] \in {"propose", "run"} /\ Decided(g) = Key(d)
            /\ pc[d] = "propose" => act'[Decided(g)].cost = CostOf(d)
            /\ pc[d] = "run" => act'[Decided(g)].cost = act[Decided(g)].cost
      BY <1>2, <2>1, <2>3, ActChanges
    <3>2. my[d].pending = "analyze" /\ my[d].generations = g
      BY <3>1, KeysDiffer DEF Key
    <3>3. CASE pc[d] = "propose"
      <4>1. Carries(d) /\ Fixes(d) /\ Plans(my[d])
        BY <3>2, <3>3 DEF Carries, Fixes, Costed, Placed, Decides, Carried, Plans
      <4>2. Plans(r) => r.pinned = my[d].pinned
        BY <1>4, <3>2, <4>1 DEF Like
      <4> QED BY <3>1, <3>2, <3>3, <4>2 DEF Fit, CostOf
    <3>4. CASE pc[d] = "run"
      <4>1. act[Decided(g)].status # "absent"
        BY <3>1, <3>4 DEF Costed, Placed
      <4> QED BY <1>4, <3>1, <3>4, <4>1 DEF Fit
    <3> QED BY <3>1, <3>3, <3>4
  <2> QED BY <2>2, <2>3
<1>5. /\ row.rec.generations \in Generations
      /\ \A d \in Controllers : my[d].generations \in Generations
  BY ControllerAssumption DEF MInv, Typed, Records, Costed, Bounded, Generations
<1>6. Fit(act', row.rec) /\ \A d \in Controllers : Runs(d) \/ Fixes(d) => Fit(act', my[d])
  BY <1>4, <1>5 DEF PinsAgree
<1> QED BY <1>1, <1>3, <1>6 DEF PinsAgree

(* Every step keeps the agreement on pins. *)
LEMMA PinsAgreeKeeps ==
  ASSUME MInv, Decides, Costed, Recipe = "general", PinsAgree, [Next]_vars
  PROVE  PinsAgree'
<1>1. CASE \E c \in Controllers : Propose(c) \/ Run(c)
  BY <1>1, ActPins
<1>2. CASE act' = act
  <2>1. CASE UNCHANGED <<row, my, pc>>
    BY <1>2, <2>1 DEF PinsAgree, Fixes, Carries, Runs, Active
  <2>2. ASSUME NEW c \in Controllers, Active(c), Shaped(c) PROVE PinsAgree'
    BY <1>2, <2>2, ShapedPins
  <2>3. ASSUME NEW c \in Controllers, Leaves(c) PROVE PinsAgree'
    <3>1. \A d \in Controllers : d # c =>
            my'[d] = my[d] /\ (Runs(d)' => Runs(d)) /\ (Fixes(d)' => Fixes(d))
      BY <2>3, ControllerAssumption DEF Leaves, Fixes, Carries, Runs, Active
    <3>2. ~Runs(c)' /\ ~Fixes(c)'
      BY <2>3 DEF Leaves, Fixes, Carries, Runs, Active
    <3>3. PICK r : row'.rec = row.rec \/ (row'.rec = r /\ Suits(r, c))
      <4>1. CASE row' = row
        BY <4>1
      <4>2. CASE row' # row
        <5>1. PICK x \in {my[c].phase, "terminal"} : row'.rec = [my[c] EXCEPT !.phase = x]
          BY <2>3, <4>2 DEF Leaves
        <5> DEFINE s == [my[c] EXCEPT !.phase = x]
        <5>2. Runs(c) /\ my[c] \in Records
          BY <2>3, <4>2 DEF Leaves, Runs, MInv, Typed
        <5>3. Core(my[c], s) \/ ~Plans(s)
          BY <5>1, <5>2 DEF Records, Core, Plans, Saved
        <5> HIDE DEF s
        <5>4. Suits(s, c)
          BY <5>2, <5>3, SameSuits
        <5> QED BY <5>1, <5>4 DEF s
      <4> QED BY <4>1, <4>2
    <3> QED BY <1>2, <3>1, <3>2, <3>3, PinsStep
  <2>4. ASSUME NEW c \in Controllers, Claims(c) PROVE PinsAgree'
    <3>1. \A d \in Controllers : d # c =>
            my'[d] = my[d] /\ ~Runs(d)' /\ (Fixes(d)' => Fixes(d))
      BY <2>4 DEF Claims, Fixes, Carries, Runs, Active
    <3>2. Suits(row.rec, c) /\ Like(row.rec, row.rec)
      BY DEF PinsAgree, Suits, Like
    <3>3. my'[c] = row.rec /\ row'.rec = row.rec
      BY <2>4 DEF Claims
    <3> QED BY <1>2, <3>1, <3>2, <3>3, PinsStep
  <2> QED BY <2>1, <2>2, <2>3, <2>4, Moves
<1> QED BY <1>1, <1>2, Changes DEF Reason

(* Assisted requests: they all ask the same. *)
Single ==
  /\ row.rec.pinned \in {0, Ask}
  /\ \A c \in Controllers : my[c].pinned \in {0, Ask}
  /\ \A g \in Generations : act[Decided(g)].status # "absent" => act[Decided(g)].cost = Ask

(* Every step keeps assisted requests alike. *)
LEMMA SingleKeeps ==
  ASSUME MInv, Costed, Recipe # "general", Single, [Next]_vars
  PROVE  Single'
<1>1. /\ act \in Acts
      /\ \A c \in Controllers : my[c] \in Records
  BY DEF Costed, Ordered, MInv, Typed
<1>2. ASSUME NEW g \in Generations, act'[Decided(g)].status # "absent" PROVE act'[Decided(g)].cost = Ask
  <2>1. Decided(g) \in Keys
    BY KeysDiffer
  <2>2. CASE act'[Decided(g)] = act[Decided(g)]
    BY <1>2, <2>2 DEF Single
  <2>3. CASE act'[Decided(g)] # act[Decided(g)]
    <3>1. PICK c \in Controllers :
            /\ pc[c] \in {"propose", "run"} /\ Decided(g) = Key(c)
            /\ pc[c] = "propose" => act'[Decided(g)].cost = CostOf(c)
            /\ pc[c] = "run" => act'[Decided(g)].cost = act[Decided(g)].cost
      BY <1>1, <2>1, <2>3, ActChanges
    <3>2. my[c].pending = "analyze"
      BY <3>1, KeysDiffer DEF Key
    <3> QED BY <3>1, <3>2 DEF Costed, Placed, Single, CostOf
  <2> QED BY <2>2, <2>3
<1>3. CASE UNCHANGED <<row, my, pc>>
  BY <1>2, <1>3 DEF Single
<1>4. ASSUME NEW c \in Controllers, Shaped(c) PROVE Single'
  <2>1. my'[c].pinned \in {my[c].pinned, 0, Ask}
    BY <1>4 DEF Shaped, TakesAlong, Core, Settles, Reserves, Answered, Scheduled, Pins
  <2> QED BY <1>2, <1>4, <2>1 DEF Single, Shaped, Alters, Writes
<1>5. ASSUME NEW c \in Controllers, Leaves(c) PROVE Single'
  <2>1. my'[c].pinned = 0 /\ row'.rec.pinned \in {row.rec.pinned, my[c].pinned}
    BY <1>1, <1>5 DEF Leaves, NewRecord, Records
  <2> QED BY <1>2, <1>5, <2>1 DEF Single, Leaves
<1>6. ASSUME NEW c \in Controllers, Claims(c) PROVE Single'
  BY <1>2, <1>6 DEF Single, Claims
<1> QED BY <1>3, <1>4, <1>5, <1>6, Moves

-----------------------------------------------------------------------------
(* The invariant that resuming rests on. *)
RInv ==
  /\ Decides /\ Costed /\ BackedOff /\ Agree
  /\ Recipe = "general" => PinsAgree
  /\ Recipe # "general" => Single

(* It holds before anything was decided. *)
LEMMA InitRInv == Init => RInv
<1> SUFFICES ASSUME Init PROVE RInv
  OBVIOUS
<1>1. /\ row = [rec |-> NewRecord, runner |-> NoOne] /\ act = [k \in Keys |-> NoAction]
      /\ due = TRUE /\ rev = 0 /\ reasoned = {}
      /\ \A c \in Controllers : pc[c] = "idle" /\ my[c] = NewRecord
  BY DEF Init
<1>2. /\ NewRecord.phase = "ready" /\ NewRecord.generations = 0 /\ NewRecord.next = 0
      /\ NewRecord.pinned = 0 /\ NewRecord.pending = "none"
  BY DEF NewRecord, Nothing
<1>3. NoAction.status = "absent" /\ act \in Acts
  BY <1>1 DEF NoAction, Acts
<1>4. \A k \in Keys : act[k].status = "absent"
  BY <1>1, <1>3
<1>5. /\ \A g \in Generations : act[Decided(g)].status = "absent"
      /\ \A n \in 0..(FlowSteps - 1) : act[Flow(n)].status = "absent"
  BY <1>4, KeysDiffer
<1>6. \A c \in Controllers : ~Active(c) /\ ~Runs(c) /\ ~Carries(c)
  BY <1>1 DEF Active, Runs, Carries
<1>7. Decides
  BY <1>1, <1>3, <1>5, <1>6 DEF Decides, Carried
<1>8. Ordered
  <2>1. FlowInOrder
    BY <1>5, ControllerAssumption DEF FlowInOrder
  <2> QED BY <1>1, <1>2, <1>3, <2>1 DEF Ordered, Past
<1>9. Costed
  BY <1>1, <1>2, <1>5, <1>8, ControllerAssumption DEF Costed, Bounded, Placed, Priced
<1>10. BackedOff
  BY <1>1 DEF BackedOff
<1>11. Agree
  BY <1>1, <1>2, <1>6 DEF Agree, Older, Same, Reasons, Saved, Holds
<1>12. PinsAgree /\ Single
  BY <1>1, <1>2, <1>5, <1>6 DEF PinsAgree, Fit, Like, Plans, Saved, Fixes, Single
<1> QED BY <1>7, <1>9, <1>10, <1>11, <1>12 DEF RInv

(* Every step keeps it. *)
LEMMA RInvKeeps ==
  ASSUME MInv, RInv, [Next]_vars
  PROVE  RInv'
<1>1. Decides' /\ Costed' /\ BackedOff' /\ Agree'
  BY DecidesKeeps, CostedKeeps, BackedOffKeeps, AgreeKeeps DEF RInv
<1>2. Recipe = "general" => PinsAgree'
  BY PinsAgreeKeeps DEF RInv
<1>3. Recipe # "general" => Single'
  BY SingleKeeps DEF RInv
<1> QED BY <1>1, <1>2, <1>3 DEF RInv

(* Known decisions are saved ones. *)
LEMMA SavedFirst ==
  ASSUME Decides
  PROVE  DecisionSavedFirst
BY DEF Decides, Known, Covers, DecisionSavedFirst

(* An action found again costs what was pinned, or the unit of a step. *)
LEMMA RequestMatches ==
  ASSUME MInv, RInv
  PROVE  ResumedRequestMatches
<1> SUFFICES ASSUME NEW c \in Controllers, pc[c] = "propose", act[Key(c)].status # "absent"
             PROVE  act[Key(c)].cost = CostOf(c)
  BY DEF ResumedRequestMatches
<1>1. /\ Costed /\ Decides /\ Carries(c) /\ my[c].generations \in Nat
      /\ my[c].generations <= MaxGenerations
  BY DEF RInv, Carries, MInv, Typed, Records, Costed, Bounded
<1>2. my[c].generations \in Generations
  BY <1>1, ControllerAssumption DEF Generations
<1>3. CASE my[c].pending = "analyze" /\ my[c].pinned # 0
  <2>1. Key(c) = Decided(my[c].generations) /\ CostOf(c) = my[c].pinned
    BY <1>3 DEF Key, CostOf
  <2>2. CASE Recipe = "general"
    <3>1. Plans(my[c]) /\ Fixes(c)
      BY <1>1, <1>3 DEF Decides, Carried, Plans, Fixes
    <3>2. Fit(act, my[c])
      BY <2>2, <3>1 DEF RInv, PinsAgree
    <3> QED BY <2>1, <3>1, <3>2 DEF Fit
  <2>3. CASE Recipe # "general"
    BY <1>2, <1>3, <2>1, <2>3 DEF RInv, Single
  <2> QED BY <2>2, <2>3
<1>4. CASE my[c].pending = "function" /\ my[c].next < FlowSteps
  <2>1. Key(c) = Flow(my[c].next) /\ CostOf(c) = 1
    BY <1>4 DEF Key, CostOf
  <2>2. my[c].next \in 0..(FlowSteps - 1)
    BY <1>1, <1>4, ControllerAssumption DEF Costed, Ordered
  <2> QED BY <1>1, <2>1, <2>2 DEF Costed, Priced
<1> QED BY <1>1, <1>3, <1>4 DEF Costed, Placed

(* An update that goes through is the first of its generation. *)
LEMMA ReasonsOnce ==
  ASSUME MInv, RInv, [Next]_vars
  PROVE  ReasonedOnce
<1> SUFFICES ASSUME NEW c \in Controllers, pc[c] = "decide", rev' # rev, pc'[c] = "worked"
             PROVE  my[c].generations \notin reasoned
  BY DEF ReasonedOnce
<1>1. PICK d \in Controllers : Reason(d)
  BY Changes DEF Propose, Run
<1>2. d = c
  BY <1>1 DEF Reason, Goto, MInv, Typed
<1> QED BY <1>1, <1>2, ReasonAgrees DEF RInv

(* Only Send moves a request to the transport. *)
LEMMA SentChanges ==
  ASSUME [Next]_vars
  PROVE  sent' = sent \/ \E c \in Controllers : Send(c)
<1> USE DEF store, local, ghost
<1>1. ASSUME NEW c \in Controllers, Step(c), ~Send(c) PROVE sent' = sent
  BY <1>1 DEF Step, TopStops, Bootstrap, Resume, Exhausted, Reserve, Refund, SendCancelled,
     Respond, Refuse, RateLimit, TransportFails, Repair, DecisionThrows, Prepare,
     FlowBegins, FlowGoes, Propose, Run, Wait, FlowStep, FlowEnds, Reason, Read, Conclude, Report,
     Error, Worked, Leave, Release
<1>2. ASSUME NEW c \in Controllers, Claim(c) \/ Heartbeat(c) \/ HeartbeatThrows(c) \/ Crash(c)
      PROVE  sent' = sent
  BY <1>2 DEF Claim, Heartbeat, HeartbeatThrows, Crash
<1>3. CASE DeadlinePasses \/ LeasePasses \/ RetryTimeComes \/ ClaimOwnership \/ CancelInvestigation
  BY <1>3 DEF DeadlinePasses, LeasePasses, RetryTimeComes, ClaimOwnership, CancelInvestigation
<1>4. CASE UNCHANGED vars
  BY <1>4 DEF vars
<1> QED BY <1>1, <1>2, <1>3, <1>4 DEF Next

(* Nobody who asks has an outstanding retry time. *)
LEMMA RetryKept ==
  ASSUME MInv, RInv, [Next]_vars
  PROVE  RetryTimeKept
<1> SUFFICES ASSUME sent' # sent PROVE due
  BY DEF RetryTimeKept
<1>1. PICK c \in Controllers : Send(c)
  BY SentChanges
<1>2. Asking(c)
  BY <1>1 DEF Send, Asking, Asks
<1> QED BY <1>2 DEF RInv, BackedOff

(* The checkpoint in wb_model_runs is enough to go on from: whichever      *)
(* controller of model_controller.cpp:533 resumes, however many others     *)
(* stalled or crashed, an action is proposed for a saved decision only,    *)
(* under the request that was pinned for it, workflow steps settle in      *)
(* order, a decision revises the reasoning at most once, and nobody sends  *)
(* a request before the retry time of a 429.                               *)
THEOREM DecisionsResume == Spec => ControllerResumes
<1>1. Init => MInv /\ RInv
  BY InitMInv, InitRInv
<1>2. MInv /\ RInv /\ [Next]_vars => (MInv /\ RInv)'
  BY NextKeeps, RInvKeeps
<1>3. MInv /\ RInv => DecisionSavedFirst /\ ResumedRequestMatches /\ FlowInOrder
  BY SavedFirst, RequestMatches DEF RInv, Costed, Ordered
<1>4. MInv /\ RInv /\ [Next]_vars => ReasonedOnce /\ RetryTimeKept
  BY ReasonsOnce, RetryKept
<1>5. MInv /\ RInv /\ (MInv /\ RInv)' /\ [Next]_vars => [ResumesRight]_vars
  <2>1. ASSUME MInv', RInv' PROVE DecisionSavedFirst' /\ ResumedRequestMatches' /\ FlowInOrder'
    BY <2>1, <1>3, PTL
  <2> QED BY <1>4, <2>1 DEF ResumesRight
<1> QED BY <1>1, <1>2, <1>5, PTL DEF Spec, ControllerResumes
=============================================================================
