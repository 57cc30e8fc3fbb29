--------------------------- MODULE KnowledgeProofs ---------------------------
(***************************************************************************)
(* No revision of a knowledge record is lost under another's, and those    *)
(* that exist stay as they were written, for any number of records,        *)
(* writers, readers and revisions; revisions do not rest on themselves;    *)
(* and what readers are told, what lists show and the impact of a change   *)
(* are right.                                                              *)
(***************************************************************************)
EXTENDS Knowledge, FiniteSetTheorems, WellFoundedInduction, TLAPS

Wishes == [id : Ids, expected : 0..MaxRevision, on : SUBSET (Ids \cup Analyses),
           insist : SUBSET (Ids \X Nat)]

Typed ==
  /\ TypeOK
  /\ basis \in [Revisions -> Nat]
  /\ wrote \in [Writers -> SUBSET Wishes]
  /\ reading \in [Readers -> SUBSET Revisions]

KInv == Typed /\ NoLostRevision

LEMMA InitKInv == Init => KInv
<1> SUFFICES ASSUME Init PROVE KInv
  OBVIOUS
<1>1. head \in [Ids -> 0..MaxRevision] /\ analysis \in [Analyses -> 0..MaxAnalysis]
  BY KnowledgeAssumption DEF Init
<1>2. Existing = {}
  BY KnowledgeAssumption DEF Init, Existing, Revisions
<1>3. TypeOK
  BY <1>1, <1>2 DEF Init, TypeOK
<1> QED BY <1>2, <1>3 DEF Init, KInv, Typed, NoLostRevision

(* A row of a list is a record that is there. *)
LEMMA ShownAreThere ==
  ASSUME KInv, NEW i \in Shown
  PROVE  i \in Ids /\ head[i] > 0
<1>1. i \in Ids /\ head[i] \in Nat /\ <<i, head[i]>> \in Fits
  BY KnowledgeAssumption DEF Shown, KInv, Typed, TypeOK
<1>2. head[i] # 0
  BY <1>1, KnowledgeAssumption
<1> QED BY <1>1, <1>2

(* Revisions are only added, and a new one rests on what was there before. *)
Appends ==
  /\ \A r \in Existing : pins'[r] = pins[r] /\ head'[r[1]] >= r[2]
  /\ \A r \in Existing' \ Existing : pins'[r] \cap Revisions \subseteq Existing
  /\ Existing' # Existing =>
       ~(Cardinality(Existing) >= MaxPuts) /\ \E r : Existing' = Existing \cup {r}
  /\ \A x \in Ids \cup Analyses :
       Current(x) \in Nat /\ Current(x)' \in Nat /\ Current(x) <= Current(x)'

(* A revision that exists is not beyond the head of its record.            *)
LEMMA ExistingIs ==
  ASSUME KInv, NEW r \in Existing
  PROVE  r[1] \in Ids /\ r[2] \in Nat /\ head[r[1]] \in Nat /\ r[2] <= head[r[1]]
<1>1. r \in Revisions /\ r[2] <= head[r[1]]
  BY DEF Existing
<1>2. r[1] \in Ids /\ r[2] \in Nat
  BY <1>1 DEF Revisions
<1>3. \A j \in Ids : head[j] \in Nat
  BY KnowledgeAssumption DEF KInv, Typed, TypeOK
<1> QED BY <1>1, <1>2, <1>3

(* A step that only publishes analyses, or only reads. *)
LEMMA OthersKeep ==
  ASSUME KInv, UNCHANGED <<head, pins, basis>>, wrote' \in [Writers -> SUBSET Wishes],
         analysis' \in [Analyses -> 0..MaxAnalysis], \A a \in Analyses : analysis[a] <= analysis'[a],
         reading' \in [Readers -> SUBSET Existing]
  PROVE  KInv' /\ Appends
<1> USE DEF KInv, Typed
<1>1. Existing' = Existing /\ Existing \subseteq Revisions
  BY DEF Existing
<1>2. \A x \in Ids \cup Analyses :
        Current(x) <= Current(x)' /\ Current(x) \in Nat /\ Current(x)' \in Nat
  BY KnowledgeAssumption DEF Current, TypeOK
<1>3. \A r \in Existing : \A pin \in pins[r] : pin[2] <= Current(pin[1])'
  <2> SUFFICES ASSUME NEW r \in Existing, NEW pin \in pins[r] PROVE pin[2] <= Current(pin[1])'
    OBVIOUS
  <2>1. pin \in Pins /\ pin[2] <= Current(pin[1])
    BY <1>1 DEF TypeOK
  <2>2. pin[1] \in Ids \cup Analyses /\ pin[2] \in Nat
    BY <2>1 DEF Pins, Revisions
  <2>3. Current(pin[1]) \in Nat /\ Current(pin[1])' \in Nat
    BY <1>2, <2>2
  <2> HIDE DEF KInv, Typed
  <2> QED BY <1>2, <2>1, <2>2, <2>3
<1>4. TypeOK'
  BY <1>1, <1>3 DEF TypeOK, Revisions
<1>5. NoLostRevision'
  BY <1>1 DEF NoLostRevision
<1>6. \A r \in Existing : head'[r[1]] >= r[2]
  BY ExistingIs
<1> QED BY <1>1, <1>2, <1>4, <1>5, <1>6 DEF Appends

(* The revision that a write makes, and what it is pinned to. *)
LEMMA PutKeeps ==
  ASSUME KInv, NEW w \in Writers, NEW p \in wrote[w], ~Refused(p), ~Full(p),
         wrote' = [wrote EXCEPT ![w] = {}],
         head' = [head EXCEPT ![p.id] = @ + 1],
         NEW f \in Resolved(p),
         pins' = [pins EXCEPT ![<<p.id, head[p.id] + 1>>] = {<<x, f[x]>> : x \in p.on}],
         basis' = [basis EXCEPT ![<<p.id, head[p.id] + 1>>] = p.expected],
         UNCHANGED <<analysis, read>>
  PROVE  KInv' /\ Appends
<1> USE DEF Appends
<1> DEFINE r == <<p.id, head[p.id] + 1>>
<1>1. /\ p \in Wishes /\ p.id \in Ids /\ p.on \subseteq Ids \cup Analyses
      /\ p.expected = head[p.id] /\ head[p.id] \in 0..MaxRevision /\ head[p.id] # MaxRevision
  BY DEF KInv, Typed, TypeOK, Wishes, Refused, Conflict, Full
<1>2. r \in Revisions /\ r \notin Existing /\ r[1] = p.id /\ r[2] = head[p.id] + 1
  BY <1>1, KnowledgeAssumption DEF Revisions, Existing
<1>3. head' \in [Ids -> 0..MaxRevision] /\ \A i \in Ids : head[i] <= head'[i]
  BY <1>1, KnowledgeAssumption DEF KInv, Typed, TypeOK
<1>4. Existing' = Existing \cup {r}
  <2>1. \A q \in Revisions : q[1] # p.id => (q \in Existing' <=> q \in Existing)
    BY <1>1 DEF Existing, Revisions, KInv, Typed, TypeOK
  <2>2. \A q \in Revisions : q[1] = p.id => (q \in Existing' <=> q \in Existing \/ q[2] = r[2])
    <3>1. head'[p.id] = head[p.id] + 1 /\ head[p.id] \in Nat
      BY <1>1, KnowledgeAssumption DEF KInv, Typed, TypeOK
    <3>2. \A q \in Revisions : q[2] \in Nat
      BY DEF Revisions
    <3> QED BY <1>2, <3>1, <3>2 DEF Existing
  <2>3. \A q \in Revisions : q[1] = p.id /\ q[2] = r[2] => q = r
    BY <1>2 DEF Revisions
  <2> QED BY <1>2, <2>1, <2>2, <2>3 DEF Existing
<1>5. \A x \in p.on : /\ <<x, f[x]>> \in Pins
                      /\ f[x] <= Current(x)
  <2> SUFFICES ASSUME NEW x \in p.on PROVE <<x, f[x]>> \in Pins /\ f[x] <= Current(x)
    OBVIOUS
  <2>1. f[x] \in Resolvable(x)
    BY DEF Resolved
  <2>2. CASE x \in Ids
    BY <2>1, <2>2, KnowledgeAssumption DEF Resolvable, Current, Pins, Revisions, KInv, Typed,
       TypeOK
  <2>3. CASE x \in Analyses /\ x \notin Ids
    BY <2>1, <2>3, KnowledgeAssumption DEF Resolvable, Current, Pins, KInv, Typed, TypeOK
  <2> QED BY <1>1, <2>2, <2>3
<1>6. \A x \in Ids \cup Analyses : Current(x) \in Nat /\ Current(x)' \in Nat /\ Current(x) <= Current(x)'
  BY <1>3, KnowledgeAssumption DEF Current, KInv, Typed, TypeOK
<1> DEFINE new == {<<x, f[x]>> : x \in p.on}
<1>7. new \subseteq Pins /\ \A pin \in new : pin[2] <= Current(pin[1])
  BY <1>5
<1>8. pins' = [pins EXCEPT ![r] = new] /\ pins \in [Revisions -> SUBSET Pins]
  BY DEF KInv, Typed, TypeOK
<1>9. pins' \in [Revisions -> SUBSET Pins] /\ pins'[r] = new /\ \A q \in Revisions \ {r} : pins'[q] = pins[q]
  BY <1>2, <1>7, <1>8
<1>10. basis' \in [Revisions -> Nat] /\ basis'[r] = p.expected /\ \A q \in Revisions \ {r} : basis'[q] = basis[q]
  BY <1>1, <1>2, KnowledgeAssumption DEF KInv, Typed
<1>11. Existing \subseteq Revisions /\ reading' = reading
  BY DEF Existing, read
<1>12. \A q \in Existing' : \A pin \in pins'[q] : pin[2] <= Current(pin[1])'
  <2> HIDE DEF new, r
  <2> SUFFICES ASSUME NEW q \in Existing', NEW pin \in pins'[q] PROVE pin[2] <= Current(pin[1])'
    OBVIOUS
  <2>1. pin \in Pins /\ pin[2] <= Current(pin[1])
    BY <1>2, <1>4, <1>7, <1>9, <1>11 DEF KInv, Typed, TypeOK
  <2>2. pin[1] \in Ids \cup Analyses /\ pin[2] \in Nat
    BY <2>1 DEF Pins, Revisions
  <2> QED BY <1>6, <2>1, <2>2
<1> HIDE DEF new, r
<1>13. TypeOK'
  <2>1. \A q \in Revisions \ Existing' : pins'[q] = {}
    BY <1>4, <1>9 DEF KInv, Typed, TypeOK
  <2>2. \A k \in Readers : reading'[k] \subseteq Existing'
    BY <1>4, <1>11 DEF KInv, Typed, TypeOK
  <2>3. analysis' \in [Analyses -> 0..MaxAnalysis] /\ Revisions' = Revisions /\ Pins' = Pins
    BY DEF KInv, Typed, TypeOK, Revisions, Pins
  <2> QED BY <1>3, <1>9, <1>12, <2>1, <2>2, <2>3 DEF TypeOK
<1>14. NoLostRevision'
  BY <1>1, <1>2, <1>4, <1>10, <1>11 DEF NoLostRevision, KInv
<1>15. wrote' \in [Writers -> SUBSET Wishes]
  BY DEF KInv, Typed
<1>16. \A q \in Existing : pins'[q] = pins[q] /\ head'[q[1]] >= q[2]
  <2> SUFFICES ASSUME NEW q \in Existing PROVE pins'[q] = pins[q] /\ head'[q[1]] >= q[2]
    OBVIOUS
  <2>1. q \in Revisions \ {r} /\ q[1] \in Ids /\ q[2] \in Nat /\ q[2] <= head[q[1]]
    BY <1>2 DEF Existing, Revisions
  <2> QED BY <1>3, <1>9, <2>1 DEF KInv, Typed, TypeOK
<1>17. \A q \in Existing' \ Existing : pins'[q] \cap Revisions \subseteq Existing
  <2>1. pins'[r] \cap Revisions \subseteq Existing
    <3> SUFFICES ASSUME NEW q \in new, q \in Revisions PROVE q \in Existing
      BY <1>9
    <3>1. q[1] \in Ids /\ q[2] <= Current(q[1])
      BY <1>7 DEF Revisions
    <3> QED BY <3>1 DEF Existing, Current
  <2> QED BY <1>4, <2>1
<1>18. ~(Cardinality(Existing) >= MaxPuts)
  BY DEF Full
<1> QED BY <1>4, <1>6, <1>10, <1>11, <1>13, <1>14, <1>15, <1>16, <1>17, <1>18 DEF KInv, Typed, Revisions

(* What a step does to the revisions. *)
LEMMA StepKeeps ==
  ASSUME KInv, [Next]_vars
  PROVE  KInv' /\ Appends
<1> USE DEF base, read
<1>0. /\ \A r \in Existing : r[1] \in Ids /\ head[r[1]] >= r[2]
      /\ reading \in [Readers -> SUBSET Existing]
      /\ analysis \in [Analyses -> 0..MaxAnalysis] /\ wrote \in [Writers -> SUBSET Wishes]
  <2>1. reading \in [Readers -> SUBSET Existing]
    BY DEF KInv, Typed, TypeOK
  <2>2. \A r \in Existing : r[1] \in Ids /\ r[2] \in Nat /\ head[r[1]] \in Nat /\ r[2] <= head[r[1]]
    BY ExistingIs
  <2> QED BY <2>1, <2>2 DEF KInv, Typed, TypeOK
<1>1. \A a \in Analyses : analysis[a] <= analysis[a]
  BY <1>0, KnowledgeAssumption
<1>2. CASE UNCHANGED vars
  BY <1>0, <1>1, <1>2, OthersKeep DEF vars
<1>3. ASSUME NEW a \in Analyses, Publish(a) PROVE KInv' /\ Appends
  <2>1. analysis' \in [Analyses -> 0..MaxAnalysis] /\ \A b \in Analyses : analysis[b] <= analysis'[b]
    BY <1>0, <1>3, KnowledgeAssumption DEF Publish
  <2> QED BY <1>0, <1>3, <2>1, OthersKeep DEF Publish
<1>4. ASSUME NEW w \in Writers, Look(w) PROVE KInv' /\ Appends
  <2>1. PICK i \in Ids, on \in SUBSET (Ids \cup Analyses) : \E insist \in {{}, on \cap Ids} :
          wrote' = [wrote EXCEPT ![w] = {[id |-> i, expected |-> head[i], on |-> on,
                                          insist |-> {<<x, head[x]>> : x \in insist}]}]
    BY <1>4 DEF Look
  <2>2. PICK insist \in SUBSET Ids :
          wrote' = [wrote EXCEPT ![w] = {[id |-> i, expected |-> head[i], on |-> on,
                                          insist |-> {<<x, head[x]>> : x \in insist}]}]
    BY <2>1
  <2>3. head[i] \in 0..MaxRevision /\ {<<x, head[x]>> : x \in insist} \subseteq Ids \X Nat
    BY KnowledgeAssumption DEF KInv, Typed, TypeOK
  <2>4. [id |-> i, expected |-> head[i], on |-> on, insist |-> {<<x, head[x]>> : x \in insist}] \in Wishes
    BY <2>3 DEF Wishes
  <2>5. wrote' \in [Writers -> SUBSET Wishes]
    BY <1>0, <2>2, <2>4
  <2> QED BY <1>0, <1>1, <1>4, <2>5, OthersKeep DEF Look
<1>5. ASSUME NEW w \in Writers, Put(w) PROVE KInv' /\ Appends
  <2>1. PICK p \in wrote[w] :
    /\ wrote' = [wrote EXCEPT ![w] = {}]
    /\ \/ /\ ~Refused(p) /\ ~Full(p)
          /\ LET r == <<p.id, head[p.id] + 1>> IN
               /\ head' = [head EXCEPT ![p.id] = @ + 1]
               /\ \E f \in Resolved(p) :
                    pins' = [pins EXCEPT ![r] = {<<x, f[x]>> : x \in p.on}]
               /\ basis' = [basis EXCEPT ![r] = p.expected]
       \/ UNCHANGED <<head, pins, basis>>
    /\ UNCHANGED <<analysis, read>>
    BY <1>5 DEF Put
  <2>2. CASE UNCHANGED <<head, pins, basis>>
    <3>1. wrote' \in [Writers -> SUBSET Wishes]
      BY <1>0, <2>1
    <3> QED BY <1>0, <1>1, <2>1, <2>2, <3>1, OthersKeep
  <2>3. CASE ~Refused(p) /\ ~Full(p) /\ ~UNCHANGED <<head, pins, basis>>
    <3>1. PICK f \in Resolved(p) : pins' = [pins EXCEPT ![<<p.id, head[p.id] + 1>>] = {<<x, f[x]>> : x \in p.on}]
      BY <2>1, <2>3
    <3> QED BY <2>1, <2>3, <3>1, PutKeeps
  <2> QED BY <2>1, <2>2, <2>3
<1>6. ASSUME NEW k \in Readers, Load(k) \/ Check(k) \/ Tell(k) \/ ListEnds(k)
      PROVE  KInv' /\ Appends
  <2>1. reading' \in [Readers -> SUBSET Existing]
    <3>1. CASE Load(k)
      <4>0. PICK i \in Shown : reading' = [reading EXCEPT ![k] = {<<i, head[i]>>}]
        BY <3>1 DEF Load
      <4>1. i \in Ids /\ head[i] > 0 /\ reading' = [reading EXCEPT ![k] = {<<i, head[i]>>}]
        BY <1>0, <4>0, ShownAreThere
      <4>2. <<i, head[i]>> \in Existing
        BY <4>1, KnowledgeAssumption DEF Existing, Revisions, KInv, Typed, TypeOK
      <4> QED BY <1>0, <4>1, <4>2
    <3>2. CASE Check(k) \/ Tell(k) \/ ListEnds(k)
      BY <1>0, <3>2 DEF Check, Tell, ListEnds
    <3> QED BY <1>6, <3>1, <3>2
  <2>2. UNCHANGED <<base, wrote>>
    BY <1>6 DEF Load, Check, Tell, ListEnds
  <2> QED BY <1>0, <1>1, <2>1, <2>2, OthersKeep
<1> QED BY <1>2, <1>3, <1>4, <1>5, <1>6 DEF Next

THEOREM KInvHolds == Spec => []KInv
<1>1. Init => KInv
  BY InitKInv
<1>2. KInv /\ [Next]_vars => KInv'
  BY StepKeeps
<1> QED BY <1>1, <1>2, PTL DEF Spec

\* Every pin of a revision names a revision that exists (knowledge.cpp:105).
THEOREM TypesHold == Spec => []TypeOK
<1>1. KInv => TypeOK
  BY DEF KInv, Typed
<1> QED BY <1>1, KInvHolds, PTL

\* Authors who saw the same revision do not both write the next one
\* (knowledge.cpp:173).
THEOREM NoRevisionIsLost == Spec => []NoLostRevision
<1>1. KInv => NoLostRevision
  BY DEF KInv
<1> QED BY <1>1, KInvHolds, PTL

\* A revision that was written is neither changed nor taken back
\* (knowledge.cpp:190).
THEOREM RevisionsAreKept == Spec => RevisionsStay
<1>1. KInv /\ [Next]_vars => [\A r \in Existing : pins'[r] = pins[r] /\ head'[r[1]] >= r[2]]_vars
  BY StepKeeps DEF Appends
<1> QED BY <1>1, KInvHolds, PTL DEF Spec, RevisionsStay

(* Among any revisions there is one that rests on none of them: there is   *)
(* no cycle of pins, however many records it would pass through, so every  *)
(* traversal of dependencies ends.                                         *)
WellFounded ==
  \A S \in SUBSET Existing : S # {} => \E r \in S : pins[r] \cap S = {}

(* Revisions pin revisions that exist. *)
LEMMA PinsExist ==
  ASSUME KInv, NEW r \in Existing
  PROVE  pins[r] \cap Revisions \subseteq Existing
<1> SUFFICES ASSUME NEW q \in pins[r], q \in Revisions PROVE q \in Existing
  OBVIOUS
<1>1. q[2] <= Current(q[1]) /\ q[1] \in Ids
  BY DEF KInv, Typed, TypeOK, Revisions
<1> QED BY <1>1 DEF Existing, Current

(* What is added rests on what was there, and nothing that was there can   *)
(* rest on it.                                                             *)
LEMMA AppendKeepsOrder ==
  ASSUME KInv, KInv', WellFounded, Appends
  PROVE  WellFounded'
<1> SUFFICES ASSUME NEW S \in SUBSET Existing', S # {} PROVE \E r \in S : pins'[r] \cap S = {}
  BY DEF WellFounded
<1> DEFINE old == S \cap Existing
<1>1. Existing \subseteq Revisions /\ Existing' \subseteq Revisions
  BY DEF Existing, Revisions
<1>2. CASE old = {}
  <2>1. PICK r \in S : r \in Existing' \ Existing
    BY <1>2
  <2>2. pins'[r] \cap Revisions \subseteq Existing
    BY <2>1 DEF Appends
  <2> QED BY <1>1, <1>2, <2>2
<1>3. CASE old # {}
  <2>1. PICK r \in old : pins[r] \cap old = {}
    BY <1>3 DEF WellFounded
  <2>2. pins'[r] = pins[r]
    BY <2>1 DEF Appends
  <2>3. pins[r] \cap Revisions \subseteq Existing
    BY <2>1, PinsExist
  <2> QED BY <1>1, <2>1, <2>2, <2>3
<1> QED BY <1>2, <1>3

(* No revision of any record rests on itself, directly or through others   *)
(* (knowledge.cpp:105).                                                    *)
THEOREM PinsAreWellFounded == Spec => []WellFounded
<1>1. Init => WellFounded
  <2> SUFFICES ASSUME Init PROVE WellFounded
    OBVIOUS
  <2>1. Existing = {}
    BY KnowledgeAssumption DEF Init, Existing, Revisions
  <2> QED BY <2>1 DEF WellFounded
<1>2. KInv /\ KInv' /\ WellFounded /\ [Next]_vars => WellFounded'
  BY StepKeeps, AppendKeepsOrder
<1> QED BY <1>1, <1>2, KInvHolds, PTL DEF Spec

-----------------------------------------------------------------------------
(* The closure that Upstream iterates, for any number of steps: a function *)
(* on the numbers defined by recursion, whose existence and bound take an  *)
(* induction.                                                              *)

(* Induction on the numbers, as a set that holds 0 and every successor.    *)
LEMMA AllNumbers ==
  ASSUME NEW S, 0 \in S, \A n \in Nat : n \in S => n + 1 \in S
  PROVE  Nat \subseteq S
<1> DEFINE T == Nat \ S
           R == {p \in Nat \X Nat : p[1] < p[2]}
<1> SUFFICES ASSUME T # {} PROVE FALSE
  OBVIOUS
<1>1. IsWellFoundedOn(R, Nat)
  BY NatLessThanWellFounded DEF OpToRel
<1>2. PICK x \in T : \A y \in T : ~ (<<y, x>> \in R)
  <2>1. T \subseteq Nat
    OBVIOUS
  <2> HIDE DEF R, T
  <2> QED BY <1>1, <2>1, WFMin
<1>3. x \in Nat /\ x \notin S
  OBVIOUS
<1>4. x # 0
  BY <1>3
<1>5. x - 1 \in Nat /\ x - 1 < x /\ (x - 1) + 1 = x
  BY <1>3, <1>4
<1>6. x - 1 \in S
  BY <1>2, <1>5
<1> QED
  BY <1>3, <1>5, <1>6

(* f[n] is what S leads to in at most n steps. *)
IsReach(S, next, N, f) ==
  f = [n \in 0..N |-> IF n = 0 THEN S ELSE f[n - 1] \cup UNION {next[r] : r \in f[n - 1]}]

LEMMA ReachExists ==
  ASSUME NEW S, NEW next, NEW N \in Nat
  PROVE  \E f : IsReach(S, next, N, f)
<1> DEFINE Ns == {n \in Nat : \E f : IsReach(S, next, n, f)}
           Step(X) == X \cup UNION {next[r] : r \in X}
<1>1. 0 \in Ns
  <2> DEFINE f == [n \in 0..0 |-> S]
  <2>1. IsReach(S, next, 0, f)
    BY DEF IsReach
  <2> HIDE DEF f
  <2> QED BY <2>1
<1>2. ASSUME NEW n \in Nat, n \in Ns PROVE n + 1 \in Ns
  <2> PICK f : IsReach(S, next, n, f)
    BY <1>2
  <2> DEFINE g == [k \in 0..(n + 1) |-> IF k <= n THEN f[k] ELSE Step(f[n])]
  <2> HIDE DEF Step
  <2>0. f = [k \in 0..n |-> IF k = 0 THEN S ELSE Step(f[k - 1])]
    BY DEF IsReach, Step
  <2>1. ASSUME NEW k \in 0..(n + 1)
        PROVE  g[k] = IF k = 0 THEN S ELSE Step(g[k - 1])
    <3>1. CASE k <= n
      <4>1. f[k] = IF k = 0 THEN S ELSE Step(f[k - 1])
        BY <2>0, <3>1
      <4>2. k # 0 => g[k - 1] = f[k - 1]
        BY <3>1
      <4> QED BY <3>1, <4>1, <4>2
    <3>2. CASE k = n + 1
      <4>1. g[k - 1] = f[n] /\ k # 0 /\ g[k] = Step(f[n])
        BY <3>2
      <4> HIDE DEF g
      <4> QED BY <3>2, <4>1
    <3> QED BY <3>1, <3>2
  <2>2. g = [k \in 0..(n + 1) |-> IF k = 0 THEN S ELSE Step(g[k - 1])]
    <3>1. g = [k \in 0..(n + 1) |-> g[k]]
      OBVIOUS
    <3> HIDE DEF g
    <3> QED BY <2>1, <3>1
  <2>3. IsReach(S, next, n + 1, g)
    <3> HIDE DEF g
    <3> QED BY <2>2 DEF IsReach, Step
  <2> HIDE DEF g
  <2> QED BY <2>3
<1>3. Nat \subseteq Ns
  <2> HIDE DEF Ns
  <2> QED BY <1>1, <1>2, AllNumbers
<1> QED
  BY <1>3

(* A closure is what its beginning leads to in MaxPuts steps. *)
LEMMA ClosureReach ==
  ASSUME NEW S, NEW next
  PROVE  \E f : IsReach(S, next, MaxPuts, f) /\ Closure(S, next) = f[MaxPuts]
<1> DEFINE F(f) == f = [n \in 0..MaxPuts |->
                          IF n = 0 THEN S ELSE LET g == f[n - 1] IN g \cup UNION {next[r] : r \in g}]
<1>1. \A f : F(f) <=> IsReach(S, next, MaxPuts, f)
  BY DEF IsReach
<1>2. \E f : F(f)
  BY <1>1, ReachExists, KnowledgeAssumption
<1> DEFINE f == CHOOSE f : F(f)
<1>3. Closure(S, next) = f[MaxPuts]
  BY DEF Closure
<1>4. IsReach(S, next, MaxPuts, f)
  <2> HIDE DEF F
  <2> QED BY <1>1, <1>2
<1> HIDE DEF f
<1> QED BY <1>3, <1>4

(* A closure stays within every set that holds its beginning and all the   *)
(* successors of its elements.                                             *)
LEMMA ClosureWithin ==
  ASSUME NEW S, NEW next, NEW L, S \subseteq L, \A r \in L : next[r] \subseteq L
  PROVE  Closure(S, next) \subseteq L
<1>0. MaxPuts \in Nat
  BY KnowledgeAssumption
<1>1. PICK f : IsReach(S, next, MaxPuts, f) /\ Closure(S, next) = f[MaxPuts]
  BY ClosureReach
<1> DEFINE Ns == {n \in Nat : n <= MaxPuts => f[n] \subseteq L}
<1>2. 0 \in Ns
  BY <1>0, <1>1 DEF IsReach
<1>3. ASSUME NEW n \in Nat, n \in Ns PROVE n + 1 \in Ns
  <2> SUFFICES ASSUME n + 1 <= MaxPuts PROVE f[n + 1] \subseteq L
    OBVIOUS
  <2>1. f[n] \subseteq L
    BY <1>0, <1>3
  <2>2. f[n + 1] = f[n] \cup UNION {next[r] : r \in f[n]}
    BY <1>0, <1>1 DEF IsReach
  <2> QED BY <2>1, <2>2
<1>4. Nat \subseteq Ns
  <2> HIDE DEF Ns
  <2> QED BY <1>2, <1>3, AllNumbers
<1> QED
  BY <1>0, <1>1, <1>4

(* There are at most MaxPuts revisions. *)
Few == IsFiniteSet(Existing) /\ Cardinality(Existing) <= MaxPuts

LEMMA StepKeepsFew ==
  ASSUME KInv, Few, Appends
  PROVE  Few'
<1>1. CASE Existing' = Existing
  BY <1>1 DEF Few
<1>2. CASE Existing' # Existing
  <2>1. PICK r : Existing' = Existing \cup {r}
    BY <1>2 DEF Appends
  <2>2. Cardinality(Existing) \in Nat /\ MaxPuts \in Nat /\ ~(Cardinality(Existing) >= MaxPuts)
    BY <1>2, FS_CardinalityType, KnowledgeAssumption DEF Few, Appends
  <2>3. IsFiniteSet(Existing') /\ Cardinality(Existing') <= Cardinality(Existing) + 1
    BY <2>1, <2>2, FS_AddElement DEF Few
  <2>4. Cardinality(Existing') \in Nat
    BY <2>3, FS_CardinalityType
  <2> QED BY <2>2, <2>3, <2>4 DEF Few
<1> QED BY <1>1, <1>2

\* The bound on the revisions of all records holds.
THEOREM RevisionsAreFew == Spec => []Few
<1>1. Init => Few
  <2> SUFFICES ASSUME Init PROVE Few
    OBVIOUS
  <2>1. Existing = {}
    BY KnowledgeAssumption DEF Init, Existing, Revisions
  <2> QED BY <2>1, FS_EmptySet, KnowledgeAssumption DEF Few
<1>2. KInv /\ Few /\ [Next]_vars => Few'
  BY StepKeeps, StepKeepsFew
<1> QED BY <1>1, <1>2, KInvHolds, PTL DEF Spec

(* A closure within no more than MaxPuts elements is closed: each step that *)
(* is not the last adds one.                                               *)
LEMMA ClosureIsClosed ==
  ASSUME NEW S, NEW next, NEW U, IsFiniteSet(U), Cardinality(U) <= MaxPuts,
         S \subseteq U, \A r \in U : next[r] \subseteq U
  PROVE  /\ S \subseteq Closure(S, next)
         /\ \A r \in Closure(S, next) : next[r] \subseteq Closure(S, next)
<1> DEFINE Step(X) == X \cup UNION {next[r] : r \in X}
<1>0. MaxPuts \in Nat
  BY KnowledgeAssumption
<1>1. PICK f : IsReach(S, next, MaxPuts, f) /\ Closure(S, next) = f[MaxPuts]
  BY ClosureReach
<1>2. f[0] = S
  BY <1>0, <1>1 DEF IsReach
<1>3. \A n \in Nat : n + 1 <= MaxPuts => f[n + 1] = Step(f[n])
  BY <1>0, <1>1 DEF IsReach
<1>4. \A X : X \subseteq Step(X)
  OBVIOUS
<1>5. \A X : X \subseteq U => Step(X) \subseteq U
  OBVIOUS
<1>6. \A X : Step(X) = X => \A r \in X : next[r] \subseteq X
  OBVIOUS
<1> HIDE DEF Step
<1> DEFINE Ns == {n \in Nat : n <= MaxPuts =>
                     /\ S \subseteq f[n] /\ f[n] \subseteq U
                     /\ Step(f[n]) # f[n] => Cardinality(f[n]) >= n + 1}
<1>7. Nat \subseteq Ns
  <2>1. 0 \in Ns
    <3>1. Step(S) # S => S # {}
      BY DEF Step
    <3>2. IsFiniteSet(S) /\ Cardinality(S) \in Nat
      BY FS_Subset, FS_CardinalityType
    <3>3. S # {} => Cardinality(S) >= 1
      BY <3>2, FS_EmptySet
    <3> QED BY <1>2, <3>1, <3>3
  <2>2. ASSUME NEW n \in Nat, n \in Ns PROVE n + 1 \in Ns
    <3> SUFFICES ASSUME n + 1 <= MaxPuts
                 PROVE  /\ S \subseteq f[n + 1] /\ f[n + 1] \subseteq U
                        /\ Step(f[n + 1]) # f[n + 1] => Cardinality(f[n + 1]) >= n + 2
      OBVIOUS
    <3>1. /\ f[n + 1] = Step(f[n]) /\ S \subseteq f[n] /\ f[n] \subseteq U
          /\ Step(f[n]) # f[n] => Cardinality(f[n]) >= n + 1
      BY <1>0, <1>3, <2>2
    <3>2. S \subseteq f[n + 1] /\ f[n + 1] \subseteq U /\ f[n] \subseteq f[n + 1]
      BY <1>4, <1>5, <3>1
    <3>3. ASSUME Step(f[n + 1]) # f[n + 1] PROVE Cardinality(f[n + 1]) >= n + 2
      <4>1. f[n + 1] # f[n] /\ Cardinality(f[n]) >= n + 1
        BY <3>1, <3>3
      <4>2. IsFiniteSet(f[n + 1]) /\ IsFiniteSet(f[n])
        BY <3>1, <3>2, FS_Subset
      <4>3. Cardinality(f[n]) \in Nat /\ Cardinality(f[n + 1]) \in Nat
        BY <4>2, FS_CardinalityType
      <4>4. Cardinality(f[n]) <= Cardinality(f[n + 1]) /\ Cardinality(f[n]) # Cardinality(f[n + 1])
        BY <3>2, <4>1, <4>2, FS_Subset
      <4> QED BY <4>1, <4>3, <4>4
    <3> QED BY <3>2, <3>3
  <2> HIDE DEF Ns
  <2> QED BY <2>1, <2>2, AllNumbers
<1>8. S \subseteq f[MaxPuts] /\ f[MaxPuts] \subseteq U
      /\ (Step(f[MaxPuts]) # f[MaxPuts] => Cardinality(f[MaxPuts]) >= MaxPuts + 1)
  BY <1>0, <1>7
<1>9. Cardinality(f[MaxPuts]) \in Nat /\ Cardinality(f[MaxPuts]) <= Cardinality(U) /\ Cardinality(U) \in Nat
  BY <1>8, FS_Subset, FS_CardinalityType
<1>10. Step(f[MaxPuts]) = f[MaxPuts]
  BY <1>0, <1>8, <1>9
<1> QED BY <1>1, <1>6, <1>8, <1>10

(* The revisions below one: those in every set that holds its pins and the *)
(* pins of its elements.                                                   *)
Closed(M) == \A x \in M : pins[x] \cap Revisions \subseteq M
Below(r) == {x \in Existing : \A M \in SUBSET Existing :
               pins[r] \cap Revisions \subseteq M /\ Closed(M) => x \in M}

LEMMA BelowIsClosed ==
  ASSUME KInv, NEW r \in Existing
  PROVE  pins[r] \cap Revisions \subseteq Below(r) /\ Closed(Below(r))
<1>1. pins[r] \cap Revisions \subseteq Below(r)
  BY PinsExist DEF Below
<1>2. ASSUME NEW x \in Below(r), NEW p \in pins[x] \cap Revisions PROVE p \in Below(r)
  <2>1. x \in Existing /\ p \in Existing
    BY PinsExist DEF Below
  <2>2. ASSUME NEW M \in SUBSET Existing, pins[r] \cap Revisions \subseteq M, Closed(M)
        PROVE  p \in M
    BY <2>2 DEF Below, Closed
  <2> QED BY <2>1, <2>2 DEF Below
<1> QED
  BY <1>1, <1>2 DEF Closed

(* What is below a revision is one of its pins, or below one of them. *)
LEMMA BelowThroughPins ==
  ASSUME KInv, NEW r \in Existing, NEW x \in Below(r)
  PROVE  \E p \in pins[r] \cap Revisions : x = p \/ x \in Below(p)
<1> DEFINE M == {y \in Existing : \E p \in pins[r] \cap Revisions : y = p \/ y \in Below(p)}
<1>1. pins[r] \cap Revisions \subseteq M
  BY PinsExist
<1>2. Closed(M)
  <2> SUFFICES ASSUME NEW y \in M, NEW q \in pins[y] \cap Revisions PROVE q \in M
    BY DEF Closed
  <2> PICK p \in pins[r] \cap Revisions : y = p \/ y \in Below(p)
    OBVIOUS
  <2>1. p \in Existing /\ q \in Existing
    BY PinsExist
  <2>2. q \in Below(p)
    BY <2>1, BelowIsClosed DEF Closed
  <2> QED BY <2>1, <2>2
<1>3. M \in SUBSET Existing
  OBVIOUS
<1> HIDE DEF M
<1>4. x \in M
  BY <1>1, <1>2, <1>3 DEF Below
<1> QED
  BY <1>4 DEF M

LEMMA NothingBelowItself ==
  ASSUME KInv, WellFounded, NEW r \in Existing
  PROVE  r \notin Below(r)
<1> SUFFICES ASSUME r \in Below(r) PROVE FALSE
  OBVIOUS
<1> DEFINE S == {x \in Below(r) : r \in Below(x)}
<1>1. S \in SUBSET Existing /\ S # {}
  BY DEF Below
<1>2. PICK x \in S : pins[x] \cap S = {}
  <2> HIDE DEF S
  <2> QED BY <1>1 DEF WellFounded
<1>3. PICK p \in pins[x] \cap Revisions : r = p \/ r \in Below(p)
  BY <1>1, BelowThroughPins
<1>4. p \in Below(r)
  BY BelowIsClosed DEF Closed
<1> QED
  BY <1>2, <1>3, <1>4

(* The pins a revision rests on, its own and those of what is below it. *)
AllPins(r) == pins[r] \cup UNION {pins[q] : q \in Below(r)}

LEMMA BelowExists ==
  ASSUME KInv, NEW r, NEW q \in Below(r)
  PROVE  q \in Existing /\ q \in Revisions
BY DEF Below, Existing

LEMMA UpstreamIs ==
  ASSUME KInv, Few, NEW r \in Existing
  PROVE  Upstream(pins[r]) = AllPins(r)
<1> DEFINE next == [q \in Revisions |-> pins[q] \cap Revisions]
           all == Closure(pins[r] \cap Revisions, next)
<1>1. pins[r] \cap Revisions \subseteq Below(r) /\ Closed(Below(r))
  BY BelowIsClosed
<1>2. \A q \in Below(r) : next[q] \subseteq Below(r)
  BY <1>1 DEF Closed, Below, Existing
<1>3. all \subseteq Below(r)
  <2> HIDE DEF next
  <2> QED BY <1>1, <1>2, ClosureWithin
<1>4. pins[r] \cap Revisions \subseteq Existing /\ \A q \in Existing : next[q] \subseteq Existing
  BY PinsExist DEF Existing
<1>5. pins[r] \cap Revisions \subseteq all /\ \A q \in all : next[q] \subseteq all
  <2> HIDE DEF next
  <2> QED BY <1>4, ClosureIsClosed DEF Few
<1>6. Upstream(pins[r]) = pins[r] \cup UNION {pins[q] : q \in all}
  BY DEF Upstream
<1> HIDE DEF all
<1>7. all \subseteq Existing /\ all \subseteq Revisions
  BY <1>3, BelowExists
<1>8. Closed(all)
  BY <1>5, <1>7 DEF Closed
<1>9. Below(r) \subseteq all
  BY <1>5, <1>7, <1>8 DEF Below
<1> QED
  BY <1>3, <1>6, <1>9 DEF AllPins

\* No revision rests on itself as the traversal of dependencies counts it,
\* so Freshness::check and impact end (knowledge.cpp:105).
THEOREM NoRevisionRestsOnItself == Spec => []NoCycles
<1>1. KInv /\ Few /\ WellFounded => NoCycles
  <2> SUFFICES ASSUME KInv, Few, WellFounded, NEW r \in Existing PROVE r \notin Upstream(pins[r])
    BY DEF NoCycles
  <2>1. r \in Revisions /\ Upstream(pins[r]) = AllPins(r)
    BY UpstreamIs DEF Existing
  <2>2. \A p \in AllPins(r) : p \in Revisions => p \in Below(r)
    BY BelowIsClosed DEF AllPins, Closed
  <2> QED BY <2>1, <2>2, NothingBelowItself
<1> QED BY <1>1, KInvHolds, RevisionsAreFew, PinsAreWellFounded, PTL

-----------------------------------------------------------------------------
(* Freshness.  What a reader finds out, statement by statement, about what *)
(* a revision rests on: revisions keep their pins and what has moved does  *)
(* not come back, so it does not matter when it looks.                     *)

Moved(pin) == Current(pin[1]) # pin[2]

(* Freshness in terms of what a revision rests on. *)
AllCurrent(r) == ~Moved(r) /\ \A pin \in AllPins(r) : ~Moved(pin)

FreshMeans == \A r \in Existing : Fresh(r) <=> AllCurrent(r)

LEMMA FreshIs == KInv /\ Few => FreshMeans
BY UpstreamIs DEF Fresh, Moved, AllCurrent, FreshMeans

(* What a step does to what a revision rests on: it only grows, if at all. *)
LEMMA BelowGrows ==
  ASSUME KInv, KInv', Appends, NEW r \in Existing
  PROVE  r \in Existing' /\ Below(r) \subseteq Below(r)'
<1>1. Existing \subseteq Existing'
  <2> SUFFICES ASSUME NEW q \in Existing PROVE q \in Existing'
    OBVIOUS
  <2>1. head'[q[1]] >= q[2] /\ q \in Revisions /\ q[1] \in Ids
    BY ExistingIs DEF Appends, Existing
  <2>2. q[2] \in Nat /\ head'[q[1]] \in Nat
    <3>1. head' \in [Ids -> 0..MaxRevision]
      BY DEF KInv, Typed, TypeOK
    <3>2. q[2] \in Nat
      BY ExistingIs
    <3>3. head'[q[1]] \in 0..MaxRevision /\ MaxRevision \in Nat
      BY <2>1, <3>1, KnowledgeAssumption
    <3> QED BY <3>2, <3>3
  <2>3. q[2] <= head'[q[1]]
    BY <2>1, <2>2
  <2> QED BY <2>1, <2>3 DEF Existing
<1>2. ASSUME NEW x \in Below(r) PROVE x \in Below(r)'
  <2>1. x \in Existing'
    BY <1>1 DEF Below
  <2>2. ASSUME NEW M \in SUBSET Existing', pins'[r] \cap Revisions \subseteq M,
               \A y \in M : pins'[y] \cap Revisions \subseteq M
        PROVE  x \in M
    <3> DEFINE L == M \cap Existing
    <3>1. pins[r] \cap Revisions \subseteq L
      BY <2>2, PinsExist DEF Appends
    <3>2. Closed(L)
      BY <2>2, PinsExist DEF Appends, Closed
    <3> HIDE DEF L
    <3>3. x \in L
      <4>1. L \in SUBSET Existing
        BY DEF L
      <4> QED BY <3>1, <3>2, <4>1 DEF Below
    <3> QED BY <3>3 DEF L
  <2> QED BY <2>1, <2>2 DEF Below, Closed, Revisions
<1> QED BY <1>1, <1>2

(* A pin of a revision that exists names what exists. *)
Real(pin) == pin[1] \in Ids \cup Analyses /\ pin[2] \in Nat /\ pin[2] <= Current(pin[1])

LEMMA PinsAreReal ==
  ASSUME KInv, NEW r \in Existing, NEW pin \in pins[r]
  PROVE  Real(pin) /\ (pin \in Revisions => pin \in Existing)
<1>1. pin \in Pins /\ pin[2] <= Current(pin[1]) /\ r \in Revisions
  BY DEF KInv, Typed, TypeOK, Existing
<1>2. pin[1] \in Ids \cup Analyses /\ pin[2] \in Nat
  BY <1>1 DEF Pins, Revisions
<1> QED BY <1>1, <1>2, PinsExist DEF Real

(* What has moved does not come back. *)
LEMMA MovedStays ==
  ASSUME KInv, [Next]_vars, NEW pin, Real(pin)
  PROVE  Real(pin)' /\ (Moved(pin) => Moved(pin)')
<1>1. Current(pin[1]) \in Nat /\ Current(pin[1])' \in Nat /\ Current(pin[1]) <= Current(pin[1])'
  BY StepKeeps DEF Real, Appends
<1> QED BY <1>1 DEF Real, Moved

LEMMA AllPinsAreReal ==
  ASSUME KInv, NEW r \in Existing, NEW pin \in AllPins(r)
  PROVE  Real(pin) /\ (pin \in Revisions => pin \in Existing)
<1>1. PICK q \in {r} \cup Below(r) : pin \in pins[q]
  BY DEF AllPins
<1>2. q \in Existing
  BY BelowExists
<1> QED BY <1>1, <1>2, PinsAreReal

LEMMA AllPinsGrow ==
  ASSUME KInv, [Next]_vars, NEW r \in Existing
  PROVE  r \in Existing' /\ AllPins(r) \subseteq AllPins(r)'
<1>1. KInv' /\ Appends
  BY StepKeeps
<1>2. r \in Existing' /\ Below(r) \subseteq Below(r)' /\ Below(r) \subseteq Existing
  BY <1>1, BelowGrows, BelowExists
<1>3. \A q \in Existing : pins'[q] = pins[q]
  BY <1>1 DEF Appends
<1> QED BY <1>2, <1>3 DEF AllPins

(* What is not fresh any more never is again. *)
LEMMA StaleStays ==
  ASSUME KInv, Few, [Next]_vars, NEW r \in Existing, ~Fresh(r)
  PROVE  r \in Existing' /\ ~Fresh(r)'
<1>1. KInv' /\ Few'
  BY StepKeeps, StepKeepsFew
<1>2. r \in Existing' /\ AllPins(r) \subseteq AllPins(r)'
  BY AllPinsGrow
<1>3. FreshMeans'
  BY <1>1, FreshIs, PTL
<1>4. CASE Moved(r)
  <2>1. Real(r)
    BY ExistingIs DEF Real, Current
  <2>2. Moved(r)'
    BY <1>4, <2>1, MovedStays
  <2> QED BY <1>2, <1>3, <2>2 DEF AllCurrent, FreshMeans
<1>5. ASSUME NEW pin \in AllPins(r), Moved(pin)
      PROVE  r \in Existing' /\ ~Fresh(r)'
  <2>1. Moved(pin)'
    BY <1>5, AllPinsAreReal, MovedStays
  <2> QED BY <1>2, <1>3, <2>1 DEF AllCurrent, FreshMeans
<1> QED BY <1>4, <1>5, FreshIs DEF AllCurrent, FreshMeans

(* Something a pin names, or rests on, has moved. *)
MovedBelow(pin) == Moved(pin) \/ (pin \in Revisions /\ \E p \in AllPins(pin) : Moved(p))

LEMMA MovedBelowStays ==
  ASSUME KInv, [Next]_vars, NEW r \in Existing, NEW pin \in AllPins(r), MovedBelow(pin)
  PROVE  MovedBelow(pin)'
<1>1. Real(pin) /\ (pin \in Revisions => pin \in Existing)
  BY AllPinsAreReal
<1>2. CASE Moved(pin)
  BY <1>1, <1>2, MovedStays DEF MovedBelow
<1>3. ASSUME pin \in Revisions, NEW p \in AllPins(pin), Moved(p) PROVE MovedBelow(pin)'
  <2>1. pin \in Existing
    BY <1>1, <1>3
  <2>2. Moved(p)' /\ p \in AllPins(pin)'
    BY <1>3, <2>1, AllPinsAreReal, AllPinsGrow, MovedStays
  <2> QED BY <1>3, <2>2 DEF MovedBelow, Revisions
<1> QED BY <1>2, <1>3 DEF MovedBelow

(* What moved below a pin that has not moved itself, moved below one of    *)
(* the pins of the revision it names.                                      *)
LEMMA MovedDeeper ==
  ASSUME KInv, NEW pin, pin \in Revisions => pin \in Existing, MovedBelow(pin), ~Moved(pin)
  PROVE  pin \in Revisions /\ \E p \in pins[pin] : MovedBelow(p)
<1>1. PICK p \in AllPins(pin) : Moved(p)
  BY DEF MovedBelow
<1>2. pin \in Existing /\ pin \in Revisions
  BY DEF MovedBelow
<1>3. CASE p \in pins[pin]
  BY <1>1, <1>2, <1>3 DEF MovedBelow
<1>4. ASSUME NEW q \in Below(pin), p \in pins[q] PROVE \E d \in pins[pin] : MovedBelow(d)
  <2>1. PICK d \in pins[pin] \cap Revisions : q = d \/ q \in Below(d)
    BY <1>2, BelowThroughPins
  <2>2. p \in AllPins(d)
    BY <1>4, <2>1 DEF AllPins
  <2> QED BY <1>1, <2>1, <2>2 DEF MovedBelow
<1> QED BY <1>1, <1>2, <1>3, <1>4 DEF AllPins

-----------------------------------------------------------------------------
ReadTyped ==
  /\ todo \in [Readers -> SUBSET (Pins \X Nat)]
  /\ verdict \in [Readers -> SUBSET {"stale", "bounded"}]
  /\ fresh \in [Readers -> BOOLEAN]
  /\ said \in [Readers -> SUBSET ({"unknown", "stale", "current"} \X Revisions)]

(* A reader that has its verdict still open is about to meet what moved    *)
(* before it loaded the record, and met nothing that did not move.         *)
ReadsRight(k) ==
  /\ \A r \in reading[k] :
       /\ \A t \in todo[k] : t[1] \in AllPins(r)
       /\ "stale" \in verdict[k] => ~Fresh(r)
       /\ verdict[k] = {} /\ ~fresh[k] => \E t \in todo[k] : MovedBelow(t[1])
  /\ \A s \in said[k] :
       /\ s[2] \in Existing
       /\ s[1] = "current" => fresh[k]
       /\ s[1] = "stale" => ~Fresh(s[2])

ReadInv == KInv /\ Few /\ ReadTyped /\ \A k \in Readers : ReadsRight(k)

(* A step that leaves a reader alone. *)
LEMMA ReaderRests ==
  ASSUME ReadInv, [Next]_vars, NEW k \in Readers,
         reading'[k] = reading[k], todo'[k] = todo[k], verdict'[k] = verdict[k],
         fresh'[k] = fresh[k], said'[k] = said[k]
  PROVE  ReadsRight(k)'
<1>1. KInv /\ Few /\ ReadsRight(k) /\ reading[k] \subseteq Existing
  BY DEF ReadInv, KInv, Typed, TypeOK
<1>2. ASSUME NEW r \in reading'[k]
      PROVE  /\ \A t \in todo'[k] : t[1] \in AllPins(r)'
             /\ "stale" \in verdict'[k] => ~Fresh(r)'
             /\ verdict'[k] = {} /\ ~fresh'[k] => \E t \in todo'[k] : MovedBelow(t[1])'
  <2>1. r \in Existing /\ r \in reading[k]
    BY <1>1
  <2>2. \A t \in todo'[k] : t[1] \in AllPins(r)'
    BY <1>1, <2>1, AllPinsGrow DEF ReadsRight
  <2>3. "stale" \in verdict'[k] => ~Fresh(r)'
    BY <1>1, <2>1, StaleStays DEF ReadsRight
  <2>4. verdict'[k] = {} /\ ~fresh'[k] => \E t \in todo'[k] : MovedBelow(t[1])'
    BY <1>1, <2>1, MovedBelowStays DEF ReadsRight
  <2> QED BY <2>2, <2>3, <2>4
<1>3. ASSUME NEW s \in said'[k]
      PROVE  /\ s[2] \in Existing'
             /\ s[1] = "current" => fresh'[k]
             /\ s[1] = "stale" => ~Fresh(s[2])'
  <2>1. s[2] \in Existing /\ (s[1] = "current" => fresh[k]) /\ (s[1] = "stale" => ~Fresh(s[2]))
    BY <1>1 DEF ReadsRight
  <2>2. s[2] \in Existing'
    BY <1>1, <2>1, AllPinsGrow
  <2> QED BY <1>1, <2>1, <2>2, StaleStays
<1> QED BY <1>2, <1>3 DEF ReadsRight

(* While a reader reads, nothing else moves in its step. *)
LEMMA BaseRests ==
  ASSUME UNCHANGED base
  PROVE  /\ Existing' = Existing
         /\ \A r : AllPins(r)' = AllPins(r) /\ Fresh(r)' = Fresh(r) /\ MovedBelow(r)' = MovedBelow(r)
<1>1. head' = head /\ pins' = pins /\ analysis' = analysis
  BY DEF base
<1>2. Existing' = Existing
  BY <1>1 DEF Existing
<1>3. \A x : Current(x)' = Current(x) /\ Moved(x)' = Moved(x)
  BY <1>1 DEF Current, Moved
<1>4. \A r : Below(r)' = Below(r)
  BY <1>1, <1>2 DEF Below, Closed
<1>5. \A r : AllPins(r)' = AllPins(r)
  BY <1>1, <1>4 DEF AllPins
<1>6. \A ps : Upstream(ps)' = Upstream(ps)
  BY <1>1 DEF Upstream, Closure
<1> QED BY <1>1, <1>2, <1>3, <1>5, <1>6 DEF Fresh, MovedBelow

LEMMA LoadReads ==
  ASSUME ReadInv, NEW k \in Readers, Load(k)
  PROVE  ReadTyped' /\ ReadsRight(k)'
<1>1. KInv /\ Few /\ ReadTyped
  BY DEF ReadInv
<1>2. PICK i \in Ids :
        /\ head[i] > 0
        /\ reading' = [reading EXCEPT ![k] = {<<i, head[i]>>}]
        /\ todo' = [todo EXCEPT ![k] = pins[<<i, head[i]>>] \X {0}]
        /\ fresh' = [fresh EXCEPT ![k] = Fresh(<<i, head[i]>>)]
  BY <1>1, ShownAreThere DEF Load
<1> DEFINE r == <<i, head[i]>>
<1>3. r \in Existing /\ r \in Revisions /\ pins[r] \subseteq Pins
  BY <1>1, <1>2, KnowledgeAssumption DEF Existing, Revisions, KInv, Typed, TypeOK
<1>4. ~Moved(r)
  BY DEF Moved, Current
<1>5. verdict' = [verdict EXCEPT ![k] = {}] /\ said' = [said EXCEPT ![k] = {}] /\ UNCHANGED base
  BY DEF Load
<1> HIDE DEF r
<1>6. Fresh(r) \in BOOLEAN
  BY DEF Fresh
<1>7. ReadTyped'
  <2>1. todo' \in [Readers -> SUBSET (Pins \X Nat)]
    BY <1>1, <1>2, <1>3 DEF ReadTyped, r
  <2> QED BY <1>1, <1>2, <1>5, <1>6, <2>1 DEF ReadTyped, Pins, Revisions, r
<1>8. reading'[k] = {r} /\ todo'[k] = pins[r] \X {0} /\ fresh'[k] = Fresh(r)
      /\ verdict'[k] = {} /\ said'[k] = {}
  BY <1>1, <1>2, <1>5 DEF KInv, Typed, ReadTyped, r
<1>9. \A t \in todo'[k] : t[1] \in AllPins(r)
  BY <1>8 DEF AllPins
<1>10. ASSUME ~Fresh(r) PROVE \E t \in todo'[k] : MovedBelow(t[1])
  <2>1. MovedBelow(r)
    BY <1>1, <1>3, <1>4, <1>10, FreshIs DEF FreshMeans, AllCurrent, MovedBelow
  <2>2. PICK p \in pins[r] : MovedBelow(p)
    BY <1>1, <1>3, <1>4, <2>1, MovedDeeper
  <2>3. <<p, 0>> \in todo'[k]
    BY <1>8
  <2> QED BY <2>2, <2>3
<1> QED BY <1>5, <1>7, <1>8, <1>9, <1>10, BaseRests DEF ReadsRight

LEMMA CheckReads ==
  ASSUME ReadInv, NEW k \in Readers, Check(k)
  PROVE  ReadTyped' /\ ReadsRight(k)'
<1>1. KInv /\ Few /\ ReadTyped /\ ReadsRight(k) /\ reading[k] \subseteq Existing
  BY DEF ReadInv, KInv, Typed, TypeOK
<1>2. PICK t \in todo[k] :
        LET moved == IF Moved(t[1]) THEN {"stale"} ELSE {}
            below == IF t[1] \in Revisions THEN pins[t[1]] ELSE {}
            cut == t[1] \in Revisions /\ t[2] >= Depth
        IN /\ todo' = [todo EXCEPT ![k] = (@ \ {t}) \cup IF cut THEN {} ELSE below \X {t[2] + 1}]
           /\ verdict' = [verdict EXCEPT ![k] = @ \cup moved \cup IF cut THEN {"bounded"} ELSE {}]
  BY DEF Check, Moved
<1> DEFINE moved == IF Moved(t[1]) THEN {"stale"} ELSE {}
           below == IF t[1] \in Revisions THEN pins[t[1]] ELSE {}
           cut == t[1] \in Revisions /\ t[2] >= Depth
           new == IF cut THEN {} ELSE below \X {t[2] + 1}
           told == moved \cup IF cut THEN {"bounded"} ELSE {}
<1>3. todo' = [todo EXCEPT ![k] = (@ \ {t}) \cup new] /\ verdict' = [verdict EXCEPT ![k] = @ \cup told]
  BY <1>2
<1>4. /\ UNCHANGED base /\ reading' = reading /\ fresh' = fresh /\ said' = said
  BY DEF Check
<1>5. t[1] \in Pins /\ t[2] \in Nat /\ below \subseteq Pins
  <2>1. t \in Pins \X Nat
    BY <1>1 DEF ReadTyped
  <2>2. \A r \in Revisions : pins[r] \subseteq Pins
    BY <1>1 DEF KInv, Typed, TypeOK
  <2> QED BY <2>1, <2>2
<1>6. new \subseteq Pins \X Nat /\ told \subseteq {"stale", "bounded"}
  BY <1>5
<1>7. /\ todo'[k] = (todo[k] \ {t}) \cup new /\ verdict'[k] = verdict[k] \cup told
      /\ todo' \in [Readers -> SUBSET (Pins \X Nat)]
      /\ verdict' \in [Readers -> SUBSET {"stale", "bounded"}]
  <2> HIDE DEF new, told
  <2> QED BY <1>1, <1>3, <1>6 DEF ReadTyped
<1>8. ReadTyped'
  BY <1>1, <1>4, <1>7 DEF ReadTyped, Pins, Revisions
<1>9. ASSUME NEW r \in reading[k]
      PROVE  /\ \A u \in todo'[k] : u[1] \in AllPins(r)
             /\ "stale" \in verdict'[k] => ~Fresh(r)
             /\ verdict'[k] = {} /\ ~fresh[k] => \E u \in todo'[k] : MovedBelow(u[1])
  <2>1. /\ r \in Existing /\ t[1] \in AllPins(r)
        /\ \A u \in todo[k] : u[1] \in AllPins(r)
        /\ "stale" \in verdict[k] => ~Fresh(r)
        /\ verdict[k] = {} /\ ~fresh[k] => \E u \in todo[k] : MovedBelow(u[1])
    BY <1>1, <1>9 DEF ReadsRight
  <2>2. t[1] \in Revisions => t[1] \in Existing
    BY <1>1, <2>1, AllPinsAreReal
  <2>3. \A u \in new : u[1] \in AllPins(r)
    <3> SUFFICES ASSUME NEW p \in below PROVE p \in AllPins(r)
      OBVIOUS
    <3>1. t[1] \in Revisions /\ t[1] \in Existing /\ p \in pins[t[1]]
      BY <2>2
    <3>2. pins[r] \cap Revisions \subseteq Below(r) /\ Closed(Below(r))
      BY <1>1, <2>1, BelowIsClosed
    <3>3. t[1] \in Below(r)
      BY <2>1, <3>1, <3>2 DEF AllPins, Closed
    <3> QED BY <3>1, <3>3 DEF AllPins
  <2>4. "stale" \in told => ~Fresh(r)
    <3> SUFFICES ASSUME Moved(t[1]) PROVE ~Fresh(r)
      OBVIOUS
    <3> QED BY <1>1, <2>1, FreshIs DEF FreshMeans, AllCurrent
  <2>5. ASSUME verdict'[k] = {}, ~fresh[k] PROVE \E u \in todo'[k] : MovedBelow(u[1])
    <3>1. verdict[k] = {} /\ told = {}
      BY <1>7, <2>5
    <3>2. ~Moved(t[1]) /\ ~cut
      BY <3>1
    <3>3. PICK u \in todo[k] : MovedBelow(u[1])
      BY <2>1, <2>5, <3>1
    <3>4. CASE u # t
      BY <1>7, <3>3, <3>4
    <3>5. CASE u = t
      <4>1. t[1] \in Revisions /\ \E p \in pins[t[1]] : MovedBelow(p)
        BY <1>1, <2>2, <3>2, <3>3, <3>5, MovedDeeper
      <4>2. PICK p \in below : MovedBelow(p)
        BY <4>1
      <4>3. <<p, t[2] + 1>> \in todo'[k]
        BY <1>7, <3>2
      <4> QED BY <4>2, <4>3
    <3> QED BY <3>4, <3>5
  <2> HIDE DEF new, told
  <2> QED BY <1>7, <2>1, <2>3, <2>4, <2>5
<1> QED BY <1>1, <1>4, <1>8, <1>9, BaseRests DEF ReadsRight

LEMMA TellReads ==
  ASSUME ReadInv, NEW k \in Readers, Tell(k)
  PROVE  ReadTyped' /\ ReadsRight(k)'
<1>1. KInv /\ Few /\ ReadTyped /\ ReadsRight(k) /\ reading[k] \subseteq Existing
  BY DEF ReadInv, KInv, Typed, TypeOK
<1>2. PICK r \in reading[k] : said' = [said EXCEPT ![k] = {<<Told(k, r), r>>}]
  BY DEF Tell
<1>3. /\ UNCHANGED base /\ todo[k] = {} /\ reading' = [reading EXCEPT ![k] = {}]
      /\ fresh' = fresh /\ todo' = todo /\ verdict' = verdict
  BY DEF Tell
<1>4. r \in Existing /\ r \in Revisions /\ Told(k, r) \in {"unknown", "stale", "current"}
  BY <1>1, <1>2 DEF Existing, Told
<1>5. ReadTyped'
  BY <1>1, <1>2, <1>3, <1>4 DEF ReadTyped, Pins, Revisions
<1>6. said'[k] = {<<Told(k, r), r>>} /\ reading'[k] = {}
  BY <1>1, <1>2, <1>3 DEF ReadTyped, KInv, Typed
<1>7. Told(k, r) = "current" => fresh[k]
  BY <1>1, <1>3 DEF Told, ReadsRight
<1>8. Told(k, r) = "stale" => ~Fresh(r)
  <2>1. SUFFICES ASSUME Told(k, r) = "stale" PROVE ~Fresh(r)
    OBVIOUS
  <2>2. verdict[k] \subseteq {"stale", "bounded"}
    BY <1>1 DEF ReadTyped
  <2>3. "stale" \in verdict[k] \/ head[r[1]] # r[2]
    BY <2>1, <2>2 DEF Told
  <2>4. r[1] \in Ids
    BY <1>4 DEF Revisions
  <2> QED BY <1>1, <2>3, <2>4 DEF ReadsRight, Fresh, Current
<1> QED BY <1>3, <1>4, <1>5, <1>6, <1>7, <1>8, BaseRests DEF ReadsRight

LEMMA EndReads ==
  ASSUME ReadInv, NEW k \in Readers, ListEnds(k)
  PROVE  ReadTyped' /\ ReadsRight(k)'
<1>1. KInv /\ ReadTyped /\ reading[k] = {}
  BY DEF ReadInv, ListEnds, NoMore
<1>2. /\ reading' = reading /\ todo' = todo
      /\ verdict' = [verdict EXCEPT ![k] = {}] /\ said' = [said EXCEPT ![k] = {}]
      /\ fresh' = [fresh EXCEPT ![k] = FALSE]
  BY DEF ListEnds
<1>3. ReadTyped' /\ said'[k] = {} /\ reading'[k] = {}
  BY <1>1, <1>2 DEF ReadTyped, Pins, Revisions
<1> QED BY <1>3 DEF ReadsRight

LEMMA StepReadInv == ReadInv /\ [Next]_vars => ReadInv'
<1> SUFFICES ASSUME ReadInv, [Next]_vars PROVE ReadInv'
  OBVIOUS
<1>1. KInv' /\ Few'
  BY StepKeeps, StepKeepsFew DEF ReadInv
<1>2. CASE UNCHANGED read
  <2>1. ReadTyped'
    BY <1>2 DEF read, ReadInv, ReadTyped, Pins, Revisions
  <2> QED BY <1>1, <1>2, <2>1, ReaderRests DEF read, ReadInv
<1>3. ASSUME NEW k \in Readers, Load(k) \/ Check(k) \/ Tell(k) \/ ListEnds(k) PROVE ReadInv'
  <2>1. ReadTyped' /\ ReadsRight(k)'
    BY <1>3, LoadReads, CheckReads, TellReads, EndReads
  <2>2. ASSUME NEW j \in Readers, j # k PROVE ReadsRight(j)'
    <3>1. reading'[j] = reading[j] /\ todo'[j] = todo[j] /\ verdict'[j] = verdict[j]
          /\ fresh'[j] = fresh[j] /\ said'[j] = said[j]
      BY <1>3, <2>2 DEF Load, Check, Tell, ListEnds, ReadInv, KInv, Typed, ReadTyped
    <3> QED BY <3>1, ReaderRests
  <2> QED BY <1>1, <2>1, <2>2 DEF ReadInv
<1>4. ASSUME NEW a \in Analyses, Publish(a) PROVE UNCHANGED read
  BY <1>4 DEF Publish
<1>5. ASSUME NEW w \in Writers, Look(w) \/ Put(w) PROVE UNCHANGED read
  BY <1>5 DEF Look, Put
<1> QED BY <1>2, <1>3, <1>4, <1>5 DEF Next, vars

LEMMA InitReadInv == Init => ReadInv
<1> SUFFICES ASSUME Init PROVE ReadInv
  OBVIOUS
<1>1. Existing = {}
  BY KnowledgeAssumption DEF Init, Existing, Revisions
<1>2. Few
  BY <1>1, FS_EmptySet, KnowledgeAssumption DEF Few
<1>3. ReadTyped /\ \A k \in Readers : ReadsRight(k)
  BY DEF Init, ReadTyped, ReadsRight
<1> QED BY <1>2, <1>3, InitKInv DEF ReadInv

\* What a reader has still to look at decides right, whatever is revised or
\* superseded between its statements (Freshness::check, knowledge.cpp).
THEOREM ReadInvHolds == Spec => []ReadInv
BY InitReadInv, StepReadInv, PTL DEF Spec

\* What a reader is told is current was so when its record was loaded
\* (knowledge.cpp:81-159).
THEOREM CurrentIsTrue == Spec => []CurrentWasFresh
<1>1. ReadInv => CurrentWasFresh
  BY DEF ReadInv, ReadsRight, CurrentWasFresh
<1> QED BY <1>1, ReadInvHolds, PTL

\* What a reader is told is stale is stale, and stays so (knowledge.cpp:81-159).
THEOREM StaleIsTrue == Spec => []StaleIsStale
<1>1. ReadInv => StaleIsStale
  BY DEF ReadInv, ReadsRight, StaleIsStale
<1> QED BY <1>1, ReadInvHolds, PTL

-----------------------------------------------------------------------------
(* Lists.  A page begins at an offset, which counts the rows there are now. *)
(* Rows that are added move no row before the offset; a row that leaves     *)
(* does, and is noted in LeftSince.                                         *)

Before(i) == {j \in Shown : j < i}
Disturbed(k, i) == \E j \in LeftSince(k) : j <= i

LEMMA RanksAreNumbers ==
  ASSUME NEW i
  PROVE  /\ IsFiniteSet(Before(i)) /\ Cardinality(Before(i)) \in Nat
         /\ IsFiniteSet(Shown) /\ Cardinality(Shown) \in Nat
<1>1. Before(i) \in SUBSET Ids /\ Shown \in SUBSET Ids
  BY DEF Before, Shown
<1>2. IsFiniteSet(Before(i)) /\ IsFiniteSet(Shown)
  BY <1>1, FS_Subset, KnowledgeAssumption
<1> QED BY <1>2, FS_CardinalityType

(* Of two rows, the later one has the higher place. *)
LEMMA RanksDiffer ==
  ASSUME NEW x \in Shown, NEW y \in Shown, x < y
  PROVE  Cardinality(Before(x)) < Cardinality(Before(y))
<1>1. x \in Nat /\ y \in Nat /\ Shown \subseteq Nat
  BY KnowledgeAssumption DEF Shown
<1>2. Before(x) \subseteq Before(y)
  <2> SUFFICES ASSUME NEW j \in Shown, j < x PROVE j < y
    BY DEF Before
  <2> QED BY <1>1
<1>3. x \in Before(y) /\ x \notin Before(x)
  BY <1>1 DEF Before
<1>4. Cardinality(Before(x)) <= Cardinality(Before(y)) /\ Cardinality(Before(x)) # Cardinality(Before(y))
  BY <1>2, <1>3, RanksAreNumbers, FS_Subset
<1> QED BY <1>4, RanksAreNumbers

LEMMA RankWithin ==
  ASSUME NEW x \in Shown
  PROVE  Cardinality(Before(x)) < Cardinality(Shown)
<1>1. x \in Nat /\ Before(x) \subseteq Shown /\ x \notin Before(x)
  BY KnowledgeAssumption DEF Before, Shown
<1>2. Cardinality(Before(x)) <= Cardinality(Shown) /\ Cardinality(Before(x)) # Cardinality(Shown)
  BY <1>1, RanksAreNumbers, FS_Subset
<1> QED BY <1>2, RanksAreNumbers

(* A head moves by one revision at a time. *)
LEMMA HeadsStep ==
  ASSUME KInv, [Next]_vars, NEW i \in Ids
  PROVE  head[i] \in Nat /\ (head'[i] = head[i] \/ head'[i] = head[i] + 1)
<1>1. head \in [Ids -> 0..MaxRevision] /\ head[i] \in Nat
  BY KnowledgeAssumption DEF KInv, Typed, TypeOK
<1>2. CASE UNCHANGED head
  BY <1>1, <1>2
<1>3. ASSUME NEW w \in Writers, Put(w) PROVE head'[i] = head[i] \/ head'[i] = head[i] + 1
  BY <1>1, <1>3 DEF Put
<1> QED BY <1>1, <1>2, <1>3
    DEF Next, vars, base, Publish, Look, Load, Check, Tell, ListEnds

(* What a list has not shown yet is at the place it has come to or beyond,  *)
(* unless it or a row before it has left.                                   *)
ListsRight(k) ==
  /\ \A j \in Ids : began[k][j] <= head[j]
  /\ \A x \in There(k) :
       Disturbed(k, x) \/ (x \in Shown /\ (x \in listed[k] \/ Cardinality(Before(x)) >= offset[k]))

ListInv ==
  /\ KInv
  /\ offset \in [Readers -> Nat] /\ began \in [Readers -> [Ids -> Nat]]
  /\ listed \in [Readers -> SUBSET Ids]
  /\ \A k \in Readers : ListsRight(k)

(* A row that goes is noted, and no note is forgotten while the list lasts. *)
LEMMA LeavingIsNoted ==
  ASSUME ListInv, [Next]_vars, NEW k \in Readers, began'[k] = began[k]
  PROVE  /\ LeftSince(k) \subseteq LeftSince(k)'
         /\ Shown \ Shown' \subseteq LeftSince(k)'
<1>1. ASSUME NEW j \in Ids
      PROVE  /\ head[j] \in Nat /\ began[k][j] \in Nat /\ began[k][j] <= head[j]
             /\ head'[j] = head[j] \/ head'[j] = head[j] + 1
  BY HeadsStep DEF ListInv, ListsRight
<1>2. ASSUME NEW j \in LeftSince(k) PROVE j \in LeftSince(k)'
  <2>1. PICK n \in began[k][j]..(head[j] - 1) : <<j, n>> \in Fits /\ <<j, n + 1>> \notin Fits
    BY DEF LeftSince
  <2>2. j \in Ids
    BY DEF LeftSince
  <2>3. n \in began'[k][j]..(head'[j] - 1)
    BY <1>1, <2>1, <2>2
  <2> QED BY <2>1, <2>2, <2>3 DEF LeftSince
<1>3. ASSUME NEW j \in Shown, j \notin Shown' PROVE j \in LeftSince(k)'
  <2>1. j \in Ids /\ <<j, head[j]>> \in Fits /\ <<j, head'[j]>> \notin Fits
    BY <1>3 DEF Shown
  <2>2. head'[j] = head[j] + 1
    BY <1>1, <2>1
  <2>3. head[j] \in began'[k][j]..(head'[j] - 1)
    BY <1>1, <2>1, <2>2
  <2> QED BY <2>1, <2>2, <2>3 DEF LeftSince
<1> QED BY <1>2, <1>3

LEMMA ListRests ==
  ASSUME ListInv, [Next]_vars, NEW k \in Readers,
         began'[k] = began[k], listed'[k] = listed[k], offset'[k] = offset[k]
  PROVE  ListsRight(k)'
<1>1. KInv /\ ListsRight(k) /\ offset[k] \in Nat /\ began[k] \in [Ids -> Nat]
  BY DEF ListInv
<1>2. ASSUME NEW j \in Ids PROVE began'[k][j] <= head'[j]
  <2>1. head[j] \in Nat /\ (head'[j] = head[j] \/ head'[j] = head[j] + 1)
    BY <1>1, HeadsStep
  <2>2. began[k][j] \in Nat /\ began[k][j] <= head[j]
    BY <1>1 DEF ListsRight
  <2> QED BY <2>1, <2>2
<1>3. ASSUME NEW x \in There(k), ~Disturbed(k, x)'
      PROVE  x \in Shown' /\ (x \in listed[k] \/ Cardinality(Before(x))' >= offset[k])
  <2>1. x \in Ids /\ x \in Nat /\ Ids \subseteq Nat
    BY KnowledgeAssumption DEF There
  <2>2. \A j \in Shown : j <= x => j \in Shown'
    BY <1>3, LeavingIsNoted DEF Disturbed
  <2>3. x \in Shown /\ (x \in listed[k] \/ Cardinality(Before(x)) >= offset[k])
    BY <1>1, <1>3, LeavingIsNoted DEF ListsRight, Disturbed
  <2>4. Before(x) \subseteq Before(x)'
    <3> SUFFICES ASSUME NEW j \in Shown, j < x PROVE j \in Shown'
      BY DEF Before
    <3>1. j \in Nat
      BY <2>1 DEF Shown
    <3> QED BY <2>1, <2>2, <3>1
  <2>5. Before(x)' \in SUBSET Ids
    BY DEF Before, Shown
  <2>6. IsFiniteSet(Before(x)')
    BY <2>5, FS_Subset, KnowledgeAssumption
  <2>7. /\ Cardinality(Before(x)) <= Cardinality(Before(x)')
        /\ Cardinality(Before(x)) \in Nat /\ Cardinality(Before(x)') \in Nat
    BY <2>4, <2>6, FS_Subset, FS_CardinalityType
  <2> QED BY <1>1, <2>1, <2>2, <2>3, <2>7
<1>4. There(k)' = There(k)
  BY DEF There
<1> QED BY <1>2, <1>3, <1>4 DEF ListsRight

(* A row before the one that is loaded next has a lower place. *)
LEMMA NextIsLowest ==
  ASSUME NEW x \in Shown, NEW i \in Shown, x # i, NEW n \in Nat,
         Cardinality(Before(i)) = n, Cardinality(Before(x)) >= n
  PROVE  Cardinality(Before(x)) >= n + 1
<1>1. x \in Nat /\ i \in Nat
  BY KnowledgeAssumption DEF Shown
<1>2. Cardinality(Before(x)) \in Nat /\ Cardinality(Before(i)) \in Nat
  BY RanksAreNumbers
<1>3. CASE x < i
  BY <1>2, <1>3, RanksDiffer
<1>4. CASE i < x
  BY <1>2, <1>4, RanksDiffer
<1> QED BY <1>1, <1>3, <1>4

LEMMA LoadLists ==
  ASSUME ListInv, NEW k \in Readers, Load(k)
  PROVE  /\ offset' \in [Readers -> Nat] /\ began' \in [Readers -> [Ids -> Nat]]
         /\ listed' \in [Readers -> SUBSET Ids]
         /\ ListsRight(k)'
<1>1. PICK i \in Shown : /\ Cardinality(Before(i)) = offset[k]
                         /\ listed' = [listed EXCEPT ![k] = @ \cup {i}]
  BY DEF Load, Before
<1>2. /\ began' = [began EXCEPT ![k] = IF offset[k] = 0 THEN head ELSE @]
      /\ offset' = [offset EXCEPT ![k] = @ + 1] /\ head' = head
  BY DEF Load, base
<1>3. /\ offset \in [Readers -> Nat] /\ began \in [Readers -> [Ids -> Nat]]
      /\ listed \in [Readers -> SUBSET Ids] /\ ListsRight(k)
  BY DEF ListInv
<1>4. Shown \subseteq Ids /\ head \in [Ids -> Nat]
  BY KnowledgeAssumption DEF Shown, ListInv, KInv, Typed, TypeOK
<1>5. /\ offset' \in [Readers -> Nat] /\ began' \in [Readers -> [Ids -> Nat]]
      /\ listed' \in [Readers -> SUBSET Ids]
      /\ offset'[k] = offset[k] + 1 /\ listed'[k] = listed[k] \cup {i}
      /\ began'[k] = IF offset[k] = 0 THEN head ELSE began[k]
  BY <1>1, <1>2, <1>3, <1>4
<1>6. Shown' = Shown /\ \A x : Before(x)' = Before(x)
  BY <1>2 DEF Shown, Before
<1>7. ASSUME NEW j \in Ids PROVE began'[k][j] <= head'[j]
  BY <1>2, <1>3, <1>4, <1>5, <1>7 DEF ListsRight
<1>8. ASSUME NEW x \in There(k)', ~Disturbed(k, x)'
      PROVE  x \in Shown /\ (x \in listed'[k] \/ Cardinality(Before(x)) >= offset[k] + 1)
  <2>1. x \in Shown /\ (x \in listed[k] \/ Cardinality(Before(x)) >= offset[k])
    <3>1. CASE offset[k] = 0
      <4>1. x \in Shown
        BY <1>2, <1>5, <1>8, <3>1 DEF There, Shown
      <4>2. Cardinality(Before(x)) \in Nat
        BY RanksAreNumbers
      <4> QED BY <3>1, <4>1, <4>2
    <3>2. CASE offset[k] # 0
      <4>1. began'[k] = began[k]
        BY <1>5, <3>2
      <4>2. There(k)' = There(k) /\ Disturbed(k, x)' = Disturbed(k, x)
        BY <1>2, <4>1 DEF There, Disturbed, LeftSince
      <4> QED BY <1>3, <1>8, <4>2 DEF ListsRight
    <3> QED BY <3>1, <3>2
  <2>2. CASE x \in listed[k] \/ x = i
    BY <1>5, <2>1, <2>2
  <2>3. CASE x \notin listed[k] /\ x # i
    <3>1. offset[k] \in Nat
      BY <1>3
    <3> QED BY <1>1, <2>1, <2>3, <3>1, NextIsLowest
  <2> QED BY <2>2, <2>3
<1> QED BY <1>5, <1>6, <1>7, <1>8 DEF ListsRight

LEMMA StepListInv == ListInv /\ [Next]_vars => ListInv'
<1> SUFFICES ASSUME ListInv, [Next]_vars PROVE ListInv'
  OBVIOUS
<1>1. KInv'
  BY StepKeeps DEF ListInv
<1>2. /\ offset \in [Readers -> Nat] /\ began \in [Readers -> [Ids -> Nat]]
      /\ listed \in [Readers -> SUBSET Ids]
  BY DEF ListInv
<1>3. CASE UNCHANGED <<offset, began, listed>>
  BY <1>1, <1>2, <1>3, ListRests DEF ListInv
<1>4. ASSUME NEW k \in Readers, Load(k) PROVE ListInv'
  <2>1. ASSUME NEW j \in Readers, j # k PROVE ListsRight(j)'
    <3>1. began'[j] = began[j] /\ listed'[j] = listed[j] /\ offset'[j] = offset[j]
      BY <1>2, <1>4, <2>1 DEF Load
    <3> QED BY <3>1, ListRests
  <2> QED BY <1>1, <1>4, <2>1, LoadLists DEF ListInv
<1>5. ASSUME NEW k \in Readers, ListEnds(k) PROVE ListInv'
  <2>1. /\ offset' = [offset EXCEPT ![k] = 0] /\ listed' = [listed EXCEPT ![k] = {}]
        /\ began' = [began EXCEPT ![k] = [i \in Ids |-> 0]] /\ head' = head
    BY <1>5 DEF ListEnds, base
  <2>2. ASSUME NEW j \in Readers, j # k PROVE ListsRight(j)'
    <3>1. began'[j] = began[j] /\ listed'[j] = listed[j] /\ offset'[j] = offset[j]
      BY <1>2, <2>1, <2>2
    <3> QED BY <3>1, ListRests
  <2>3. began' \in [Readers -> [Ids -> Nat]] /\ began'[k] = [i \in Ids |-> 0]
    BY <1>2, <2>1
  <2>4. ListsRight(k)'
    <3>1. There(k)' = {}
      BY <2>3, KnowledgeAssumption DEF There
    <3>2. \A j \in Ids : head'[j] \in Nat
      BY <2>1, KnowledgeAssumption DEF ListInv, KInv, Typed, TypeOK
    <3> QED BY <2>3, <3>1, <3>2 DEF ListsRight
  <2>5. offset' \in [Readers -> Nat] /\ listed' \in [Readers -> SUBSET Ids]
    BY <1>2, <2>1
  <2> QED BY <1>1, <2>2, <2>3, <2>4, <2>5 DEF ListInv
<1> QED BY <1>3, <1>4, <1>5
    DEF Next, vars, read, Publish, Look, Put, Check, Tell

\* A list that has come to its end has shown every record that was in it when
\* it began, whatever its filter and whatever is added between its pages, unless
\* a revision has taken that record or one before it out of the list meanwhile
\* (knowledge.cpp:353-387).
THEOREM ListsAreWhole == Spec => []ListShowsAll
<1>1. Init => ListInv
  <2> SUFFICES ASSUME Init PROVE ListInv
    OBVIOUS
  <2>1. /\ offset \in [Readers -> Nat] /\ began \in [Readers -> [Ids -> Nat]]
        /\ listed \in [Readers -> SUBSET Ids]
    BY DEF Init
  <2>2. ASSUME NEW k \in Readers PROVE ListsRight(k)
    <3>1. began[k] = [i \in Ids |-> 0] /\ head = [i \in Ids |-> 0]
      BY DEF Init
    <3>2. There(k) = {}
      BY <3>1, KnowledgeAssumption DEF There
    <3> QED BY <3>1, <3>2 DEF ListsRight
  <2> QED BY <2>1, <2>2, InitKInv DEF ListInv
<1>2. ListInv => ListShowsAll
  <2> SUFFICES ASSUME ListInv, NEW k \in Readers, NoMore(k), NEW x \in There(k),
                      ~Disturbed(k, x), x \notin listed[k]
               PROVE FALSE
    BY DEF ListShowsAll, Disturbed
  <2>1. x \in Shown /\ Cardinality(Before(x)) >= offset[k]
    BY DEF ListInv, ListsRight
  <2>2. offset[k] \in Nat /\ offset[k] >= Cardinality(Shown)
    BY DEF ListInv, NoMore
  <2>3. /\ Cardinality(Before(x)) < Cardinality(Shown)
        /\ Cardinality(Before(x)) \in Nat /\ Cardinality(Shown) \in Nat
    BY <2>1, RankWithin, RanksAreNumbers
  <2> QED BY <2>1, <2>2, <2>3
<1> QED BY <1>1, <1>2, StepListInv, PTL DEF Spec

-----------------------------------------------------------------------------
(* The records there are. *)
Live == {i \in Ids : head[i] > 0}

(* The impact of a change holds every record whose head depends on what is *)
(* in it.                                                                  *)
LEMMA ImpactIsClosed ==
  ASSUME KInv, Few, NEW x
  PROVE  /\ Dependents(x) \subseteq Impact(x)
         /\ \A i \in Impact(x) : i \in Ids /\ Dependents(i) \subseteq Impact(x)
<1> DEFINE next == [i \in Ids |-> Dependents(i)]
           Heads == {<<i, head[i]>> : i \in Live}
<1>1. \A y : Dependents(y) \subseteq Live
  BY DEF Dependents, Live
<1>2. Heads \subseteq Existing
  BY KnowledgeAssumption DEF Existing, Revisions, Live, KInv, Typed, TypeOK
<1>3. IsFiniteSet(Live) /\ Cardinality(Live) <= MaxPuts
  <2>1. IsFiniteSet(Heads) /\ Cardinality(Heads) <= Cardinality(Existing)
    BY <1>2, FS_Subset DEF Few
  <2>2. IsFiniteSet(Live) /\ Cardinality(Live) \in Nat
    BY FS_Subset, FS_CardinalityType, KnowledgeAssumption DEF Live
  <2> DEFINE f == [i \in Live |-> <<i, head[i]>>]
  <2>3. f \in [Live -> Heads]
    OBVIOUS
  <2>4. \A i, j \in Live : f[i] = f[j] => i = j
    OBVIOUS
  <2>5. Cardinality(Live) <= Cardinality(Heads)
    <3>1. Cardinality(Heads) \in Nat
      BY <2>1, FS_CardinalityType
    <3>2. ~(Cardinality(Heads) < Cardinality(Live))
      <4> HIDE DEF f, Heads
      <4> QED BY <2>1, <2>2, <2>3, <2>4, FS_PigeonHole
    <3> QED BY <2>2, <3>1, <3>2
  <2>6. Cardinality(Heads) \in Nat /\ Cardinality(Existing) \in Nat /\ MaxPuts \in Nat
        /\ Cardinality(Existing) <= MaxPuts
    BY <2>1, FS_CardinalityType, KnowledgeAssumption DEF Few
  <2> HIDE DEF Heads
  <2> QED BY <2>1, <2>2, <2>5, <2>6
<1>4. \A i \in Live : next[i] \subseteq Live
  BY <1>1 DEF Live
<1>5. Dependents(x) \subseteq Live
  BY <1>1
<1> HIDE DEF next
<1>6. /\ Dependents(x) \subseteq Closure(Dependents(x), next)
      /\ \A i \in Closure(Dependents(x), next) : next[i] \subseteq Closure(Dependents(x), next)
  BY <1>3, <1>4, <1>5, ClosureIsClosed
<1>7. Closure(Dependents(x), next) \subseteq Live
  BY <1>4, <1>5, ClosureWithin
<1>8. Impact(x) = Closure(Dependents(x), next)
  BY DEF Impact, next
<1>9. \A i \in Ids : next[i] = Dependents(i)
  BY DEF next
<1> QED BY <1>6, <1>7, <1>8, <1>9 DEF Live

(* What a revision rests on stays as it is. *)
LEMMA AllPinsStay ==
  ASSUME KInv, [Next]_vars, NEW r \in Existing
  PROVE  r \in Existing' /\ AllPins(r)' = AllPins(r)
<1>1. KInv' /\ Appends
  BY StepKeeps
<1>2. r \in Existing' /\ Below(r) \subseteq Below(r)' /\ \A q \in Existing : q \in Existing' /\ pins'[q] = pins[q]
  BY <1>1, BelowGrows DEF Appends
<1>3. /\ Below(r) \subseteq Existing /\ pins[r] \cap Revisions \subseteq Below(r)
      /\ \A q \in Below(r) : pins[q] \cap Revisions \subseteq Below(r)
  BY BelowExists, BelowIsClosed DEF Closed
<1>4. Below(r)' \subseteq Below(r)
  <2> DEFINE M == Below(r)
  <2>1. M \in SUBSET Existing' /\ pins'[r] \cap Revisions \subseteq M
        /\ \A q \in M : pins'[q] \cap Revisions \subseteq M
    BY <1>2, <1>3
  <2> HIDE DEF M
  <2>2. \A x \in Below(r)' : x \in M
    BY <2>1 DEF Below, Closed, Revisions
  <2> QED BY <2>2 DEF M
<1> QED BY <1>2, <1>3, <1>4 DEF AllPins

(* A fresh record that rests on x is in the impact of x. *)
LEMMA FreshRestsInImpact ==
  ASSUME KInv, Few, NEW i \in Ids, head[i] > 0, Fresh(<<i, head[i]>>),
         NEW pin \in AllPins(<<i, head[i]>>)
  PROVE  i \in Impact(pin[1])
<1> DEFINE r == <<i, head[i]>>
           I == Impact(pin[1])
<1>0. r \in Existing /\ r \in Revisions
  BY KnowledgeAssumption DEF Existing, Revisions, KInv, Typed, TypeOK
<1>1. \A p \in AllPins(r) : ~Moved(p)
  BY <1>0, FreshIs DEF FreshMeans, AllCurrent
<1>2. Dependents(pin[1]) \subseteq I /\ \A j \in I : j \in Ids /\ Dependents(j) \subseteq I
  BY ImpactIsClosed
<1> SUFFICES ASSUME i \notin I PROVE FALSE
  OBVIOUS
<1> HIDE DEF I
<1> DEFINE M == {q \in Below(r) : q[1] \notin I /\ q[2] = head[q[1]]}
<1>3. ASSUME NEW q \in {r} \cup M, NEW p \in pins[q] PROVE p[1] \notin I /\ pin # p
  <2>1. q = <<q[1], head[q[1]]>> /\ q[1] \in Ids /\ head[q[1]] > 0 /\ q[1] \notin I
    <3>1. q \in Existing /\ q \in Revisions
      BY <1>0, BelowExists
    <3> QED BY <3>1, KnowledgeAssumption DEF Existing, Revisions, KInv, Typed, TypeOK
  <2>2. q[1] \in Dependents(p[1])
    BY <2>1 DEF Dependents
  <2> QED BY <1>2, <2>1, <2>2
<1>4. ASSUME NEW q \in {r} \cup M, NEW p \in pins[q] \cap Revisions PROVE p \in M
  <2>1. p \in AllPins(r)
    BY DEF AllPins
  <2>2. p[1] \in Ids /\ p[2] = head[p[1]]
    BY <1>1, <2>1 DEF Moved, Current, Revisions
  <2>3. p \in Below(r)
    BY <1>0, BelowIsClosed DEF Closed
  <2> QED BY <1>3, <2>2, <2>3
<1>5. Below(r) \subseteq M
  <2>1. M \in SUBSET Existing
    BY BelowExists
  <2>2. pins[r] \cap Revisions \subseteq M /\ Closed(M)
    BY <1>4 DEF Closed
  <2> HIDE DEF M
  <2> QED BY <2>1, <2>2 DEF Below
<1>6. PICK q \in {r} \cup Below(r) : pin \in pins[q]
  BY DEF AllPins
<1> QED BY <1>3, <1>5, <1>6

LEMMA StaleStepIsImpacted ==
  ASSUME KInv, Few, [Next]_vars
  PROVE  StaleIsImpacted
<1> SUFFICES ASSUME NEW i \in Ids, head[i] > 0, Fresh(<<i, head[i]>>), ~Fresh(<<i, head[i]>>)'
             PROVE  \E x \in Ids \cup Analyses :
                      Current(x)' # Current(x) /\ (x = i \/ i \in Impact(x))
  BY DEF StaleIsImpacted
<1>1. CASE head'[i] # head[i]
  BY <1>1 DEF Current
<1>2. CASE head'[i] = head[i]
  <2>0. <<i, head[i]>> \in Existing
    BY KnowledgeAssumption DEF Existing, Revisions, KInv, Typed, TypeOK
  <2> PICK r \in Existing : r = <<i, head[i]>>
    BY <2>0
  <2>1. r \in Existing /\ r[1] = i /\ r[2] = head[i]
    OBVIOUS
  <2>2. KInv' /\ Few' /\ Appends
    BY StepKeeps, StepKeepsFew
  <2>3. ~Fresh(r)'
    BY <1>2
  <2>4. ~Moved(r)'
    BY <1>2 DEF Moved, Current
  <2>5. AllPins(r)' = AllPins(r) /\ r \in Existing'
    BY <1>2, <2>1, AllPinsStay
  <2>6. FreshMeans'
    BY <2>2, FreshIs, PTL
  <2>7. PICK pin \in AllPins(r) : Moved(pin)'
    BY <1>2, <2>3, <2>4, <2>5, <2>6 DEF FreshMeans, AllCurrent
  <2>8. ~Moved(pin) /\ Real(pin)
    BY <2>1, FreshIs, AllPinsAreReal DEF FreshMeans, AllCurrent
  <2>9. Current(pin[1])' # Current(pin[1])
    BY <2>7, <2>8 DEF Moved
  <2>10. i \in Impact(pin[1])
    BY FreshRestsInImpact
  <2> QED BY <2>8, <2>9, <2>10 DEF Real
<1> QED BY <1>1, <1>2

\* What a change makes stale is in the impact of what has changed, computed
\* before it (knowledge.cpp:323-350).
THEOREM ImpactIsWhole == Spec => [][StaleIsImpacted]_vars
<1>1. KInv /\ Few /\ [Next]_vars => [StaleIsImpacted]_vars
  BY StaleStepIsImpacted
<1> QED BY <1>1, KInvHolds, RevisionsAreFew, PTL DEF Spec
=============================================================================
