----------------------------- MODULE Knowledge -----------------------------
(***************************************************************************)
(* Knowledge records, knowledge.cpp: append-only revisions, written by     *)
(* compare and swap on the head, whose dependencies are pinned to what     *)
(* they name at that moment; freshness, which is computed from the pins    *)
(* whenever a record is read; and the impact of a change.                  *)
(*                                                                         *)
(* A write is one transaction.  A read is many statements without one:     *)
(* records may be revised and analyses superseded between any two of them. *)
(***************************************************************************)
EXTENDS Naturals, FiniteSets

CONSTANTS
  Ids,          \* records; lists are ordered by them
  Analyses,     \* what static dependencies name: the scope of an analysis
  Writers, Readers,
  Fits,         \* the revisions that fit the kind, search and artifact of a list
  MaxRevision,  \* bound on the revisions of a record
  MaxAnalysis,  \* bound on the revisions of an analysis
  MaxPuts,      \* bound on the revisions of all records
  MaxPins,      \* bound on the dependencies of a record
  Depth         \* of the traversal; 32 in the code

ASSUME KnowledgeAssumption ==
  /\ Ids \subseteq Nat /\ IsFiniteSet(Ids) /\ IsFiniteSet(Analyses)
  /\ Ids \cap Analyses = {} /\ Fits \subseteq Ids \X (Nat \ {0})
  /\ MaxRevision \in Nat /\ MaxAnalysis \in Nat /\ MaxPuts \in Nat /\ MaxPins \in Nat
  /\ Depth \in Nat

VARIABLES
  head,      \* the revision of a record that is current, 0 if there is none
  pins,      \* the dependencies of a revision
  basis,     \* the revision its author had seen
  analysis,  \* the revision of an analysis that is current, 0 if none
  wrote,     \* what a writer looked at, and will write
  reading,   \* the revision a reader decorates, none or one
  todo,      \* the pins it has left to look at, and their depth
  verdict,   \* what it has found: stale, bounded
  offset,    \* of a reader in its list
  \* History.
  fresh,     \* whether the revision was fresh when the reader loaded it
  said,      \* the last freshness it told, and of which revision
  listed,    \* the records a list has shown
  began      \* the heads when it began, 0 for all before that

base == <<head, pins, basis, analysis>>
read == <<reading, todo, verdict, offset, fresh, said, listed, began>>
vars == <<base, wrote, read>>

Revisions == Ids \X (1..MaxRevision)
Existing == {r \in Revisions : r[2] <= head[r[1]]}
Current(x) == IF x \in Ids THEN head[x] ELSE analysis[x]

(* A pin names a record or an analysis, and one revision of it. *)
Pins == Revisions \cup (Analyses \X (1..MaxAnalysis))

Init ==
  /\ head = [i \in Ids |-> 0] /\ analysis = [a \in Analyses |-> 0]
  /\ pins = [r \in Revisions |-> {}] /\ basis = [r \in Revisions |-> 0]
  /\ wrote = [w \in Writers |-> {}]
  /\ reading = [k \in Readers |-> {}] /\ todo = [k \in Readers |-> {}]
  /\ verdict = [k \in Readers |-> {}] /\ offset = [k \in Readers |-> 0]
  /\ fresh = [k \in Readers |-> FALSE] /\ said = [k \in Readers |-> {}]
  /\ listed = [k \in Readers |-> {}] /\ began = [k \in Readers |-> [i \in Ids |-> 0]]

(* A job publishes: the analysis of its scope is superseded. *)
Publish(a) ==
  /\ analysis[a] < MaxAnalysis
  /\ analysis' = [analysis EXCEPT ![a] = @ + 1]
  /\ UNCHANGED <<head, pins, basis, wrote, read>>

-----------------------------------------------------------------------------
(* Writing. *)

(* resolve: a record is pinned to its head; what a job published is named  *)
(* by an identity of its own, which pins the revision that published it.   *)
Resolvable(x) == IF x \in Ids THEN {head[x]} \ {0} ELSE 1..analysis[x]

(* A writer decides what to write from what it sees: the record's head,    *)
(* and dependencies, each with a pin it may insist on.                     *)
Look(w) ==
  /\ wrote[w] = {} /\ Cardinality(Existing) < MaxPuts
  /\ \E i \in Ids, on \in SUBSET (Ids \cup Analyses) :
       /\ Cardinality(on) <= MaxPins
       /\ \A x \in on : Resolvable(x) # {}
       /\ \E insist \in {{}, on \cap Ids} :
            wrote' = [wrote EXCEPT ![w] =
              {[id |-> i, expected |-> head[i], on |-> on,
                insist |-> {<<x, head[x]>> : x \in insist}]}]
  /\ UNCHANGED <<base, read>>

(* Mutant: the expected revision is not compared. *)
ConflictNever(p) == FALSE

Conflict(p) == p.expected # head[p.id]

Refused(p) ==
  \/ Conflict(p)
  \/ \E pin \in p.insist : pin[2] # head[pin[1]]   \* dependency pin is stale
  \/ p.id \in p.on                                 \* self dependency forbidden

(* The bounds of the model. *)
Full(p) == p.expected = MaxRevision \/ Cardinality(Existing) >= MaxPuts

(* The choices of revisions the dependencies are pinned to. *)
Resolved(p) ==
  {f \in [p.on -> 1..(MaxRevision + MaxAnalysis)] : \A x \in p.on : f[x] \in Resolvable(x)}

(* Mutant: the row replaces one of the same revision. *)
PutReplaces(w) ==
  \E p \in wrote[w] :
    /\ wrote' = [wrote EXCEPT ![w] = {}]
    /\ p.id \notin p.on /\ p.expected < MaxRevision
    /\ head' = [head EXCEPT ![p.id] = p.expected + 1]
    /\ \E f \in Resolved(p) :
         pins' = [pins EXCEPT ![<<p.id, p.expected + 1>>] = {<<x, f[x]>> : x \in p.on}]
    /\ basis' = [basis EXCEPT ![<<p.id, p.expected + 1>>] = p.expected]
    /\ UNCHANGED <<analysis, read>>

(* knowledge_put, or its exception *)
Put(w) ==
  \E p \in wrote[w] :
    /\ wrote' = [wrote EXCEPT ![w] = {}]
    /\ \/ /\ ~Refused(p) /\ ~Full(p)
          /\ LET r == <<p.id, head[p.id] + 1>> IN
               /\ head' = [head EXCEPT ![p.id] = @ + 1]
               /\ \E f \in Resolved(p) :
                    pins' = [pins EXCEPT ![r] = {<<x, f[x]>> : x \in p.on}]
               /\ basis' = [basis EXCEPT ![r] = p.expected]
       \/ /\ Refused(p) \/ Full(p)
          /\ UNCHANGED <<head, pins, basis>>
    /\ UNCHANGED <<analysis, read>>

-----------------------------------------------------------------------------
(* Reading. *)

Closure(S, next) ==
  LET f[n \in 0..MaxPuts] ==
        IF n = 0 THEN S ELSE LET g == f[n - 1] IN g \cup UNION {next[r] : r \in g}
  IN f[MaxPuts]

(* The revisions a set of pins rests on, directly or through others. *)
Upstream(ps) ==
  LET next == [r \in Revisions |-> pins[r] \cap Revisions]
      all == Closure(ps \cap Revisions, next)
  IN ps \cup UNION {pins[r] : r \in all}

(* What freshness means: nothing the revision rests on has moved, and it   *)
(* is the head itself.                                                     *)
Fresh(r) ==
  /\ Current(r[1]) = r[2]
  /\ \A pin \in Upstream(pins[r]) : Current(pin[1]) = pin[2]

(* The rows of a list: a record is in it while its head fits. *)
Shown == {i \in Ids : <<i, head[i]>> \in Fits}

(* show, and the rows of a list: the next record is loaded at its head.    *)
(* The offset counts the rows the list has now, not those it has shown.    *)
Load(k) ==
  /\ reading[k] = {}
  /\ began' = [began EXCEPT ![k] = IF offset[k] = 0 THEN head ELSE @]
  /\ \E i \in Shown :
       /\ Cardinality({j \in Shown : j < i}) = offset[k]
       /\ LET r == <<i, head[i]>> IN
            /\ reading' = [reading EXCEPT ![k] = {r}]
            /\ todo' = [todo EXCEPT ![k] = pins[r] \X {0}]
            /\ fresh' = [fresh EXCEPT ![k] = Fresh(r)]
            /\ listed' = [listed EXCEPT ![k] = @ \cup {i}]
  /\ verdict' = [verdict EXCEPT ![k] = {}]
  /\ offset' = [offset EXCEPT ![k] = @ + 1]
  /\ said' = [said EXCEPT ![k] = {}]
  /\ UNCHANGED <<base, wrote>>

(* Freshness::check looks at one dependency.  A record's own dependencies  *)
(* are those of the pinned revision; beyond Depth they are not looked at.  *)
Check(k) ==
  \E t \in todo[k] :
    LET moved == IF Current(t[1][1]) # t[1][2] THEN {"stale"} ELSE {}
        below == IF t[1] \in Revisions THEN pins[t[1]] ELSE {}
        cut == t[1] \in Revisions /\ t[2] >= Depth
    IN /\ todo' = [todo EXCEPT ![k] = (@ \ {t}) \cup IF cut THEN {} ELSE below \X {t[2] + 1}]
       /\ verdict' = [verdict EXCEPT ![k] = @ \cup moved \cup IF cut THEN {"bounded"} ELSE {}]
       /\ UNCHANGED <<base, wrote, reading, offset, fresh, said, listed, began>>

(* Mutant: a traversal that was cut short counts as complete. *)
ToldAnyway(k, r) == IF verdict[k] # {"bounded"} /\ verdict[k] # {} THEN "stale"
                    ELSE IF head[r[1]] # r[2] THEN "stale" ELSE "current"

Told(k, r) ==
  IF "bounded" \in verdict[k] THEN "unknown"
  ELSE IF verdict[k] # {} \/ head[r[1]] # r[2] THEN "stale" ELSE "current"

(* decorated *)
Tell(k) ==
  /\ todo[k] = {}
  /\ \E r \in reading[k] : said' = [said EXCEPT ![k] = {<<Told(k, r), r>>}]
  /\ reading' = [reading EXCEPT ![k] = {}]
  /\ UNCHANGED <<base, wrote, todo, verdict, offset, fresh, listed, began>>

(* There is no next row. *)
NoMore(k) == offset[k] > 0 /\ offset[k] >= Cardinality(Shown)

(* The list ends, and may be asked for again. *)
ListEnds(k) ==
  /\ NoMore(k) /\ reading[k] = {}
  /\ offset' = [offset EXCEPT ![k] = 0] /\ listed' = [listed EXCEPT ![k] = {}]
  /\ began' = [began EXCEPT ![k] = [i \in Ids |-> 0]] /\ said' = [said EXCEPT ![k] = {}]
  /\ fresh' = [fresh EXCEPT ![k] = FALSE] /\ verdict' = [verdict EXCEPT ![k] = {}]
  /\ UNCHANGED <<base, wrote, reading, todo>>

-----------------------------------------------------------------------------

(* The records whose heads depend on x. *)
Dependents(x) == {i \in Ids : head[i] > 0 /\ \E pin \in pins[<<i, head[i]>>] : pin[1] = x}

(* impact *)
Impact(x) == Closure(Dependents(x), [i \in Ids |-> Dependents(i)])

Next ==
  \/ \E a \in Analyses : Publish(a)
  \/ \E w \in Writers : Look(w) \/ Put(w)
  \/ \E k \in Readers : Load(k) \/ Check(k) \/ Tell(k) \/ ListEnds(k)

Spec == Init /\ [][Next]_vars

-----------------------------------------------------------------------------
(* Properties. *)

(* The variables have their types; a revision that does not exist has no   *)
(* dependencies, and every pin names a revision that exists.               *)
TypeOK ==
  /\ head \in [Ids -> 0..MaxRevision] /\ analysis \in [Analyses -> 0..MaxAnalysis]
  /\ pins \in [Revisions -> SUBSET Pins]
  /\ \A r \in Revisions \ Existing : pins[r] = {}
  /\ \A r \in Existing : \A pin \in pins[r] : pin[2] <= Current(pin[1])
  /\ \A k \in Readers : reading[k] \subseteq Existing

(* A revision was written by an author who had seen the one before it: no  *)
(* author's revision is lost under another's.                              *)
NoLostRevision == \A r \in Existing : basis[r] = r[2] - 1

(* No revision rests on itself, so every traversal of pins ends: records   *)
(* may depend on each other, but only on revisions that were there before. *)
NoCycles == \A r \in Existing : r \notin Upstream(pins[r])

(* A revision that exists keeps its dependencies and their pins. *)
RevisionsStay ==
  [][\A r \in Existing : pins'[r] = pins[r] /\ head'[r[1]] >= r[2]]_vars

(* What a reader is told is current was so when its record was loaded,     *)
(* although the statements of the reading see different moments.           *)
CurrentWasFresh ==
  \A k \in Readers : \A s \in said[k] : s[1] = "current" => fresh[k]

(* What a reader is told is stale is stale for good. *)
StaleIsStale == \A k \in Readers : \A s \in said[k] : s[1] = "stale" => ~Fresh(s[2])

(* The records of a list when it began. *)
There(k) == {i \in Ids : <<i, began[k][i]>> \in Fits}

(* The records a revision has taken out of the list since. *)
LeftSince(k) ==
  {j \in Ids : \E n \in began[k][j]..(head[j] - 1) : <<j, n>> \in Fits /\ <<j, n + 1>> \notin Fits}

(* A list that has come to its end has shown every record that was in it   *)
(* when it began, although others are added while it goes from page to     *)
(* page: unless a revision took that record, or one before it, out of the  *)
(* list meanwhile.  A row that leaves moves the rows after it before the   *)
(* offset, and the list skips one of them; no row leaves a list of all     *)
(* records.  Lists of the history are not modelled.                        *)
ListShowsAll ==
  \A k \in Readers : NoMore(k) =>
    \A i \in There(k) : i \in listed[k] \/ \E j \in LeftSince(k) : j <= i

(* Whatever becomes stale when something changes is in the impact of what  *)
(* has changed, as it was before the change.                               *)
StaleIsImpacted ==
  \A i \in Ids : LET r == <<i, head[i]>> IN
    head[i] > 0 /\ Fresh(r) /\ ~Fresh(r)' =>
      \E x \in Ids \cup Analyses :
        Current(x)' # Current(x) /\ (x = i \/ i \in Impact(x))
=============================================================================
