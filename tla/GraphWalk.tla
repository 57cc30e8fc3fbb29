----------------------------- MODULE GraphWalk -----------------------------
(***************************************************************************)
(* knowledge_graph.cpp: a bounded walk through the static index, by the    *)
(* relations of the current revisions and by the locations that backends   *)
(* share, and the packet of claims about what it found.                    *)
(*                                                                         *)
(* Every SELECT is a read of its own: the rows of one node's relations are *)
(* one snapshot, what their endpoints link to is looked up row by row, and *)
(* another process may publish a newer revision of a backend's view in     *)
(* between.  A record counts one byte of the budget.                       *)
(***************************************************************************)
EXTENDS Integers, Sequences, FiniteSets

CONSTANTS
  Entities,      \* sequence (by rowid) of [id, anchor, producer, revision]
  Relations,     \* sequence (by id) of [id, kind, producer, revision, source, target,
                 \*   sourceAnchor, targetAnchor]
  Claims,        \* how many claims an entity's revision makes about it
  Newest,        \* a producer's last revision
  Seeds,         \* filters: [by, value]
  LinkCap,       \* entities looked up for one endpoint: 32
  ClaimCap,      \* claims looked up for one node: 20
  MaxDepth, MaxLimit, MaxBudget,
  None           \* no entity, or no location

VARIABLES
  heads,         \* analysis_heads: the current revision of each producer
  since,         \* those that were current at some time of the walk
  ask,           \* the request
  pc,            \* seed, walk, rows, packet, done
  at,            \* the node whose relations are read, its depth and the rows read
  rows,          \* the rows that are left of that SELECT
  answer         \* nodes, edges, todo, partial, claims, pairs
vars == <<heads, since, ask, pc, at, rows, answer>>

SetOf(s) == {s[i] : i \in DOMAIN s}
Firstly(s, n) == SubSeq(s, 1, IF Len(s) < n THEN Len(s) ELSE n)
Current(r) == heads[r.producer] = r.revision

\* index_query: an entity asked for by its id is found though it is superseded,
\* by anything else only in a current revision.
Matching(f) ==
  SelectSeq(Entities, LAMBDA e :
    IF f.by = "id" THEN e.id = f.value
    ELSE Current(e) /\ (f.by = "anchor" => e.anchor = f.value))
Queried(f, cap) == [records |-> Firstly(Matching(f), cap), more |-> Len(Matching(f)) > cap]

Used(a) == Len(a.nodes) + Len(a.edges) + a.claims + a.pairs

\* A node enters the answer once.
Node(a, e, d) ==
  IF e \in SetOf(a.nodes) THEN a
  ELSE IF Len(a.nodes) >= ask.limit \/ Used(a) + 1 > ask.budget THEN [a EXCEPT !.partial = TRUE]
  ELSE [a EXCEPT !.nodes = Append(@, e), !.todo = Append(@, [node |-> e, depth |-> d])]

NodesOf(a, es, d) ==
  LET f[i \in 0..Len(es)] == IF i = 0 THEN a ELSE Node(f[i - 1], es[i], d) IN f[Len(es)]

Empty == [nodes |-> <<>>, edges |-> <<>>, todo |-> <<>>, partial |-> FALSE,
          claims |-> 0, pairs |-> 0]
Init ==
  /\ heads = [p \in DOMAIN Newest |-> 1]
  /\ since = {[producer |-> p, revision |-> 1] : p \in DOMAIN Newest}
  /\ ask \in [seed : Seeds, direction : {"both", "in", "out"}, depth : 0..MaxDepth,
              limit : 1..MaxLimit, budget : 1..MaxBudget,
              kinds : {{}, {"call"}}, packet : BOOLEAN]
  /\ pc = "seed" /\ at = None /\ rows = <<>> /\ answer = Empty

Seed ==
  /\ pc = "seed" /\ pc' = "walk"
  /\ LET q == Queried(ask.seed, ask.limit)
     IN answer' = NodesOf([Empty EXCEPT !.partial = q.more], q.records, 0)
  /\ UNCHANGED <<heads, since, ask, at, rows>>

\* A relation touches a node by its id or by its location.
Touches(t, e) ==
  \/ ask.direction # "in" /\ (t.source = e.id \/ t.sourceAnchor \in {e.anchor} \ {None})
  \/ ask.direction # "out" /\ (t.target = e.id \/ t.targetAnchor \in {e.anchor} \ {None})

RelationsOf(e) == SelectSeq(Relations, LAMBDA t : Current(t) /\ Touches(t, e))

\* The next node in the queue; its relations are one SELECT.
Pop ==
  /\ pc = "walk" /\ answer.todo # <<>>
  /\ LET next == Head(answer.todo) IN
     /\ answer' = [answer EXCEPT !.todo = Tail(@)]
     /\ IF next.depth >= ask.depth THEN UNCHANGED <<pc, at, rows>>
        ELSE /\ pc' = "rows" /\ at' = [node |-> next.node, depth |-> next.depth, read |-> 0]
             /\ rows' = RelationsOf(next.node)
  /\ UNCHANGED <<heads, since, ask>>

Followed == IF ask.direction = "both" THEN <<"source", "target">>
            ELSE IF ask.direction = "out" THEN <<"target">> ELSE <<"source">>
\* How an endpoint is looked up: by location when there is one, else by id.
Filter(t, side) ==
  LET anchor == IF side = "source" THEN t.sourceAnchor ELSE t.targetAnchor
      id == IF side = "source" THEN t.source ELSE t.target
  IN IF anchor # None THEN {[by |-> "anchor", value |-> anchor]}
     ELSE IF id # None THEN {[by |-> "id", value |-> id]} ELSE {}
Cap == IF ask.limit < LinkCap THEN ask.limit ELSE LinkCap

Link(a, t) ==
  LET f[i \in 0..Len(Followed)] ==
        IF i = 0 THEN a
        ELSE IF Filter(t, Followed[i]) = {} THEN f[i - 1]
        ELSE LET q == Queried(CHOOSE x \in Filter(t, Followed[i]) : TRUE, Cap)
             IN NodesOf([f[i - 1] EXCEPT !.partial = @ \/ q.more], q.records, at.depth + 1)
  IN f[Len(Followed)]

\* One row: a relation enters the answer once, and what it leads to is looked
\* up.  No more than ask.limit rows are read of one SELECT.
Row ==
  /\ pc = "rows" /\ rows # <<>>
  /\ LET t == Head(rows)
         drop == ask.kinds # {} /\ t.kind \notin ask.kinds
         full == Len(answer.edges) >= ask.limit \/ Used(answer) + 1 > ask.budget
     IN IF at.read >= ask.limit \/ (~drop /\ t \notin SetOf(answer.edges) /\ full)
        THEN rows' = <<>> /\ at' = at /\ answer' = [answer EXCEPT !.partial = TRUE]
        ELSE /\ rows' = Tail(rows) /\ at' = [at EXCEPT !.read = @ + 1]
             /\ answer' = IF drop \/ t \in SetOf(answer.edges) THEN answer
                          ELSE Link([answer EXCEPT !.edges = Append(@, t)], t)
  /\ UNCHANGED <<heads, since, ask, pc>>

RowsEnd ==
  /\ pc = "rows" /\ rows = <<>> /\ pc' = "walk" /\ at' = None
  /\ UNCHANGED <<heads, since, ask, rows, answer>>

WalkEnds ==
  /\ pc = "walk" /\ answer.todo = <<>> /\ pc' = "packet"
  /\ UNCHANGED <<heads, since, ask, at, rows, answer>>

ClaimsOf(e) == IF Current(e) THEN Claims[e.id] ELSE 0
\* Two producers that disagree at a location.
PairsAt(l) ==
  Cardinality({<<x, y>> \in SetOf(Entities) \X SetOf(Entities) :
                 /\ Current(x) /\ Current(y) /\ x.anchor = l /\ y.anchor = l
                 /\ x.producer < y.producer})

\* As many of n records as there is room for.
Taken(a, n) == IF Used(a) + n > ask.budget THEN ask.budget - Used(a) ELSE n

\* The claims about each node, and what producers say differently at its location.
Packed ==
  LET locations(i) == {answer.nodes[j].anchor : j \in 1..i} \ {None}
      f[i \in 0..Len(answer.nodes)] ==
        IF i = 0 THEN answer
        ELSE LET a == f[i - 1]
                 n == answer.nodes[i]
                 wanted == IF ClaimsOf(n) < ClaimCap THEN ClaimsOf(n) ELSE ClaimCap
                 b == [a EXCEPT !.claims = @ + Taken(a, wanted),
                                !.partial = @ \/ ClaimsOf(n) > ClaimCap \/ Taken(a, wanted) < wanted]
                 pairs == IF n.anchor \in {None} \cup locations(i - 1) THEN 0
                          ELSE PairsAt(n.anchor)
             IN [b EXCEPT !.pairs = @ + Taken(b, pairs), !.partial = @ \/ Taken(b, pairs) < pairs]
  IN f[Len(answer.nodes)]

\* The envelope around the records may not fit: records are cut off at the end.
Trimmed(a) ==
  IF a.pairs > 0 THEN [a EXCEPT !.pairs = @ - 1, !.partial = TRUE]
  ELSE IF a.claims > 0 THEN [a EXCEPT !.claims = @ - 1, !.partial = TRUE]
  ELSE IF a.edges # <<>> THEN [a EXCEPT !.edges = SubSeq(@, 1, Len(@) - 1), !.partial = TRUE]
  ELSE [a EXCEPT !.nodes = SubSeq(@, 1, Len(@) - 1), !.partial = TRUE]

Finish(envelope) ==
  /\ pc = "packet" /\ pc' = "done"
  /\ LET a == IF ask.packet THEN Packed ELSE answer
     IN answer' = IF Used(a) + envelope > ask.budget /\ Used(a) > 0 THEN Trimmed(a) ELSE a
  /\ UNCHANGED <<heads, since, ask, at, rows>>

\* Another process publishes a newer revision of a producer's view.
Publish(p) ==
  /\ heads[p] < Newest[p] /\ pc # "done"
  /\ heads' = [heads EXCEPT ![p] = @ + 1]
  /\ since' = since \cup {[producer |-> p, revision |-> heads[p] + 1]}
  /\ UNCHANGED <<ask, pc, at, rows, answer>>

Walk == Seed \/ Pop \/ Row \/ RowsEnd \/ WalkEnds \/ \E envelope \in 0..1 : Finish(envelope)
Next == Walk \/ \E p \in DOMAIN Newest : Publish(p)

Spec == Init /\ [][Next]_vars

(***************************************************************************)
(* Properties                                                              *)
(***************************************************************************)
\* The walk's state and its answer have their types (graph).
TypeOK ==
  /\ \A p \in DOMAIN Newest : heads[p] \in 1..Newest[p]
  /\ pc \in {"seed", "walk", "rows", "packet", "done"}
  /\ SetOf(answer.nodes) \subseteq SetOf(Entities)
  /\ SetOf(answer.edges) \cup SetOf(rows) \subseteq SetOf(Relations)
  /\ answer.partial \in BOOLEAN /\ answer.claims \in Nat /\ answer.pairs \in Nat

\* What there is to find: entities reached in at most ask.depth steps.
Leads(e) ==
  UNION {SetOf(Matching(f)) :
           f \in UNION {Filter(t, side) : t \in {t \in SetOf(RelationsOf(e)) :
                                             ask.kinds = {} \/ t.kind \in ask.kinds},
                                          side \in SetOf(Followed)}}
Within[d \in 0..MaxDepth] ==
  IF d = 0 THEN SetOf(Matching(ask.seed))
  ELSE Within[d - 1] \cup UNION {Leads(e) : e \in Within[d - 1]}
Around ==
  {t \in SetOf(Relations) :
     /\ Current(t) /\ (ask.kinds = {} \/ t.kind \in ask.kinds)
     /\ ask.depth > 0 /\ \E e \in Within[ask.depth - 1] : Touches(t, e)}

\* An answer that is not partial has everything (docs/knowledge-workbench.md:
\* frontier and byte limits set partial), when nothing is published meanwhile.
CompleteUnlessPartial ==
  pc = "done" /\ ~answer.partial =>
    /\ SetOf(answer.nodes) = Within[ask.depth]
    /\ SetOf(answer.edges) = Around
    /\ ask.packet => \A e \in Within[ask.depth] : ClaimsOf(e) <= answer.claims

\* The caller's bounds hold however often a node or a relation is met.
BoundsHold ==
  /\ Len(answer.nodes) <= ask.limit /\ Len(answer.edges) <= ask.limit
  /\ Used(answer) <= ask.budget
  /\ Cardinality(SetOf(answer.nodes)) = Len(answer.nodes)
  /\ Cardinality(SetOf(answer.edges)) = Len(answer.edges)

\* Nothing superseded before the walk is met on it, though an endpoint is looked
\* up by an id that has no revision: only the seed itself may be old.
NothingOlder ==
  \A i \in DOMAIN answer.nodes :
    LET e == answer.nodes[i] IN
    \/ [producer |-> e.producer, revision |-> e.revision] \in since
    \/ ask.seed = [by |-> "id", value |-> e.id]
=============================================================================
