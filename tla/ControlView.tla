---------------------------- MODULE ControlView ----------------------------
(***************************************************************************)
(* The control regions and transfers that ControlRecovery shows for one    *)
(* function (components/airece/src/semantic/control_view.cpp): loops,      *)
(* conditionals and switches, runs of single blocks, and one transfer for  *)
(* every edge.                                                             *)
(*                                                                         *)
(* The function is a graph of N blocks, entered at block 1; what xair says *)
(* of that graph (reverse postorder, dominators, loops, postdominators) is *)
(* computed here from the graph, once for either order in which a search   *)
(* may take the edges.                                                     *)
(***************************************************************************)
EXTENDS Integers, Sequences, FiniteSets

CONSTANTS
  N,             \* blocks of the function, by address
  Shapes,        \* Shapes[n]: the terminators block n may have
  MaxRegions,    \* ControlOptions::max_regions
  MaxTransfers,  \* ControlOptions::max_transfers
  None

ControlAssumption ==
  /\ N \in Nat \ {0}
  /\ {MaxRegions, MaxTransfers} \subseteq Nat \ {0}

Nodes == 1..N
Entry == 1

VARIABLES
  term,       \* term[n]: [k, to], how block n ends and where it goes
  order,      \* ControlView::block_order
  stage,
  regions,
  covered,    \* blocks that a region covers
  transfers,
  omitted     \* how many regions and transfers did not fit

vars == <<term, order, stage, regions, covered, transfers, omitted>>

-----------------------------------------------------------------------------
(* The graph *)

Seqs(s) == {s[i] : i \in DOMAIN s}
Succ(n) == Seqs(term[n].to)
Preds(n) == {m \in Nodes : n \in Succ(m)}

\* Every block reached from S without entering avoid.
RECURSIVE Closure(_, _)
Closure(S, avoid) ==
  LET more == S \cup (UNION {Succ(n) : n \in S} \ avoid) IN
  IF more = S THEN S ELSE Closure(more, avoid)
From(n, avoid) == IF n \in avoid THEN {} ELSE Closure({n}, avoid)

Reached == From(Entry, {})
Dominates(d, n) == n \in Reached /\ n \notin From(Entry, {d})
Returns == {n \in Nodes : term[n].k = "return"}
Ends(n) == From(n, {}) \cap Returns # {}
Postdominators(n) ==
  IF ~Ends(n) THEN {}
  ELSE {d \in Nodes \ {n} : From(n, {d}) \cap Returns = {}}
\* The nearest of them; the others postdominate it.
ImmediatePostdominator(n) ==
  LET near == {d \in Postdominators(n) : Postdominators(n) \ {d} \subseteq Postdominators(d)}
  IN  IF near = {} THEN None ELSE CHOOSE d \in near : TRUE

BackEdges == {e \in Reached \X Reached : e[2] \in Succ(e[1]) /\ Dominates(e[2], e[1])}
Headers == {e[2] : e \in BackEdges}
\* A natural loop: the header, and what reaches one of its latches without it.
Members(h) ==
  {h} \cup {n \in Reached : \E e \in BackEdges : e[2] = h /\ e[1] \in From(n, {h})}
\* A cycle that no back edge closes.
Irreducible ==
  LET forward(n) == {m \in Succ(n) : <<n, m>> \notin BackEdges}
      RECURSIVE peel(_)
      peel(S) == LET rest == {n \in S : forward(n) \cap S # {}} IN
                 IF rest = S THEN S ELSE peel(rest)
  IN  peel(Reached) # {}

\* Depth first from the entry, the edges of a block first to last or last to first.
Postorder(t, flip) ==
  LET RECURSIVE visit(_, _)
      visit(n, acc) ==
        LET to == t[n].to
            RECURSIVE each(_, _)
            each(i, a) ==
              IF i > Len(to) THEN a
              ELSE LET m == IF flip THEN to[Len(to) + 1 - i] ELSE to[i] IN
                   each(i + 1, IF m \in a.seen THEN a ELSE visit(m, a))
            done == each(1, [acc EXCEPT !.seen = @ \cup {n}])
        IN  [done EXCEPT !.out = Append(@, n)]
  IN  visit(Entry, [seen |-> {}, out |-> <<>>]).out

Reversed(s) == [i \in DOMAIN s |-> s[Len(s) + 1 - i]]
Ascending(S) ==
  LET RECURSIVE sorted(_)
      sorted(T) == IF T = {} THEN <<>>
                   ELSE LET m == CHOOSE x \in T : \A y \in T : x <= y
                        IN  <<m>> \o sorted(T \ {m})
  IN  sorted(S)

\* Blocks that the search does not reach follow by address.
BlockOrder(t, flip) ==
  LET rpo == Reversed(Postorder(t, flip)) IN rpo \o Ascending(Nodes \ Seqs(rpo))

-----------------------------------------------------------------------------
Conditional(n) == term[n].k = "branch"
Switches(n) == term[n].k = "switch"
Terminal(n) == term[n].k = "return"

\* An edge is a block and which of its ways out it is.
EdgesOf(n) == [i \in DOMAIN term[n].to |-> <<n, i>>]
Target(e) == term[e[1]].to[e[2]]
AllEdges ==
  LET RECURSIVE upto(_)
      upto(n) == IF n = 0 THEN <<>> ELSE upto(n - 1) \o EdgesOf(n)
  IN  upto(N)

Init ==
  /\ term \in {t \in [Nodes -> UNION {Shapes[n] : n \in Nodes}] :
                 \A n \in Nodes : t[n] \in Shapes[n]}
  /\ \E flip \in BOOLEAN : order = BlockOrder(term, flip)
  /\ stage = "loops"
  /\ regions = <<>> /\ covered = {} /\ transfers = <<>>
  /\ omitted = [regions |-> 0, transfers |-> 0]

\* add_region, for each of a sequence of regions.
Added(new) ==
  LET room == MaxRegions - Len(regions)
      n == IF Len(new) <= room THEN Len(new) ELSE room
  IN  /\ regions' = regions \o SubSeq(new, 1, n)
      /\ omitted' = [omitted EXCEPT !.regions = @ + Len(new) - n]

Region(kind, header, condition, join, nodes) ==
  [kind |-> kind, header |-> header, condition |-> condition, join |-> join, nodes |-> nodes]

\* A conditional exit of the header sets the condition and the join; a
\* conditional latch then replaces the condition, and the join when it leaves
\* the loop.  The latches are taken in ascending order.
Loop(h) ==
  LET members == Members(h)
      leaving(n) == {i \in DOMAIN term[n].to : term[n].to[i] \notin members}
      last(n) == LET i == CHOOSE i \in leaving(n) : \A j \in leaving(n) : j <= i IN term[n].to[i]
      exits == Conditional(h) /\ leaving(h) # {}
      latches == SelectSeq(Ascending({e[1] : e \in {b \in BackEdges : b[2] = h}} \ {h}),
                           LAMBDA n : Conditional(n))
      RECURSIVE joined(_, _)
      joined(i, j) ==
        IF i > Len(latches) THEN j
        ELSE joined(i + 1, IF leaving(latches[i]) = {} THEN j ELSE last(latches[i]))
  IN  Region(IF exits \/ latches = <<>> THEN "while" ELSE "do-while", h,
             IF latches # <<>> THEN latches[Len(latches)] ELSE IF exits THEN h ELSE None,
             joined(1, IF exits THEN last(h) ELSE None), members)

BuildLoops ==
  /\ stage = "loops"
  /\ LET headers == Ascending(Headers) IN
     /\ Added([i \in DOMAIN headers |-> Loop(headers[i])])
     /\ covered' = UNION {Members(h) : h \in Headers}
  /\ stage' = "branches"
  /\ UNCHANGED <<term, order, transfers>>

\* What a block that branches or switches is the header of.
Branching(n) ==
  \/ Switches(n)
  \/ Conditional(n) /\ term[n].to[1] # term[n].to[2] /\ n \notin Headers

Branch(n) ==
  IF Switches(n) THEN Region("switch", n, n, ImmediatePostdominator(n), {n})
  ELSE IF Terminal(term[n].to[1]) # Terminal(term[n].to[2])
       THEN Region("early-return", n, n, None, {n})
       ELSE LET join == ImmediatePostdominator(n)
            IN  Region(IF join # None THEN "if-else" ELSE "terminal-if", n, n, join, {n})

BuildBranches ==
  /\ stage = "branches"
  /\ LET heads == SelectSeq(order, Branching) IN
     /\ Added([i \in DOMAIN heads |-> Branch(heads[i])])
     /\ covered' = covered \cup Seqs(heads)
  /\ stage' = "sequences"
  /\ UNCHANGED <<term, order, transfers>>

\* A block that can only go on to the next block of the order, which can only
\* be come to from it.
Flows(i, cov) ==
  LET n == order[i]  m == order[i + 1] IN
  /\ Len(term[n].to) = 1 /\ term[n].to[1] = m
  /\ Preds(m) = {n}
  /\ <<n, m>> \notin BackEdges
  /\ n \notin cov

\* The longest run that starts at each position, leaving out those already run
\* over.  The blocks of a run are covered once it is done.
Runs ==
  LET RECURSIVE runEnd(_, _), from(_, _, _)
      runEnd(i, cov) == IF i < Len(order) /\ Flows(i, cov) THEN runEnd(i + 1, cov) ELSE i
      from(i, cov, out) ==
        IF i > Len(order) THEN out
        ELSE LET end == runEnd(i, cov)
                 nodes == Seqs(SubSeq(order, i, end))
             IN  IF end = i THEN from(i + 1, cov, out)
                 ELSE from(end + 1, cov \cup nodes,
                           Append(out, Region("sequence", order[i], None, None, nodes)))
  IN  from(1, covered, <<>>)

BuildSequences ==
  /\ stage = "sequences"
  /\ Added(Runs)
  /\ covered' = covered \cup UNION {Runs[i].nodes : i \in DOMAIN Runs}
  /\ stage' = "rest"
  /\ UNCHANGED <<term, order, transfers>>

Single(n) == Region("sequence", n, None, None, {n})
Rest ==
  LET left == SelectSeq(order, LAMBDA n : n \notin covered) IN
  (IF Irreducible THEN <<Region("irreducible", Entry, None, None, Nodes)>> ELSE <<>>)
    \o [i \in DOMAIN left |-> Single(left[i])]

BuildRest ==
  /\ stage = "rest"
  /\ Added(Rest)
  /\ stage' = "transfers"
  /\ UNCHANGED <<term, order, covered, transfers>>

\* What an edge is shown as.
Transfer(e) ==
  LET n == e[1]  m == Target(e) IN
  [edge |-> e, from |-> n, to |-> m,
   kind |-> CASE <<n, m>> \in BackEdges -> "continue"
              [] \E h \in Headers : n \in Members(h) /\ m \notin Members(h) -> "break"
              [] Conditional(n) -> IF e[2] = 1 THEN "true" ELSE "false"
              [] Switches(n) -> "case"
              [] OTHER -> "fallthrough"]

Fit(edges) == IF Len(edges) <= MaxTransfers THEN Len(edges) ELSE MaxTransfers

NotFit(edges) == Len(edges) - Fit(edges)

BuildTransfers ==
  /\ stage = "transfers"
  /\ transfers' = [i \in 1..Fit(AllEdges) |-> Transfer(AllEdges[i])]
  /\ omitted' = [omitted EXCEPT !.transfers = @ + NotFit(AllEdges)]
  /\ stage' = "done"
  /\ UNCHANGED <<term, order, regions, covered>>

Next == BuildLoops \/ BuildBranches \/ BuildSequences \/ BuildRest \/ BuildTransfers
Spec == Init /\ [][Next]_vars

-----------------------------------------------------------------------------
(* Properties *)

Built == stage = "done"

\* The regions that could not be shown leave blocks in none of the shown ones.
\* README.md:91 of the semantic layer, "Unreachable function nodes are appended
\* deterministically instead of being dropped": every block is in the order,
\* and in a region unless some region is counted as omitted.
EveryBlockShown ==
  Built => /\ Seqs(order) = Nodes /\ Len(order) = N
           /\ omitted.regions = 0 =>
                UNION {regions[i].nodes : i \in DOMAIN regions} = Nodes

\* README.md:87, "Every function CFG edge ... receives a ControlTransfer":
\* one each, or it is counted as omitted.
EveryEdgeShown ==
  Built =>
    /\ Cardinality({transfers[i].edge : i \in DOMAIN transfers}) = Len(transfers)
    /\ Len(transfers) + omitted.transfers = Len(AllEdges)
=============================================================================
