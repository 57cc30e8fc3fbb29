----------------------------- MODULE DirectedFlow -----------------------------
(***************************************************************************)
(* The path half of directed_flow.cpp: for every pair of a source and a    *)
(* target paths of the control-flow graph are searched breadth first, a    *)
(* call being followed by its own return; those of pairs that matter are   *)
(* candidates, and the solver is asked of one after the other until one is *)
(* feasible.  FlowTaint is the taint half: here what it found is chosen at *)
(* the start (`tainted' targets and edges, and whether it is `complete' or *)
(* was limited).                                                           *)
(*                                                                         *)
(* A graph is a sequence of edges; the code's edge numbers are its         *)
(* positions.  What the solver answers of a path is chosen when it is      *)
(* asked.                                                                  *)
(***************************************************************************)
EXTENDS Naturals, FiniteSets, SequencesExt

CONSTANTS
  Graphs,        \* sequences of edges [src, dst, kind, condition]
  Pairs,         \* sequence of [source, target: nodes, reach: BOOLEAN]
  Modes,         \* subset of {"taint", "taint_symbolic", "symbolic"}
  FunctionDepth, MaxStates, MaxQueries, MaxPaths,
  MayExpire,     \* whether the time limit may pass
  None

VARIABLES
  graph, mode,
  tainted,      \* pairs (positions) whose target's values have a tag
  controlled,   \* edges whose condition has a tag
  late,         \* the time limit has passed
  pc,           \* search, judge, check or done
  pair,         \* the pair whose paths are searched
  queue, found, searched,
  influences, candidates, completion, verdict,
  checked,      \* candidates the solver loop has taken
  answers,      \* what became of each: a ghost
  queries, shown, unknownSeen
vars == <<graph, mode, tainted, controlled, late, pc, pair, queue, found, searched, influences,
          candidates, completion, verdict, checked, answers, queries, shown, unknownSeen>>
given == <<graph, mode, tainted, controlled>>
search == <<queue, found, searched>>
solver == <<checked, answers, queries, shown, unknownSeen>>

Item(n) == [node |-> n, stack |-> <<>>, nodes |-> <<n>>, edges |-> <<>>, current |-> 0, depth |-> 0,
            history |-> {<<0, n>>}]

Init ==
  /\ graph \in Graphs /\ mode \in Modes /\ late = FALSE
  /\ tainted \in SUBSET {i \in DOMAIN Pairs : ~Pairs[i].reach}
  /\ controlled \in SUBSET {i \in DOMAIN graph : graph[i].condition}
  /\ pc = "search" /\ pair = 1
  /\ queue = <<Item(Pairs[1].source)>> /\ found = <<>> /\ searched = 0
  /\ influences = tainted /\ candidates = <<>>
  /\ completion \in {"complete", "limited"} /\ verdict = "unknown"
  /\ checked = 0 /\ answers = <<>> /\ queries = 0 /\ shown = None /\ unknownSeen = FALSE

Expire == MayExpire /\ ~late /\ late' = TRUE
          /\ UNCHANGED <<given, pc, pair, search, influences, candidates, completion, verdict, solver>>

-----------------------------------------------------------------------------
(* find_paths.                                                             *)

Out(n) == {i \in DOMAIN graph : graph[i].src = n}

\* Where the call of a node returns to: the first CALL_RETURN edge.
Continuation(n) ==
  LET back == {i \in Out(n) : graph[i].kind = "call_return"}
  IN IF back = {} THEN None ELSE graph[CHOOSE i \in back : \A j \in back : i <= j].dst

\* A path one edge longer, or none.
Continue(item, i) ==
  LET e == graph[i]
      down == IF e.kind \in {"call", "tailcall"} THEN 1 ELSE 0
      back == e.kind = "return" /\ item.stack # <<>>
      depth == IF back /\ item.current > 0 THEN item.current - 1 ELSE item.current + down
      dst == IF back THEN Last(item.stack) ELSE e.dst
  IN IF item.current + down > FunctionDepth \/ dst = None \/ <<depth, dst>> \in item.history THEN {}
     ELSE {[node |-> dst,
            stack |-> IF e.kind = "call" THEN Append(item.stack, Continuation(e.src))
                      ELSE IF back THEN Front(item.stack) ELSE item.stack,
            nodes |-> Append(item.nodes, dst), edges |-> Append(item.edges, i), current |-> depth,
            depth |-> IF depth > item.depth THEN depth ELSE item.depth,
            history |-> item.history \cup {<<depth, dst>>}]}

PathLimit == IF MaxPaths = 0 THEN MaxStates ELSE MaxPaths
Room == PathLimit - Len(candidates)

SearchCut == late \/ (MaxStates # 0 /\ searched >= MaxStates)

Search ==
  /\ pc = "search" /\ queue # <<>> /\ ~SearchCut /\ Len(found) < Room
  /\ LET item == Head(queue)
         nexts == FoldLeft(LAMBDA s, i : s \o SetToSeq(Continue(item, i)), <<>>,
                           SetToSortSeq(Out(item.node), <))
     IN IF item.node = Pairs[pair].target
        THEN found' = Append(found, item) /\ queue' = Tail(queue)
        ELSE queue' = Tail(queue) \o nexts /\ UNCHANGED found
  /\ searched' = searched + 1
  /\ UNCHANGED <<given, late, pc, pair, influences, candidates, completion, verdict, solver>>

\* The paths of a pair: a condition with a tag makes the target of a reach
\* depend on the source, and the paths of a pair with an influence, or every
\* path of a symbolic query, are candidates while there is room.
Sift ==
  LET controls == /\ Pairs[pair].reach /\ mode # "symbolic"
                  /\ \E f \in Range(found) : \E i \in Range(f.edges) : i \in controlled
      \* Before the first path that controls, a pair without influence has no candidates.
      First == CHOOSE k \in DOMAIN found :
                 /\ \E i \in Range(found[k].edges) : i \in controlled
                 /\ \A j \in 1..(k - 1) : \A i \in Range(found[j].edges) : i \notin controlled
      kept == IF mode = "symbolic" \/ pair \in influences THEN found
              ELSE IF controls THEN SubSeq(found, First, Len(found)) ELSE <<>>
  IN /\ influences' = IF controls THEN influences \cup {pair} ELSE influences
     /\ candidates' = candidates \o [k \in DOMAIN kept |-> [pair |-> pair, path |-> kept[k]]]

SearchDone ==
  /\ pc = "search" /\ (queue = <<>> \/ SearchCut \/ Len(found) >= Room)
  /\ Sift
  /\ completion' = IF queue # <<>> /\ Len(found) < Room /\ ~late /\ completion = "complete"
                   THEN "limited" ELSE completion
  /\ IF pair < Len(Pairs) /\ Len(candidates') < PathLimit
     THEN pair' = pair + 1 /\ pc' = pc /\ queue' = <<Item(Pairs[pair + 1].source)>> /\ found' = <<>> /\ searched' = 0
     ELSE pc' = "judge" /\ UNCHANGED <<pair, search>>
  /\ UNCHANGED <<given, late, verdict, solver>>

-----------------------------------------------------------------------------
(* The verdict.                                                            *)

Empty == IF completion = "complete" THEN "no_flow" ELSE "unknown"

Judge ==
  /\ pc = "judge"
  /\ IF mode = "taint" \/ (mode = "taint_symbolic" /\ influences = {})
     THEN /\ verdict' = IF influences # {} THEN "may_flow" ELSE Empty
          /\ pc' = "done" /\ UNCHANGED completion
     ELSE IF candidates # <<>> THEN pc' = "check" /\ UNCHANGED <<verdict, completion>>
     ELSE /\ pc' = "done"
          /\ IF mode = "taint_symbolic"
             THEN verdict' = "unknown" /\ completion' = "unknown"
             ELSE verdict' = (IF completion = "complete" THEN "infeasible" ELSE "unknown") /\ UNCHANGED completion
  /\ UNCHANGED <<given, late, pair, search, influences, candidates, solver>>

\* run_symbolic on the next candidate: an answer of the solver sets the
\* verdict, a path that could not be asked of leaves the one before.
RunSymbolic(a) ==
  /\ checked' = checked + 1 /\ answers' = Append(answers, a) /\ shown' = checked + 1
  /\ queries' = IF a = "unsupported" THEN queries ELSE queries + 1
  /\ verdict' = CASE a = "sat" -> "feasible_flow" [] a = "unsat" -> "infeasible"
                  [] a = "unsupported" -> verdict [] OTHER -> "unknown"
  /\ completion' = IF a = "timeout" THEN "timeout"
                   ELSE IF a \in {"unsupported", "unknown"} THEN "unknown" ELSE completion

OutOfQueries == MaxQueries # 0 /\ queries >= MaxQueries

Check ==
  /\ pc = "check" /\ checked < Len(candidates) /\ ~late /\ ~OutOfQueries
  /\ \E a \in {"sat", "unsat", "unknown", "timeout", "unsupported"} :
       /\ RunSymbolic(a) /\ pc' = IF a = "sat" THEN "done" ELSE pc
       /\ unknownSeen' = (unknownSeen \/ verdict' = "unknown")
  /\ UNCHANGED <<given, late, pair, search, influences, candidates>>

\* The loop ends without a feasible path, also when time or queries ran out.
CheckDone ==
  /\ pc = "check" /\ (checked = Len(candidates) \/ late \/ OutOfQueries)
  /\ verdict' = IF unknownSeen THEN "unknown" ELSE "infeasible"
  /\ completion' = IF checked < Len(candidates) /\ late THEN "timeout" ELSE completion
  /\ pc' = "done"
  /\ UNCHANGED <<given, late, pair, search, influences, candidates, solver>>

Next == Expire \/ Search \/ SearchDone \/ Judge \/ Check \/ CheckDone

Spec == Init /\ [][Next]_vars

-----------------------------------------------------------------------------
(* What paths there are: configurations with the stack of returns, without *)
(* a memory of where a path has been.                                      *)

Step(c) ==
  UNION {LET e == graph[i]
             down == IF e.kind \in {"call", "tailcall"} THEN 1 ELSE 0
             back == e.kind = "return" /\ c.stack # <<>>
             dst == IF back THEN Last(c.stack) ELSE e.dst
         IN IF c.depth + down > FunctionDepth \/ dst = None THEN {}
            ELSE {[node |-> dst,
                   depth |-> IF back /\ c.depth > 0 THEN c.depth - 1 ELSE c.depth + down,
                   stack |-> IF e.kind = "call" THEN Append(c.stack, Continuation(e.src))
                             ELSE IF back THEN Front(c.stack) ELSE c.stack]}
         : i \in Out(c.node)}

RECURSIVE Reach(_)
Reach(C) == LET D == C \cup UNION {Step(c) : c \in C} IN IF D = C THEN C ELSE Reach(D)

Reaches(p) ==
  \E c \in Reach({[node |-> Pairs[p].source, depth |-> 0, stack |-> <<>>]}) : c.node = Pairs[p].target

\* Whether a path's edges lead along its nodes, each call back to its caller.
RECURSIVE Follows(_, _, _)
Follows(p, k, stack) ==
  \/ k > Len(p.edges)
  \/ LET e == graph[p.edges[k]]
     IN /\ e.src = p.nodes[k]
        /\ IF e.kind = "return" /\ stack # <<>>
           THEN p.nodes[k + 1] = Last(stack) /\ Follows(p, k + 1, Front(stack))
           ELSE /\ p.nodes[k + 1] = e.dst
                /\ Follows(p, k + 1, IF e.kind = "call" THEN Append(stack, Continuation(e.src)) ELSE stack)

-----------------------------------------------------------------------------
(* Properties.                                                             *)

\* Every state is of its kind, and no more paths are kept than allowed.
TypeOK ==
  /\ pc \in {"search", "judge", "check", "done"} /\ pair \in DOMAIN Pairs /\ Len(found) <= PathLimit
  /\ completion \in {"complete", "limited", "timeout", "unknown"}
  /\ verdict \in {"may_flow", "feasible_flow", "infeasible", "no_flow", "unknown"}
  /\ Len(candidates) <= PathLimit /\ checked = Len(answers) /\ checked <= Len(candidates)

\* A path that is shown or asked of is one the program can take: each edge
\* leaves where the one before arrived, and a callee returns to its caller.
PathsAreWalks ==
  \A k \in DOMAIN found :
    /\ Follows(found[k], 1, <<>>) /\ found[k].depth <= FunctionDepth
    /\ Head(found[k].nodes) = Pairs[pair].source /\ Last(found[k].nodes) = Pairs[pair].target

\* Not visiting a node twice at a depth loses paths but never the last one: a
\* search that runs dry without a path has no target within the depth.
GoalIsFound ==
  pc = "search" /\ queue = <<>> /\ found = <<>> => ~Reaches(pair)

\* The path and constraints that are shown with "feasible" are those of the
\* candidate the solver found satisfiable, and not of another one.
FeasibleIsItsPath ==
  pc = "done" /\ verdict = "feasible_flow" => answers[shown] = "sat" /\ shown = checked

\* No more queries are made than allowed.
QueriesBounded == MaxQueries # 0 => queries <= MaxQueries
==============================================================================
