------------------------------ MODULE Research ------------------------------
(***************************************************************************)
(* research_workflow.cpp: the loop of a model that reconstructs an         *)
(* algorithm.  A candidate is a source with inputs to try; a comparison    *)
(* puts receipts of the candidate's runs against receipts of the target's; *)
(* a revision carries the comparison's counterexamples on; a recipe is     *)
(* made of a comparison that agreed.                                       *)
(*                                                                         *)
(* Records are immutable and are named by their place.  A record may be    *)
(* put by an action that is never published.  A receipt is native, with    *)
(* what the programs really print, or made up by the model.                *)
(***************************************************************************)
EXTENDS Integers, FiniteSets, FiniteSetsExt, SequencesExt

CONSTANTS
  Inputs, Sources,
  Seeds,           \* the inputs a candidate's generator may start from
  Program,         \* what each source prints for each input
  Target,          \* what the target prints for each input
  PairLimit,       \* pairs of a comparison
  SuggestLimit,    \* inputs a candidate proposes, altogether
  RetainLimit,     \* counterexamples of a record
  MaxRecords       \* bound of a run: records put

VARIABLES
  records,   \* wb_records, in the order they were put
  recipes,   \* the comparisons recipes were made of
  found      \* per comparison, what its own pairs refuted; not in the code
vars == <<records, recipes, found>>

OfKind(k) == {i \in DOMAIN records : records[i].kind = k}

\* exact_record and native_record: a revision can only be had of a record of
\* the right kind whose action was published.
Exact(i, kind) == i \in OfKind(kind) /\ records[i].committed

Init == records = <<>> /\ recipes = {} /\ found = <<>>

\* Receipts: of a helper's run of a source, and of an experiment's case.
\* What was made up says what it likes.
Helpers ==
  {[native |-> TRUE, published |-> p, source |-> s, input |-> x, repeatable |-> r, out |-> Program[s][x]] :
      p \in BOOLEAN, s \in Sources, x \in Inputs, r \in BOOLEAN}
  \cup {[native |-> FALSE, published |-> FALSE, source |-> s, input |-> x, repeatable |-> TRUE, out |-> Target[x]] :
      s \in Sources, x \in Inputs}
Trials ==
  {[native |-> TRUE, published |-> TRUE, input |-> x, complete |-> c, out |-> Target[x]] : x \in Inputs, c \in BOOLEAN}

\* The publication origin of a native receipt, and that it is one.
Typed(receipt) == receipt.native /\ receipt.published

-----------------------------------------------------------------------------
(* Candidates.                                                             *)

\* What a candidate proposes: the generator's inputs, then what is retained
\* while there is room.
Suggested(generated, retained) ==
  generated \o SubSeq(retained, 1, Max({0, Min({Len(retained), SuggestLimit - Len(generated)})}))

Put(record, refuted) ==
  /\ Len(records) < MaxRecords
  /\ \E c \in BOOLEAN : records' = Append(records, record @@ [committed |-> c])
  /\ found' = Append(found, refuted) /\ UNCHANGED recipes

Retained(previous) == records[previous].counterexamples

Candidate ==
  \E s \in Sources, seed \in Seeds :
    \/ Put([kind |-> "candidate", source |-> s, counterexamples |-> <<>>, suggested |-> <<seed>>, previous |-> 0], {})
    \/ \E p \in DOMAIN records :
         /\ Exact(p, "comparison")
         /\ Put([kind |-> "candidate", source |-> s, counterexamples |-> Retained(p),
                 suggested |-> Suggested(<<seed>>, Retained(p)), previous |-> p], {})

-----------------------------------------------------------------------------
(* Comparisons.                                                            *)

Pairs(source) ==
  {pair \in {h \in Helpers : h.source = source /\ Typed(h)} \X {t \in Trials : Typed(t)} : pair[1].input = pair[2].input}

Row(pair) ==
  LET h == pair[1]
      t == pair[2]
      complete == h.repeatable /\ t.complete
  IN [input |-> t.input, complete |-> complete, agreement |-> complete /\ h.out = t.out]

Status(rows, pending) ==
  IF \E r \in rows : r.complete /\ ~r.agreement THEN "counterexample"
  ELSE IF pending # {} \/ \E r \in rows : ~r.complete THEN "incomplete" ELSE "agreement_on_tested_inputs"

\* One to PairLimit pairs of inputs that differ, of this candidate's source.
\* A comparison that would retain too much throws.
Comparison ==
  \E c \in DOMAIN records, n \in 1..PairLimit :
    /\ Exact(c, "candidate")
    /\ \E pairs \in [1..n -> Pairs(records[c].source)] :
         LET rows == {Row(pairs[i]) : i \in 1..n}
             wrong == {r.input : r \in {q \in rows : q.complete /\ ~q.agreement}}
             tested == {r.input : r \in rows}
             kept == records[c].counterexamples
             pending == ToSet(kept) \ tested
         IN /\ Cardinality(tested) = n
            /\ Len(kept) + Cardinality(wrong) <= RetainLimit
            /\ Put([kind |-> "comparison", candidate |-> c, counterexamples |-> kept \o SetToSeq(wrong),
                    tested |-> tested, pending |-> pending, status |-> Status(rows, pending)], wrong)

\* evaluation_action's recipe, whose source the comparison's candidate has.
MakeRecipe ==
  \E i \in DOMAIN records \ recipes :
    /\ Exact(i, "comparison") /\ records[i].status = "agreement_on_tested_inputs"
    /\ recipes' = recipes \cup {i} /\ UNCHANGED <<records, found>>

Next == Candidate \/ Comparison \/ MakeRecipe
Spec == Init /\ [][Next]_vars

-----------------------------------------------------------------------------

TypeOK ==
  /\ Len(records) <= MaxRecords /\ recipes \subseteq OfKind("comparison") /\ Len(found) = Len(records)
  /\ \A i \in DOMAIN records :
       /\ Len(records[i].counterexamples) <= RetainLimit
       /\ records[i].kind = "candidate" => Len(records[i].suggested) <= SuggestLimit
       /\ records[i].kind = "comparison" => Cardinality(records[i].tested) \in 1..PairLimit

\* The comparisons a comparison or a candidate follows, by way of `previous'.
Before[i \in Nat] ==
  LET up == IF records[i].kind = "comparison" THEN records[records[i].candidate].previous ELSE records[i].previous
  IN IF up = 0 THEN {} ELSE {up} \cup Before[up]

\* What any comparison before it refuted is among a record's counterexamples,
\* and an agreement has replayed all of it.  (reconstruction-services-
\* evaluation.md:34-37: "cannot be silently dropped: an agreement result
\* requires replay of their inputs.  History is immutable; successful revision
\* does not delete earlier counterexamples.")
NothingForgotten ==
  \A i \in DOMAIN records :
    LET known == UNION {found[p] : p \in Before[i]}
    IN /\ known \subseteq ToSet(records[i].counterexamples)
       /\ records[i].kind = "comparison" /\ records[i].status = "agreement_on_tested_inputs" => known \subseteq records[i].tested

\* An agreement, and so a recipe, is of a source that prints what the target
\* prints for every input it lists: no receipt that was made up or whose
\* action was not published stands for a run.
AgreementIsObserved ==
  \A i \in OfKind("comparison") :
    records[i].status = "agreement_on_tested_inputs" =>
      \A x \in records[i].tested : Program[records[records[i].candidate].source][x] = Target[x]

\* A recipe rests on published records only, all the way back.
RecipesArePublished ==
  \A i \in recipes : records[i].committed /\ records[records[i].candidate].committed /\ \A p \in Before[i] : records[p].committed
==============================================================================
