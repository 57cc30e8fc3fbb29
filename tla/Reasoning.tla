----------------------------- MODULE Reasoning -----------------------------
(***************************************************************************)
(* harness_reasoning.hpp, harness_verification.hpp and the finish, audit   *)
(* and certify of harness.cpp: how an answer is proved.  The owner keeps a *)
(* ledger of hypotheses, candidates, planned experiments, recoveries and   *)
(* proofs; an operator runs the program with exact inputs; a proof takes   *)
(* what a run observed or a recovery rebuilt, a solution selects a proof,  *)
(* and the report answers a question by a proof of the kind it asks for.   *)
(*                                                                         *)
(* While that goes on an analysis is superseded by a newer one and the     *)
(* bytes of a source may be damaged.  Texts, hex and outputs are Answers.  *)
(***************************************************************************)
EXTENDS Integers, Sequences, FiniteSets

CONSTANTS
  Facts,       \* the required facts
  Asked,       \* the proof_requirements an investigation may have, functions of Facts
  Answers,     \* texts: candidates' bytes, inputs, outputs, answers
  Sources,     \* evidence ids
  Recovered,   \* the answer that a source's decoder chain yields, or None
  Exact,       \* the sources whose native flow verify_transformation can prove
  Partial,     \* the sources whose analysis is not complete
  Graded,      \* the answers the evaluator accepts, of each fact
  Legacy,      \* TRUE: a ledger with a transformation proof of an older checker
  Bindable,    \* the roles of obligations that the owner binds
  MaxRevision, MaxRuns, MaxRecords,  \* bounds; the code has 16 records of a kind
  None

VARIABLES
  required,    \* the kind of proof each fact asks for, or "claim"
  prints,      \* what the program answers to an input
  runs,        \* the observations of the granted sessions
  source,      \* of each source: current, superseded or damaged
  hyps, cands, exps, recs, proofs, sols, obligations, revision,   \* the ledger
  met, solved, \* its requirements_verified and verified_solve
  verifications,                                                  \* harness_certify
  report, audit                                                   \* the final report, the last audit of it
ledger == <<hyps, cands, exps, recs, proofs, sols, obligations, revision, met, solved>>
world == <<prints, runs, source>>
vars == <<required, world, ledger, verifications, report, audit>>

ProofKinds == {"recovered_candidate", "verified_transformation", "observed_output", "accepted_input", "independently_graded"}
Roles == {"input", "acceptance", "output", "candidate_validation", "challenge_solve"}
Images(s) == {s[i] : i \in DOMAIN s}

NewProof(kind, f, answer, of, pins) ==
  [kind |-> kind, fact |-> f, answer |-> answer, of |-> of, pins |-> pins, version |-> 2]

Init ==
  /\ required \in Asked /\ prints \in [Answers -> Answers]
  /\ runs = <<>> /\ source = [s \in Sources |-> "current"]
  /\ hyps = <<>> /\ cands = <<>> /\ exps = <<>> /\ recs = <<>> /\ sols = <<>>
  /\ IF ~Legacy THEN proofs = <<>>
     ELSE \E f \in Facts, s \in Sources, a \in Answers :
            proofs = <<[NewProof("verified_transformation", f, a, 0, {s}) EXCEPT !.version = 1]>>
  /\ obligations = [f \in Facts |-> [r \in Roles |-> "unresolved"]]
  /\ revision = 0 /\ met = FALSE /\ solved = FALSE
  /\ verifications = {} /\ report = None /\ audit = None

-----------------------------------------------------------------------------
(* The world.                                                              *)

Supersede ==
  /\ \E s \in Sources : source[s] = "current" /\ source' = [source EXCEPT ![s] = "superseded"]
  /\ UNCHANGED <<required, prints, runs, ledger, verifications, report, audit>>

Damage ==
  /\ \E s \in Sources : source[s] # "damaged" /\ source' = [source EXCEPT ![s] = "damaged"]
  /\ UNCHANGED <<required, prints, runs, ledger, verifications, report, audit>>

Matches(complete, output, oracle) == complete /\ output = oracle.stdout

\* The program accepts an input that answers as the oracle says while a
\* different input, run to its end, does not.
Accepted(complete, input, oracle, controlComplete) ==
  /\ Matches(complete, prints[input], oracle)
  /\ controlComplete /\ ~Matches(controlComplete, prints[oracle.negative], oracle)

\* io-run: one run, and one of the control if there is an oracle.  A run that
\* timed out, was cut short or whose files changed is not complete.
IoRun ==
  /\ report = None /\ Len(runs) < MaxRuns
  /\ \E input \in Answers, complete, controlComplete, primary \in BOOLEAN :
       \/ runs' = Append(runs, [input |-> input, output |-> prints[input], complete |-> complete, primary |-> primary,
                                accepted |-> FALSE, fact |-> None, control |-> None])
       \/ \E o \in [fact : Facts, stdout : Answers, negative : Answers \ {input}] :
            runs' = Append(runs, [input |-> input, output |-> prints[input], complete |-> complete, primary |-> primary,
                                  accepted |-> Accepted(complete, input, o, controlComplete), fact |-> o.fact,
                                  control |-> [complete |-> controlComplete, input |-> o.negative]])
  /\ UNCHANGED <<required, prints, source, ledger, verifications, report, audit>>

-----------------------------------------------------------------------------
(* verified_requirements.                                                  *)

SelectedBy(p, solutions, i) == \E n \in DOMAIN solutions : solutions[n].proof = i /\ solutions[n].answer = p.answer

\* Mutant: a kind of proof that shows more than what is asked will do.
MatchingRanked(ps, ss, vs, f) ==
  {ps[i] : i \in {i \in DOMAIN ps : /\ ps[i].fact = f /\ SelectedBy(ps[i], ss, i)
                                    /\ ps[i].kind \in {required[f], "verified_transformation"}}}
    \cup {v \in vs : v.fact = f /\ v.kind = required[f]}

\* The proofs of exactly the required kind that a solution selects, and the
\* certificates.
Matching(ps, ss, vs, f) ==
  {ps[i] : i \in {i \in DOMAIN ps : ps[i].fact = f /\ ps[i].kind = required[f] /\ SelectedBy(ps[i], ss, i)}}
    \cup {v \in vs : v.fact = f /\ v.kind = required[f]}

\* It throws if two of them disagree.
Coherent(ps, ss, vs) == \A f \in Facts : \A p, q \in Matching(ps, ss, vs, f) : p.answer = q.answer

AllMatched(ps, ss, vs) == \A f \in Facts : Matching(ps, ss, vs, f) # {}

Solved(ps, ss, vs) == AllMatched(ps, ss, vs) /\ \E f \in Facts : required[f] = "independently_graded"

-----------------------------------------------------------------------------
(* reasoning_update: one operation on the ledger.                          *)

\* The update fails as a whole when the selected proofs disagree.
Update ==
  /\ report = None /\ revision < MaxRevision /\ revision' = revision + 1
  /\ Coherent(proofs', sols', verifications)
  /\ met' = AllMatched(proofs', sols', verifications)
  /\ solved' = Solved(proofs', sols', verifications)
  /\ UNCHANGED <<required, world, verifications, report, audit>>

Room(collection) == Len(collection) < MaxRecords
Readable(s) == source[s] # "damaged"

Bind ==
  /\ \E f \in Facts, r \in Bindable : obligations' = [obligations EXCEPT ![f][r] = "located_unproven"]
  /\ UNCHANGED <<hyps, cands, exps, recs, proofs, sols>> /\ Update

Hypothesize ==
  /\ Room(hyps) /\ \E f \in Facts : hyps' = Append(hyps, [fact |-> f, text |-> 0, state |-> "untested"])
  /\ UNCHANGED <<cands, exps, recs, proofs, sols, obligations>> /\ Update

ReviseHypothesis ==
  /\ \E h \in DOMAIN hyps, t \in {0, 1} : hyps' = [hyps EXCEPT ![h].text = t, ![h].state = "untested"]
  /\ UNCHANGED <<cands, exps, recs, proofs, sols, obligations>> /\ Update

CheckHypothesis ==
  /\ \E h \in DOMAIN hyps, s \in {"finite_check_passed", "finite_check_contradicted"} : hyps' = [hyps EXCEPT ![h].state = s]
  /\ UNCHANGED <<cands, exps, recs, proofs, sols, obligations>> /\ Update

\* candidate, and derive from a source: exact bytes that nothing has validated.
AddCandidate ==
  /\ Room(cands)
  /\ \E f \in Facts, a \in Answers : cands' = Append(cands, [fact |-> f, bytes |-> a, state |-> "unvalidated"])
  /\ UNCHANGED <<hyps, exps, recs, proofs, sols, obligations>> /\ Update

\* validate_candidate and validate_transform_candidate.
ValidateCandidate ==
  /\ \E c \in DOMAIN cands, s \in {"matched", "contradicted"} : cands' = [cands EXCEPT ![c].state = s]
  /\ UNCHANGED <<hyps, exps, recs, proofs, sols, obligations>> /\ Update

\* experiment: the plan keeps the hypothesis and the candidate as they are now.
PlanExperiment ==
  /\ Room(exps)
  /\ \E h \in DOMAIN hyps, c \in DOMAIN cands, k \in {"observed_output", "accepted_input", "none"}, e \in Answers, s \in Sources :
       /\ k # "none" => hyps[h].fact = cands[c].fact
       /\ Readable(s)
       /\ exps' = Append(exps, [hyp |-> h, cand |-> c, hypWas |-> hyps[h], candWas |-> cands[c], kind |-> k,
                                expected |-> IF k = "accepted_input" THEN None ELSE e, pin |-> s,
                                receipt |-> None, state |-> "awaiting"])
  /\ UNCHANGED <<hyps, cands, recs, proofs, sols, obligations>> /\ Update

\* What ties a run to a planned proof.
Bound(e, r) ==
  /\ e.kind # "none" => r.primary /\ r.complete
  /\ e.kind = "accepted_input" => /\ r.fact = hyps[e.hyp].fact /\ r.control # None
                                  /\ r.input = cands[e.cand].bytes

AsPlanned(e) == e.hypWas = hyps[e.hyp] /\ e.candWas = cands[e.cand]

Feedback ==
  /\ \E i \in DOMAIN exps, n \in DOMAIN runs :
       LET e == exps[i]  r == runs[n]
           agrees == IF e.kind = "accepted_input" THEN r.accepted ELSE r.output = e.expected
           state == IF agrees THEN "observation_matches_prediction" ELSE "observation_contradicts_prediction" IN
       /\ e.receipt = None /\ AsPlanned(e) /\ Bound(e, r)
       /\ exps' = [exps EXCEPT ![i].receipt = n, ![i].state = state]
       /\ hyps' = [hyps EXCEPT ![e.hyp].state = state]
  /\ UNCHANGED <<cands, recs, proofs, sols, obligations>> /\ Update

ProveObservation ==
  /\ Room(proofs)
  /\ \E i \in DOMAIN exps :
       LET e == exps[i]
           answer == IF e.kind = "accepted_input" THEN cands[e.cand].bytes ELSE runs[e.receipt].output IN
       /\ e.kind # "none" /\ e.state = "observation_matches_prediction"
       /\ proofs' = Append(proofs, NewProof(e.kind, hyps[e.hyp].fact, answer, i, {e.pin}))
  /\ UNCHANGED <<hyps, cands, exps, recs, sols, obligations>> /\ Update

\* recover_initialized_x86: a recovery, and a proof that it is a candidate.
Recover ==
  /\ Room(recs) /\ Room(proofs)
  /\ \E s \in Sources, f \in Facts :
       /\ Readable(s) /\ Recovered[s] # None
       /\ recs' = Append(recs, [fact |-> f, answer |-> Recovered[s], pin |-> s])
       /\ proofs' = Append(proofs, NewProof("recovered_candidate", f, Recovered[s], Len(recs) + 1, {s}))
  /\ UNCHANGED <<hyps, cands, exps, sols, obligations>> /\ Update

\* The recovery is done again from its source, whose bytes are still the
\* pinned ones, and the native flow into it is checked.
VerifyTransformation ==
  /\ Room(proofs)
  /\ \E n \in DOMAIN recs, control, entry \in Sources :
       /\ Readable(recs[n].pin) /\ Readable(control) /\ Readable(entry) /\ recs[n].pin \in Exact
       /\ proofs' = Append(proofs, NewProof("verified_transformation", recs[n].fact, recs[n].answer, n, {recs[n].pin, control, entry}))
  /\ UNCHANGED <<hyps, cands, exps, recs, sols, obligations>> /\ Update

Resolves(kind) ==
  CASE kind = "recovered_candidate" -> {"candidate_validation"}
    [] kind = "verified_transformation" -> {"candidate_validation", "output"}
    [] kind = "observed_output" -> {"output"}
    [] OTHER -> {"input", "acceptance", "candidate_validation"}

SelectSolution ==
  /\ Room(sols)
  /\ \E i \in DOMAIN proofs :
       LET p == proofs[i] IN
       /\ \A n \in DOMAIN sols : sols[n].fact = p.fact => sols[n].answer = p.answer
       /\ sols' = Append(sols, [proof |-> i, fact |-> p.fact, answer |-> p.answer])
       /\ obligations' = [obligations EXCEPT ![p.fact] =
            [r \in Roles |-> IF r \in Resolves(p.kind) THEN p.kind ELSE @[r]]]
  /\ UNCHANGED <<hyps, cands, exps, recs, proofs>> /\ Update

\* harness_certify: the evaluator, outside of the workspace, grades an answer.
Certify ==
  /\ report = None
  /\ \E f \in Facts : \E a \in Graded[f] :
       /\ required[f] = "independently_graded"
       /\ verifications' = verifications \cup {NewProof("independently_graded", f, a, 0, {})}
       /\ obligations' = [obligations EXCEPT ![f]["challenge_solve"] = "independently_graded"]
  /\ Coherent(proofs, sols, verifications')
  /\ met' = AllMatched(proofs, sols, verifications')
  /\ solved' = Solved(proofs, sols, verifications')
  /\ UNCHANGED <<required, world, hyps, cands, exps, recs, proofs, sols, revision, report, audit>>

-----------------------------------------------------------------------------
(* finish and audit.                                                       *)

\* publication_proof: the sources are current and their bytes the pinned ones.
Publishable(p) ==
  /\ p.kind = "verified_transformation" => p.version = 2
  /\ \A s \in p.pins : source[s] = "current"

Typed == \A f \in Facts : required[f] # "claim"

\* Of several that agree the first stands for the fact.
First(f) ==
  LET own == {i \in DOMAIN proofs : proofs[i] \in Matching(proofs, sols, verifications, f) /\ SelectedBy(proofs[i], sols, i)} IN
  IF own # {} THEN proofs[CHOOSE i \in own : \A j \in own : i <= j] ELSE CHOOSE v \in verifications : v.fact = f
Chosen == {First(f) : f \in {f \in Facts : Matching(proofs, sols, verifications, f) # {}}}

Answerable == Typed /\ AllMatched(proofs, sols, verifications)

FinishProved ==
  /\ report = None /\ Answerable
  /\ \A p \in Chosen : Publishable(p)
  /\ met' = TRUE /\ solved' = Solved(proofs, sols, verifications)
  /\ report' = [status |-> "answered", typed |-> TRUE, solve |-> Solved(proofs, sols, verifications),
                cites |-> UNION {p.pins : p \in Chosen}]
  /\ UNCHANGED <<required, world, hyps, cands, exps, recs, proofs, sols, obligations, revision, verifications, audit>>

\* A report of claims that cite evidence; an answered one cites nothing that
\* is superseded or incomplete.  The bytes are not read.
Current(s) == source[s] # "superseded"
FinishClaims ==
  /\ report = None
  /\ \E status \in {"answered", "partial"}, cites \in SUBSET Sources :
       /\ status = "answered" => ~Typed /\ cites # {} /\ \A s \in cites : Current(s) /\ s \notin Partial
       /\ report' = [status |-> status, typed |-> FALSE, solve |-> FALSE, cites |-> cites]
  /\ UNCHANGED <<required, world, ledger, verifications, audit>>

\* The typed proofs are checked as they were when they were published, and
\* an incomplete analysis is no issue for a claim of such a proof.
NoIssue ==
  /\ Typed => \A p \in Chosen : Publishable(p)
  /\ \A s \in report.cites : Current(s) /\ (s \in Partial => report.typed)

Audit ==
  /\ report # None
  /\ audit' = IF NoIssue THEN "citations_current" ELSE "needs_review"
  /\ UNCHANGED <<required, world, ledger, verifications, report>>

Next ==
  \/ Supersede \/ Damage \/ IoRun
  \/ Bind \/ Hypothesize \/ ReviseHypothesis \/ CheckHypothesis \/ AddCandidate \/ ValidateCandidate
  \/ PlanExperiment \/ Feedback \/ ProveObservation \/ Recover \/ VerifyTransformation \/ SelectSolution
  \/ Certify \/ FinishProved \/ FinishClaims \/ Audit
Spec == Init /\ [][Next]_vars

-----------------------------------------------------------------------------
(* Properties.                                                             *)

\* The ledger refers to what is in it and stays within its bounds.
TypeOK ==
  /\ \A n \in {Len(hyps), Len(cands), Len(exps), Len(recs), Len(proofs), Len(sols)} : n <= MaxRecords
  /\ \A e \in Images(exps) : e.hyp \in DOMAIN hyps /\ e.cand \in DOMAIN cands /\ e.receipt \in DOMAIN runs \cup {None}
  /\ \A n \in DOMAIN sols : sols[n].proof \in DOMAIN proofs
  /\ \A p \in Images(proofs) \cup verifications : p.kind \in ProofKinds /\ p.pins \subseteq Sources
  /\ \A s \in Sources : source[s] \in {"current", "superseded", "damaged"}
  /\ obligations \in [Facts -> [Roles -> ProofKinds \cup {"unresolved", "located_unproven"}]]

Shows(p, r) == r.primary /\ r.complete /\ (p.kind = "observed_output" => r.output = p.answer)
\* What a proof claims, said of the runs and the sources themselves.
Holds(p) ==
  CASE p.kind = "accepted_input" ->
         \E r \in Images(runs) : /\ Shows(p, r) /\ r.input = p.answer /\ r.fact = p.fact
                                 /\ r.control # None /\ r.control.complete /\ prints[r.control.input] # prints[p.answer]
    [] p.kind = "observed_output" -> \E r \in Images(runs) : Shows(p, r)
    [] p.kind = "recovered_candidate" -> \E s \in p.pins : Recovered[s] = p.answer
    [] p.kind = "verified_transformation" -> p.version = 2 => \E s \in p.pins \cap Exact : Recovered[s] = p.answer
    [] OTHER -> p.answer \in Graded[p.fact]

\* A proof claims no more than was seen: an accepted input is the exact bytes
\* of a complete run of this program that answered as the question's oracle
\* says where a completed control did not; an output, a recovery and a grade
\* are what a run, a source and the evaluator gave (signed_proof).
ProofsAreTrue == \A p \in Images(proofs) \cup verifications : Holds(p)

\* An answered report of an investigation with requirements has, for each
\* fact, a selected proof or a grade of exactly the kind that was asked for,
\* made by the checker in use and true (requirement_report).
AnsweredIsProved ==
  report # None /\ report.status = "answered" /\ Typed =>
    \A f \in Facts : \E p \in {proofs[sols[n].proof] : n \in DOMAIN sols} \cup verifications :
      p.fact = f /\ p.kind = required[f] /\ p.version = 2 /\ Holds(p)

\* The ledger calls its requirements verified only if each fact has a
\* selected proof of its kind, and itself solved only if one was graded.
FlagsAreTrue ==
  /\ met => \A f \in Facts : \/ \E n \in DOMAIN sols : proofs[sols[n].proof].fact = f /\ proofs[sols[n].proof].kind = required[f]
                             \/ \E v \in verifications : v.fact = f /\ required[f] = v.kind
  /\ solved => met /\ verifications # {}

\* An obligation is resolved only by a selected proof that shows it: an
\* output no acceptance, an acceptance no output (solution).
ObligationsAreTrue ==
  \A f \in Facts :
    LET kinds == {proofs[sols[n].proof].kind : n \in {n \in DOMAIN sols : sols[n].fact = f}} IN
    /\ obligations[f]["output"] \in ProofKinds => kinds \cap {"observed_output", "verified_transformation"} # {}
    /\ obligations[f]["acceptance"] \in ProofKinds => "accepted_input" \in kinds
    /\ obligations[f]["challenge_solve"] \in ProofKinds => \E v \in verifications : v.fact = f

\* A hypothesis that a run is said to match or to contradict reads as it did
\* when that run's experiment was planned (feedback).
JudgedAsPlanned ==
  \A h \in DOMAIN hyps :
    hyps[h].state \in {"observation_matches_prediction", "observation_contradicts_prediction"} =>
      \E e \in Images(exps) : e.hyp = h /\ e.receipt # None /\ e.state = hyps[h].state /\ e.hypWas.text = hyps[h].text

\* Nothing that rests on a superseded source is published as an answer, nor
\* as a proved one on a source whose bytes have changed since the proof.
PublishedFresh ==
  report' # report /\ report'.status = "answered" =>
     \A s \in report'.cites : source[s] # "superseded" /\ (report'.typed => source[s] = "current")

\* An audit that finds the citations current found them so: of a proved
\* report, their bytes too.
AuditIsTrue ==
  audit' # audit /\ audit' = "citations_current" =>
     \A s \in report.cites : source[s] # "superseded" /\ (report.typed => source[s] = "current")
=============================================================================
