------------------------------- MODULE Helper -------------------------------
(***************************************************************************)
(* analysis_helper.cpp: a program the model wrote is proposed with pins of *)
(* its inputs, its reference and its interpreter, run twice in fresh roots *)
(* and reported with what the two runs had in common.                      *)
(*                                                                         *)
(* While that goes on the artifact's file may be damaged and restored, and *)
(* the operator may upgrade the tools.  A program is anything: it may fail *)
(* and answer differently each time.  The compiler is taken to make one    *)
(* image of one source and one version of the tools.                       *)
(***************************************************************************)
EXTENDS Integers, Sequences

CONSTANTS
  Contents,   \* of the artifact's file; Pinned is the content on record
  Pinned,
  Tools,      \* versions of the compiler or interpreter
  Outputs,    \* what a run may print, the reference among them
  Expected,   \* the bytes of the reference slice in Pinned
  Changes,    \* bound of a run: changes of the file and the tools
  None

HelperAssumption == Changes \in Nat /\ None \notin Tools

VARIABLES
  artifact, tool, changes,     \* the world
  language, validation,        \* "c17" or "python3"; "none" or "artifact_bytes"
  sealed,                      \* the interpreter's pin, of a Python helper
  pc,                          \* propose, admit, stage, hash, build, exec, judge, check, published or refused
  hashed, image,               \* of the stage that runs
  stages,                      \* finished stages: their dependencies, image and run
  body,                        \* the receipt
  seen                         \* the file's content at the last check
world == <<artifact, tool, changes>>
request == <<language, validation, sealed>>
vars == <<world, request, pc, hashed, image, stages, body, seen>>

Good(run) == run.end = "good"
Twice == Len(stages) = 2 /\ stages[1].run.end # "none" /\ stages[2].run.end # "none"

Init ==
  /\ artifact \in Contents /\ tool \in Tools /\ changes = 0
  /\ language \in {"c17", "python3"} /\ validation \in {"none", "artifact_bytes"}
  /\ sealed = None /\ pc = "propose" /\ hashed = None /\ image = None /\ stages = <<>> /\ seen = None
  /\ body = [status |-> "capability_blocked", repeatable |-> FALSE, passed |-> FALSE, output |-> None]

Change ==
  /\ changes < Changes /\ changes' = changes + 1
  /\ \/ \E c \in Contents \ {artifact} : artifact' = c /\ UNCHANGED tool
     \/ \E t \in Tools \ {tool} : tool' = t /\ UNCHANGED artifact
  /\ UNCHANGED <<request, pc, hashed, image, stages, body, seen>>

Refuse == pc' = "refused" /\ UNCHANGED <<hashed, image, stages, body, seen>>

-----------------------------------------------------------------------------
(* normalize_helper, when proposed and again when admitted.                *)

\* The page of an artifact is read only from a file that is what is on record.
Seal == IF language = "python3" THEN tool ELSE None
Propose ==
  /\ pc = "propose" /\ UNCHANGED <<world, language, validation>>
  /\ IF artifact = Pinned THEN sealed' = Seal /\ pc' = "admit" /\ UNCHANGED <<hashed, image, stages, body, seen>>
     ELSE Refuse /\ UNCHANGED sealed

Admit ==
  /\ pc = "admit" /\ UNCHANGED <<world, request>>
  /\ IF artifact = Pinned /\ sealed = Seal THEN pc' = "stage" /\ UNCHANGED <<hashed, image, stages, body, seen>> ELSE Refuse

-----------------------------------------------------------------------------
(* execute_helper and the worker in the sandbox.                           *)

\* materialize: a slice that is no longer the pinned one is not staged.
Stage ==
  /\ pc = "stage" /\ UNCHANGED <<world, request>>
  /\ IF artifact = Pinned THEN pc' = "hash" /\ UNCHANGED <<hashed, image, stages, body, seen>> ELSE Refuse

\* The stage's dependencies are hashed before the tool is used.
HashTools ==
  /\ pc = "hash" /\ hashed' = tool /\ pc' = "build"
  /\ UNCHANGED <<world, request, image, stages, body, seen>>

\* The sandbox did not start, ended badly or did not end in time.
StageFails ==
  /\ pc \in {"hash", "build", "exec"}
  /\ \E s \in {"timeout", "isolation_or_worker_failed"} : body' = [body EXCEPT !.status = s]
  /\ pc' = "judge" /\ UNCHANGED <<world, request, hashed, image, stages, seen>>

\* A source that does not compile ends the passes.  Python's is its image.
Build ==
  /\ pc = "build" /\ UNCHANGED <<world, request, hashed, seen>>
  /\ \/ image' = (IF language = "python3" THEN 0 ELSE tool) /\ pc' = "exec" /\ UNCHANGED <<stages, body>>
     \/ /\ language = "c17" /\ pc' = "judge" /\ UNCHANGED image
        /\ body' = [body EXCEPT !.status = "compile_failed"]
        /\ stages' = Append(stages, [tool |-> hashed, image |-> None, run |-> [end |-> "none", output |-> None]])

OneMore == Len(stages) = 0

\* The run of a stage: its end, its output and, in `output' too, its files.
\* A Python stage whose interpreter is not the sealed one throws.
Exec ==
  /\ pc = "exec" /\ UNCHANGED <<world, request, hashed, image, seen>>
  /\ \E end \in {"good", "failed", "timeout", "held"}, out \in Outputs :
       IF language = "python3" /\ hashed # sealed THEN pc' = "refused" /\ UNCHANGED <<stages, body>>
       ELSE /\ stages' = Append(stages, [tool |-> hashed, image |-> image, run |-> [end |-> end, output |-> out]])
            /\ body' = [body EXCEPT !.status = IF end = "good" THEN "executed" ELSE "execution_failed"]
            /\ pc' = IF OneMore THEN "hash" ELSE "judge"

Repeat ==
  /\ Twice /\ Good(stages[1].run) /\ Good(stages[2].run)
  /\ stages[1].run.output = stages[2].run.output
  /\ stages[1].image = stages[2].image /\ stages[1].tool = stages[2].tool

Judge ==
  /\ pc = "judge" /\ pc' = "check"
  /\ body' = [body EXCEPT
       !.repeatable = Repeat,
       !.output = IF Repeat THEN stages[1].run.output ELSE @,
       !.passed = Repeat /\ validation = "artifact_bytes" /\ stages[1].run.output = Expected,
       !.status = IF Twice /\ Good(stages[1].run) /\ Good(stages[2].run) /\ ~Repeat THEN "nonrepeatable" ELSE @]
  /\ UNCHANGED <<world, request, hashed, image, stages, seen>>

\* The sources are hashed once more before the receipt is put.
Check ==
  /\ pc = "check" /\ pc' = "published" /\ seen' = artifact
  /\ body' = IF artifact = Pinned THEN body ELSE [body EXCEPT !.passed = FALSE, !.status = "source_changed"]
  /\ UNCHANGED <<world, request, hashed, image, stages>>

Next == Change \/ Propose \/ Admit \/ Stage \/ HashTools \/ StageFails \/ Build \/ Exec \/ Judge \/ Check
Spec == Init /\ [][Next]_vars

-----------------------------------------------------------------------------

Statuses == {"capability_blocked", "timeout", "isolation_or_worker_failed", "compile_failed", "executed",
             "execution_failed", "nonrepeatable", "source_changed"}
TypeOK ==
  /\ artifact \in Contents /\ tool \in Tools /\ changes \in 0..Changes /\ sealed \in Tools \cup {None}
  /\ pc \in {"propose", "admit", "stage", "hash", "build", "exec", "judge", "check", "published", "refused"}
  /\ Len(stages) <= 2 /\ body.status \in Statuses
  /\ pc \in {"judge", "check", "published"} => body.status # "capability_blocked"

\* A validation that passed is of a program that twice ended well with the
\* reference's bytes, and of an artifact that was what its pins say when it
\* was read and when the receipt was made.  (analysis-helpers.md:119:
\* "Timeout, missing EOF, truncated output, compile failure, and nonzero exits
\* cannot pass validation.")
ValidationIsEarned ==
  body.passed /\ pc = "published" =>
    /\ Len(stages) = 2 /\ \A i \in 1..2 : Good(stages[i].run) /\ stages[i].run.output = Expected
    /\ seen = Pinned /\ body.status = "executed"

\* The two runs of a repeatable observation had the same tools, and a Python
\* helper's were those it was proposed with.
RepeatedAlike ==
  body.repeatable =>
    /\ stages[1].tool = stages[2].tool /\ stages[1].image = stages[2].image
    /\ language = "python3" => stages[1].tool = sealed

\* A Python helper never runs with another interpreter than it was proposed
\* with and has that counted: what is in its receipt is of the first pin.
SealKept == sealed # None => sealed' = sealed
SealedAtProposal == [][SealKept]_vars
==============================================================================
