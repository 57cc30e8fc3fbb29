------------------------------- MODULE Derive -------------------------------
(***************************************************************************)
(* transform run (knowledge_artifacts.cpp) with the imports of core.cpp:   *)
(* the output is staged, imported as a target, given its lineage and       *)
(* published as a knowledge record, each in a transaction of its own,      *)
(* while other processes import the same bytes and objects are damaged.    *)
(***************************************************************************)
EXTENDS Integers, Sequences, FiniteSets, Functions

CONSTANTS
  Callers,
  Artifacts,
  Out,          \* what the transformation makes of an artifact
  Originals,    \* artifacts of the project to begin with
  MaxImports,   \* bound on what others import
  MaxDamage,    \* bound on the objects that are damaged
  None

VARIABLES
  targets,   \* rows, oldest first
  objects,   \* artifact -> absent, good or damaged
  lineage,   \* derivations: output and input
  records,   \* published transformation records
  at,        \* caller -> where it is
  from,      \* the artifact it transforms
  before,    \* the latest target when it began
  staged,    \* whether its staged file is there
  reply,
  added,     \* history: targets the caller itself has added
  imports, damage
shared == <<targets, objects, lineage, records>>
vars == <<shared, at, from, before, staged, reply, added, imports, damage>>

Project == Range(targets)
Latest == targets[Len(targets)]

Init ==
  /\ \E s \in [1..Cardinality(Originals) -> Originals] : Range(s) = Originals /\ targets = s
  /\ objects = [a \in Artifacts |-> IF a \in Originals THEN "good" ELSE "absent"]
  /\ lineage = {} /\ records = {}
  /\ at = [c \in Callers |-> "idle"] /\ from = [c \in Callers |-> None]
  /\ before = [c \in Callers |-> None] /\ staged = [c \in Callers |-> FALSE]
  /\ reply = [c \in Callers |-> None] /\ added = [c \in Callers |-> {}] /\ imports = 0 /\ damage = 0

Goes(c, p) == at' = [at EXCEPT ![c] = p]

\* artifact_bytes: a target of the project, whose bytes are what its name says.
Read(c) ==
  /\ at[c] = "idle"
  /\ \E a \in Project \cap DOMAIN Out :
       /\ from' = [from EXCEPT ![c] = a]
       /\ IF objects[a] = "good" THEN Goes(c, "read") ELSE Goes(c, "failed")
  /\ UNCHANGED <<shared, before, staged, reply, added, imports, damage>>

\* The target that is selected, and the staged output.
Stage(c) ==
  /\ at[c] = "read" /\ Goes(c, "staged")
  /\ before' = [before EXCEPT ![c] = Latest] /\ staged' = [staged EXCEPT ![c] = TRUE]
  /\ UNCHANGED <<shared, from, reply, added, imports, damage>>

\* import_target: the object is moved into place unless one is there, and read
\* back; the row is inserted unless the project has it.
Placed(a) == IF objects[a] = "absent" THEN [objects EXCEPT ![a] = "good"] ELSE objects

Places(c) ==
  /\ at[c] = "staged" /\ objects' = Placed(Out[from[c]])
  /\ IF objects'[Out[from[c]]] = "good" THEN Goes(c, "placed") /\ staged' = staged
     ELSE Goes(c, "failed") /\ staged' = [staged EXCEPT ![c] = FALSE]
  /\ UNCHANGED <<targets, lineage, records, from, before, reply, added, imports, damage>>

WithRow(a) == IF a \in Project THEN targets ELSE Append(targets, a)

\* The row, the target read back with its bytes checked once more, and the
\* staged file removed.
Inserts(c) ==
  /\ at[c] = "placed" /\ targets' = WithRow(Out[from[c]])
  /\ added' = [added EXCEPT ![c] = Range(targets') \ Project]
  /\ staged' = [staged EXCEPT ![c] = FALSE]
  /\ Goes(c, IF objects[Out[from[c]]] = "good" THEN "imported" ELSE "failed")
  /\ UNCHANGED <<objects, lineage, records, from, before, reply, imports, damage>>

\* record_derivation, which is idempotent
Derives(c) ==
  /\ at[c] = "imported" /\ Goes(c, "derived")
  /\ lineage' = lineage \cup {<<Out[from[c]], from[c]>>}
  /\ UNCHANGED <<targets, objects, records, from, before, staged, reply, added, imports, damage>>

\* knowledge_put: the parent and the output are dependencies of the project.
Publishes(c) ==
  /\ at[c] = "derived" /\ Goes(c, "published")
  /\ records' = records \cup {[by |-> c, output |-> Out[from[c]], input |-> from[c]]}
  /\ UNCHANGED <<targets, objects, lineage, from, before, staged, reply, added, imports, damage>>

\* The answer says whether the selected target is another one now.
Replies(c) ==
  /\ at[c] = "published" /\ Goes(c, "done")
  /\ reply' = [reply EXCEPT ![c] = [output |-> Out[from[c]], moved |-> Latest # before[c]]]
  /\ UNCHANGED <<shared, from, before, staged, added, imports, damage>>

\* The process dies; its staged file stays.
Crash(c) ==
  /\ at[c] \notin {"idle", "done", "failed", "crashed"} /\ Goes(c, "crashed")
  /\ UNCHANGED <<shared, from, before, staged, reply, added, imports, damage>>

\* Somebody else imports an artifact.
Import(a) ==
  /\ imports < MaxImports /\ imports' = imports + 1
  /\ objects' = Placed(a)
  /\ targets' = IF objects'[a] = "good" THEN WithRow(a) ELSE targets
  /\ UNCHANGED <<lineage, records, at, from, before, staged, reply, added, damage>>

\* An object's bytes are no longer what its name says.
Damage(a) ==
  /\ damage < MaxDamage /\ damage' = damage + 1
  /\ objects[a] = "good" /\ objects' = [objects EXCEPT ![a] = "damaged"]
  /\ UNCHANGED <<targets, lineage, records, at, from, before, staged, reply, added, imports>>

Next ==
  \/ \E c \in Callers : Read(c) \/ Stage(c) \/ Places(c) \/ Inserts(c) \/ Derives(c)
                        \/ Publishes(c) \/ Replies(c) \/ Crash(c)
  \/ \E a \in Artifacts : Import(a) \/ Damage(a)
Spec == Init /\ [][Next]_vars

-----------------------------------------------------------------------------
\* import_target: the project has one target for an artifact, whoever imports it
\* at the same time.
OneTargetEach == Cardinality(Project) = Len(targets)

\* transform run: what was published is a target of the project whose lineage is
\* recorded, although a call may end after any of its transactions.
RecordsHaveLineage ==
  \A r \in records :
    /\ r.output \in Project /\ r.input \in Project
    /\ <<r.output, r.input>> \in lineage /\ r.output = Out[r.input]

\* import_target: damaged bytes are never taken for the output: unless somebody
\* damaged them since, what was imported or derived is what was computed.
NeverOverDamaged ==
  \A c \in Callers : at[c] = "staged" /\ at'[c] = "placed" => objects'[Out[from[c]]] = "good"

\* transform run: an answer whose call added the newest target says so.
SaysWhenItMoved ==
  \A c \in Callers : reply[c] # None /\ ~reply[c].moved => added[c] = {}

\* transform run: only a call that died leaves its staged file behind.
StagingIsEmptied ==
  \A c \in Callers : at[c] \in {"done", "failed", "imported", "derived", "published"} => ~staged[c]
=============================================================================
