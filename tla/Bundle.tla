------------------------------- MODULE Bundle -------------------------------
(***************************************************************************)
(* Portable bundles, workbench_bundle.cpp: `bundle export` takes a settled *)
(* project out of a workspace into a directory, and `bundle import` makes  *)
(* a new workspace of such a directory.                                    *)
(*                                                                         *)
(* An export holds the write lock of the core database, and then of the    *)
(* runtime database, from its checks to its end, and writes manifest.json  *)
(* and manifest.sha256 last.  An import holds nothing: it checks what it   *)
(* reads, stages a workspace beside its destination and renames it.  The   *)
(* contents an export copies stay in the store, see Retention.             *)
(***************************************************************************)
EXTENDS Naturals, FiniteSets

CONSTANTS
  Paths,      \* directories on the disk
  Projects,
  Objects,    \* contents, by their hash
  Kinds,      \* of rows with an owner and a deadline, see OwnerKinds
  Ends,       \* the states in which a runtime session ends, see Ended
  Exporters,  \* uses of `bundle export`
  Importers,  \* uses of `bundle import`
  Damages     \* bound on the accidents that befall directories

OwnerKinds == {"batch", "investigation", "action", "model"}
Terminal == {"exited", "detached", "terminated", "failed"}
\* A replay, an instrumentation or a bounded run has these ends as well.
Ended == Terminal \cup {"cancelled", "completed"}

BundleAssumption ==
  /\ Kinds \subseteq OwnerKinds
  /\ Ends \subseteq Ended
  /\ Exporters \cap Importers = {}
  /\ Damages \in Nat

VARIABLES
  need,      \* contents the targets and evidence of a project name
  busy,      \* projects with a queued or running job
  owner,     \* of a project's row: free, held, or expired
  session,   \* state of a project's runtime session: none, live or ended
  core, runtime,     \* who holds the write lock of a database: at most one
  made,      \* paths that exist
  files,     \* contents in a path's objects directory
  bad,       \* of these, the damaged ones
  manifest, digest,  \* of a path: none or one, as a set
  space,     \* the workspace at a path: none or one
  pc,
  from, to,  \* the paths of a use
  of,        \* the project of an export
  held,      \* the manifest a use will write or has read: none or one
  have,      \* contents a use has copied, and whether they are sound
  complete,  \* manifests of the exports that ran to their end
  damages

source == <<need, busy, owner, session>>
locks == <<core, runtime>>
disk == <<made, files, bad, manifest, digest, space>>
given == <<from, to, of>>
vars == <<source, locks, disk, pc, given, held, have, complete, damages>>

Uses == Exporters \cup Importers

Init ==
  /\ need = [p \in Projects |-> {}] /\ busy = {}
  /\ owner = [p \in Projects |-> [k \in Kinds |-> "free"]]
  /\ session = [p \in Projects |-> "none"]
  /\ core = {} /\ runtime = {}
  /\ made = {}
  /\ files = [d \in Paths |-> {}] /\ bad = [d \in Paths |-> {}]
  /\ manifest = [d \in Paths |-> {}] /\ digest = [d \in Paths |-> {}]
  /\ space = [d \in Paths |-> {}]
  /\ pc = [u \in Uses |-> "idle"]
  /\ from \in [Importers -> Paths] /\ to \in [Uses -> Paths]
  /\ of \in [Exporters -> Projects]
  /\ held = [u \in Uses |-> {}] /\ have = [u \in Uses |-> {}]
  /\ complete = {} /\ damages = 0

Goto(u, label) == pc' = [pc EXCEPT ![u] = label]

(* A return, an exception or a death: the locks go, what was written stays. *)
End(u) ==
  /\ Goto(u, "done")
  /\ core' = core \ {u} /\ runtime' = runtime \ {u}
  /\ held' = [held EXCEPT ![u] = {}] /\ have' = [have EXCEPT ![u] = {}]
  /\ UNCHANGED given

Fails(u) == End(u) /\ UNCHANGED <<source, disk, complete, damages>>

-----------------------------------------------------------------------------
(* The workspace, and what other commands do in it. *)

Submit(p) ==
  /\ core = {} /\ busy' = busy \cup {p}
  /\ UNCHANGED <<need, owner, session>>

(* A job ends, with evidence or without. *)
Settle(p) ==
  /\ core = {} /\ p \in busy /\ busy' = busy \ {p}
  /\ \E new \in SUBSET Objects :
       Cardinality(new) <= 1 /\ need' = [need EXCEPT ![p] = @ \cup new]
  /\ UNCHANGED <<owner, session>>

(* A row is claimed or released; its deadline passes by itself. *)
Own(p, k) ==
  /\ \/ core = {} /\ owner' = [owner EXCEPT ![p][k] = "held"]
     \/ core = {} /\ owner' = [owner EXCEPT ![p][k] = "free"]
     \/ owner[p][k] = "held" /\ owner' = [owner EXCEPT ![p][k] = "expired"]
  /\ UNCHANGED <<need, busy, session>>

(* A session begins or ends; starting and stopped count as live. *)
RunSession(p) ==
  /\ runtime = {}
  /\ session' \in {[session EXCEPT ![p] = s] : s \in IF session[p] = "live" THEN Ends ELSE {"live"}}
  /\ UNCHANGED <<need, busy, owner>>

Work ==
  /\ \E p \in Projects :
       Submit(p) \/ Settle(p) \/ RunSession(p) \/ (\E k \in Kinds : Own(p, k))
  /\ UNCHANGED <<locks, disk, pc, given, held, have, complete, damages>>

-----------------------------------------------------------------------------
(* Export. *)

ExportBegins(e) ==
  /\ pc[e] = "idle"
  /\ IF to[e] \in made
     THEN Fails(e)
     ELSE /\ Goto(e, "core")
          /\ UNCHANGED <<source, locks, disk, given, held, have, complete, damages>>

(* Owners of batches stay in their rows, the others are cleared. *)
Exported(p) == [k \in Kinds |-> IF k = "batch" THEN owner[p][k] ELSE "free"]

LockCore(e) ==
  /\ pc[e] = "core" /\ core = {}
  /\ IF of[e] \in busy \/ (\E k \in Kinds : owner[of[e]][k] = "held")
     THEN Fails(e)
     ELSE /\ core' = {e}
          /\ held' = [held EXCEPT ![e] =
               {[project |-> of[e], need |-> need[of[e]], owner |-> Exported(of[e]), session |-> "none"]}]
          /\ Goto(e, "runtime")
          /\ UNCHANGED <<source, runtime, disk, given, have, complete, damages>>

LockRuntime(e) ==
  /\ pc[e] = "runtime" /\ runtime = {}
  /\ IF session[of[e]] = "live"
     THEN Fails(e)
     ELSE /\ runtime' = {e}
          /\ held' = [held EXCEPT ![e] = {[m EXCEPT !.session = session[of[e]]] : m \in @}]
          /\ made' = made \cup {to[e]}
          /\ Goto(e, "copy")
          /\ UNCHANGED <<source, core, files, bad, manifest, digest, space, given, have, complete,
                         damages>>

Copied(u) == {c[1] : c \in have[u]}

(* copy_file does not overwrite. *)
CopyOut(e, o) ==
  /\ pc[e] = "copy"
  /\ \E m \in held[e] : o \in m.need \ Copied(e)
  /\ IF o \in files[to[e]]
     THEN Fails(e)
     ELSE /\ files' = [files EXCEPT ![to[e]] = @ \cup {o}]
          /\ have' = [have EXCEPT ![e] = @ \cup {<<o, TRUE>>}]
          /\ UNCHANGED <<source, locks, made, bad, manifest, digest, space, pc, given, held,
                         complete, damages>>

WriteManifest(e) ==
  /\ pc[e] = "copy"
  /\ \E m \in held[e] : Copied(e) = m.need
  /\ manifest' = [manifest EXCEPT ![to[e]] = held[e]]
  /\ Goto(e, "digest")
  /\ UNCHANGED <<source, locks, made, files, bad, digest, space, given, held, have, complete,
                 damages>>

WriteDigest(e) ==
  /\ pc[e] = "digest"
  /\ digest' = [digest EXCEPT ![to[e]] = held[e]]
  /\ complete' = complete \cup held[e]
  /\ End(e)
  /\ UNCHANGED <<source, made, files, bad, manifest, space, damages>>

-----------------------------------------------------------------------------
(* Import. *)

ImportBegins(i) ==
  /\ pc[i] = "idle"
  /\ IF to[i] \in made
     THEN Fails(i)
     ELSE /\ Goto(i, "read")
          /\ UNCHANGED <<source, locks, disk, given, held, have, complete, damages>>

ReadManifest(i) ==
  /\ pc[i] = "read"
  /\ IF manifest[from[i]] = {}
     THEN Fails(i)
     ELSE /\ held' = [held EXCEPT ![i] = manifest[from[i]]]
          /\ Goto(i, "validate")
          /\ UNCHANGED <<source, locks, disk, given, have, complete, damages>>

(* validate_snapshot *)
Valid(m) ==
  /\ m.session \in Terminal \cup {"none"}
  /\ \A k \in Kinds \ {"batch"} : m.owner[k] = "free"

Trusted(i) == digest[from[i]] = held[i] /\ (\A m \in held[i] : Valid(m))

Validate(i) ==
  /\ pc[i] = "validate"
  /\ IF Trusted(i)
     THEN /\ Goto(i, "verify")
          /\ UNCHANGED <<source, locks, disk, given, held, have, complete, damages>>
     ELSE Fails(i)

Sound(d) == files[d] \ bad[d]

Verify(i) ==
  /\ pc[i] = "verify"
  /\ IF \A m \in held[i] : m.need \subseteq Sound(from[i])
     THEN /\ Goto(i, "stage")
          /\ UNCHANGED <<source, locks, disk, given, held, have, complete, damages>>
     ELSE Fails(i)

(* Mutant: the contents were verified, and are not again when copied. *)
CopyInUnverified(i, o) ==
  /\ pc[i] = "stage"
  /\ \E m \in held[i] : o \in m.need \ Copied(i)
  /\ o \in files[from[i]]
  /\ have' = [have EXCEPT ![i] = @ \cup {<<o, o \in Sound(from[i])>>}]
  /\ UNCHANGED <<source, locks, disk, pc, given, held, complete, damages>>

CopyIn(i, o) ==
  /\ pc[i] = "stage"
  /\ \E m \in held[i] : o \in m.need \ Copied(i)
  /\ IF o \in Sound(from[i])
     THEN /\ have' = [have EXCEPT ![i] = @ \cup {<<o, TRUE>>}]
          /\ UNCHANGED <<source, locks, disk, pc, given, held, complete, damages>>
     ELSE Fails(i)

(* The staged workspace takes its place, unless there is something. *)
Install(i) ==
  /\ pc[i] = "stage"
  /\ \E m \in held[i] :
       /\ Copied(i) = m.need
       /\ space' = IF to[i] \in made THEN space
                   ELSE [space EXCEPT ![to[i]] = {[of |-> m, have |-> have[i]]}]
  /\ made' = made \cup {to[i]}
  /\ End(i)
  /\ UNCHANGED <<source, files, bad, manifest, digest, complete, damages>>

-----------------------------------------------------------------------------
(* On its way from one disk to another a bundle may lose or change parts. *)
Damage(d) ==
  /\ d \in made /\ damages < Damages
  /\ damages' = damages + 1
  /\ \/ /\ \E o \in files[d] : bad' = [bad EXCEPT ![d] = @ \cup {o}]
        /\ UNCHANGED manifest
     \/ /\ manifest' = [manifest EXCEPT ![d] = {[m EXCEPT !.need = {}] : m \in @}]
        /\ UNCHANGED bad
     \/ /\ manifest' = [manifest EXCEPT ![d] = {}]
        /\ UNCHANGED bad
  /\ UNCHANGED <<source, locks, made, files, digest, space, pc, given, held, have, complete>>

Crash(u) == pc[u] \notin {"idle", "done"} /\ Fails(u)

Export(e) ==
  \/ ExportBegins(e) \/ LockCore(e) \/ LockRuntime(e)
  \/ (\E o \in Objects : CopyOut(e, o)) \/ WriteManifest(e) \/ WriteDigest(e)
Import(i) ==
  \/ ImportBegins(i) \/ ReadManifest(i) \/ Validate(i) \/ Verify(i)
  \/ (\E o \in Objects : CopyIn(i, o)) \/ Install(i)

Next ==
  \/ \E e \in Exporters : Export(e)
  \/ \E i \in Importers : Import(i)
  \/ \E u \in Uses : Crash(u)
  \/ Work
  \/ \E d \in Paths : Damage(d)

Spec == Init /\ [][Next]_vars

-----------------------------------------------------------------------------
(* Properties. *)

Manifests ==
  [project : Projects, need : SUBSET Objects, owner : [Kinds -> {"free", "held", "expired"}],
   session : {"none", "live"} \cup Ends]

(* The variables have their types, and at most one export is at work. *)
TypeOK ==
  /\ need \in [Projects -> SUBSET Objects] /\ busy \subseteq Projects
  /\ owner \in [Projects -> [Kinds -> {"free", "held", "expired"}]]
  /\ session \in [Projects -> {"none", "live"} \cup Ends]
  /\ made \subseteq Paths
  /\ files \in [Paths -> SUBSET Objects] /\ bad \in [Paths -> SUBSET Objects]
  /\ \A d \in Paths : manifest[d] \subseteq Manifests /\ digest[d] \subseteq Manifests
  /\ \A d \in Paths : d \notin made => files[d] = {} /\ manifest[d] = {} /\ space[d] = {}
  /\ \A u \in Uses : held[u] \subseteq Manifests
  /\ Cardinality({e \in Exporters : pc[e] \in {"runtime", "copy", "digest"}}) <= 1

(* What an export will write is what the workspace holds, in both of its   *)
(* databases at once, until the export has ended: jobs and sessions that   *)
(* would change it wait.                                                   *)
SnapshotHolds ==
  \A e \in Exporters : pc[e] \in {"copy", "digest"} =>
    \A m \in held[e] :
      /\ m.need = need[of[e]] /\ m.session = session[of[e]]
      /\ of[e] \notin busy /\ m.session # "live"
      /\ \A k \in Kinds : owner[of[e]][k] # "held"

(* A workspace that an import made is whole, and it is one that an export  *)
(* took, although bundles are damaged while they are read, exports die     *)
(* halfway, and imports read directories that exports still write.         *)
ImportsAreExports ==
  \A d \in Paths : \A w \in space[d] :
    /\ w.of \in complete
    /\ w.have = w.of.need \X {TRUE}

(* An import never changes a directory that exists: of two imports to one  *)
(* destination that both saw nothing there, one fails.                     *)
ImportsOverNothing ==
  \A d \in Paths : space'[d] # space[d] => d \notin made
=============================================================================
