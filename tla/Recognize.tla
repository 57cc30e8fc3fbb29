----------------------------- MODULE Recognize -----------------------------
(***************************************************************************)
(* recognize scan (knowledge_artifacts.cpp): markers of the bytes, name    *)
(* prefixes of the index, which is read page by page while analyses are    *)
(* published, and signature records, which are revised; and the record     *)
(* that pins what was found.                                               *)
(***************************************************************************)
EXTENDS Integers, Sequences, FiniteSets, Functions

CONSTANTS
  Rows,        \* rows the index may have, numbered in the order they are added
  Hits,        \* rows whose names have a known prefix
  Markers,     \* markers in the bytes
  Signatures,  \* signature records that match
  Page,        \* 1000 in the code
  Listed,      \* signatures that are read: 200 in the code
  MaxLimit, MaxScan,
  MaxChanges,  \* bound on what others publish during a scan
  MaxRevision

VARIABLES
  index,     \* the current rows, in the order of their numbers
  revision,  \* signature -> its head, 0 if it is not there
  limit, scan,
  at, offset,
  findings,  \* what was found: rows, markers, and signatures at a revision
  partial,
  record,    \* the pins of the record that was published, if one was
  ever,      \* history: rows that were current since the scan began
  changes
vars == <<index, revision, limit, scan, at, offset, findings, partial, record, ever, changes>>

Least(a, b) == IF a < b THEN a ELSE b
Few(S, n) == {T \in SUBSET S : Cardinality(T) = Least(n, Cardinality(S))}
Sorted(S) == CHOOSE s \in [1..Cardinality(S) -> S] :
               \A i, j \in DOMAIN s : i < j => s[i] < s[j]

Init ==
  /\ \E S \in SUBSET Rows : index = Sorted(S) /\ ever = S
  /\ revision \in [Signatures -> 0..1]
  /\ limit \in 0..MaxLimit /\ scan \in 1..MaxScan
  /\ at = "markers" /\ offset = 0 /\ findings = {} /\ partial = FALSE
  /\ record = {} /\ changes = 0

\* Mutant: whatever is found is added.
AddAll(found) == findings' = findings \cup found /\ partial' = partial

\* What is found is added while there is room, and said to be partial otherwise.
Add(found) ==
  /\ \E room \in Few(found, limit - Cardinality(findings)) : findings' = findings \cup room
  /\ partial' = (partial \/ Cardinality(findings) + Cardinality(found) > limit)

Mark ==
  /\ at = "markers" /\ at' = "names" /\ Add(Markers)
  /\ UNCHANGED <<index, revision, limit, scan, offset, record, ever, changes>>

\* index_query: the rows from the offset on, and whether there are more.
Rest == SubSeq(index, offset + 1, Len(index))
Rowset == Range(SubSeq(Rest, 1, Least(Least(Page, scan - offset), Len(Rest))))
More == Len(Rest) > Cardinality(Rowset)

\* There are more rows than may be looked at.
BoundReached == More /\ offset + Cardinality(Rowset) >= scan

\* One page of the index.  A row that was found before, because the rows before
\* it have become more, is found again: it is an entry of its own in the code,
\* which only makes less room.
Names ==
  /\ at = "names"
  /\ \E room \in Few(Rowset \cap Hits, limit - Cardinality(findings)) :
       findings' = findings \cup {<<"row", n>> : n \in room}
  /\ partial' = (partial \/ BoundReached
                 \/ Cardinality(findings) + Cardinality(Rowset \cap Hits) > limit)
  /\ offset' = offset + Cardinality(Rowset)
  /\ at' = IF ~More \/ Rowset = {} \/ offset' >= scan THEN "signatures" ELSE "names"
  /\ UNCHANGED <<index, revision, limit, scan, record, ever, changes>>

There == {x \in Signatures : revision[x] > 0}

\* The list of signatures, whose records are at the heads they are read at.
Sign ==
  /\ at = "signatures" /\ at' = "found"
  /\ \E some \in Few(There, Listed) :
       LET found == {<<"signature", x, revision[x]>> : x \in some} IN
         /\ \E room \in Few(found, limit - Cardinality(findings)) : findings' = findings \cup room
         /\ partial' = (partial \/ Cardinality(There) > Listed
                        \/ Cardinality(findings) + Cardinality(found) > limit)
  /\ UNCHANGED <<index, revision, limit, scan, offset, record, ever, changes>>

\* knowledge_put refuses a pin that is no longer the head.
Pinned == \A f \in findings : f[1] = "signature" => revision[f[2]] = f[3]

Publish ==
  /\ at = "found" /\ at' = "done"
  /\ IF Pinned THEN record' = {<<f, IF f[1] = "signature" THEN revision[f[2]] ELSE 0>> : f \in findings}
     ELSE UNCHANGED record
  /\ UNCHANGED <<index, revision, limit, scan, offset, findings, partial, ever, changes>>

Busy == at # "done" /\ changes < MaxChanges /\ changes' = changes + 1

\* An analysis is superseded: rows leave the current view and newer ones join it.
Supersede(out, new) ==
  /\ Busy /\ out \subseteq Range(index) /\ new \cap ever = {}
  /\ \A n \in new, r \in ever : n > r
  /\ index' = Sorted((Range(index) \ out) \cup new)
  /\ ever' = ever \cup new
  /\ UNCHANGED <<revision, limit, scan, at, offset, findings, partial, record>>

Revise(x) ==
  /\ Busy /\ revision[x] < MaxRevision /\ revision' = [revision EXCEPT ![x] = @ + 1]
  /\ UNCHANGED <<index, limit, scan, at, offset, findings, partial, record, ever>>

Next ==
  \/ Mark \/ Names \/ Sign \/ Publish
  \/ \E out \in SUBSET Range(index), new \in SUBSET Rows : Supersede(out, new)
  \/ \E x \in Signatures : Revise(x)
Spec == Init /\ [][Next]_vars

-----------------------------------------------------------------------------
\* recognize scan: on an index nobody changes, everything that could be found
\* was, or the result says that it is partial, whichever of the three bounds
\* it met.
CompleteUnlessPartial ==
  at \in {"found", "done"} /\ changes = 0 /\ ~partial =>
    /\ {<<"row", n>> : n \in Range(index) \cap Hits} \subseteq findings
    /\ Markers \subseteq findings
    /\ \A x \in There : <<"signature", x, revision[x]>> \in findings

\* recognize scan: the bounds are kept, and nothing is found that was never
\* current since the scan began.
FoundWithinBounds ==
  /\ Cardinality(findings) <= limit /\ offset <= scan
  /\ \A f \in findings : f[1] = "row" => f[2] \in ever \cap Hits

\* recognize scan: a record that was published pins each signature at the
\* revision that was compared with the bytes.
PinsWhatItCompared ==
  \A p \in record : p[1][1] = "signature" => p[2] = p[1][3]
=============================================================================
