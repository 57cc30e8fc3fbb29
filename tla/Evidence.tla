------------------------------ MODULE Evidence ------------------------------
(***************************************************************************)
(* runtime.cpp and runtime_call_identity.hpp: what a runtime session       *)
(* leaves behind.  Collectors append observations, each in one             *)
(* transaction with the lifetime it opens, closes or, for a call of an     *)
(* API, advances; readers fetch what was appended in pages, while more is  *)
(* appended.                                                               *)
(*                                                                         *)
(* An observation is named by its sequence number.  Sizes are in units.    *)
(***************************************************************************)
EXTENDS Integers, FiniteSets, FiniteSetsExt, SequencesExt

CONSTANTS
  Sessions,
  Kinds,        \* of observations: enter, leave, open, close, other, closed
  Ids,          \* lifetimes and calls that observations name
  Origins,      \* the API, process and thread that an end of a call names
  Sizes,
  Modes,        \* of reading: cursor, offset, observations, identities
  Windows,      \* where a reader's cursor may be told to stop; 0: it is not told
  PageItems,    \* the request's limit
  PageSize,     \* what a page may hold
  StubSize,     \* of what stands for an event that is larger than a page
  ReadSize,     \* the largest observation that a cursor inspects
  ScanLimit,    \* rows that a page with a cursor inspects
  OffsetLimit,  \* the last offset into network events
  MaxRows       \* bound of a run: observations

EvidenceAssumption ==
  /\ {PageItems, PageSize, StubSize, ReadSize, ScanLimit} \subseteq Nat \ {0}
  /\ StubSize <= PageSize

VARIABLES
  rows,       \* runtime_observations, by sequence number
  lifetimes,  \* runtime_lifetimes, by id
  reader      \* a client that reads a session, page by page
vars == <<rows, lifetimes, reader>>

Ends == {"enter", "leave"}
NoReader == [mode |-> "none"]
NoCursor == -1

Init == rows = <<>> /\ lifetimes = <<>> /\ reader = NoReader

-----------------------------------------------------------------------------
(* Observing.                                                              *)

NewLifetime(row, n, kind) ==
  [session |-> row.session, kind |-> kind, first |-> n, last |-> 0]

NewCall(row, n) ==
  NewLifetime(row, n, "api_call") @@
    [origin |-> row.origin, enter |-> 0, leave |-> 0, conflicting |-> FALSE, duplicates |-> 0]

\* advance_api_call_identity: one end of a call, the first of its kind or not.
Advance(call, row, n) ==
  LET checked == [call EXCEPT !.conflicting = @ \/ call.origin # row.origin]
  IN IF call[row.kind] # 0 THEN [checked EXCEPT !.duplicates = @ + 1] ELSE [checked EXCEPT ![row.kind] = n]

PairComplete(call) == call.enter # 0 /\ call.leave # 0 /\ ~call.conflicting /\ call.duplicates = 0

\* An id is another lifetime's: its session's, or of another kind.
Collides(row) ==
  /\ row.id \in DOMAIN lifetimes
  /\ lifetimes[row.id].session # row.session \/ lifetimes[row.id].kind # "api_call"

Advanced(row, n) ==
  LET call == Advance(IF row.id \in DOMAIN lifetimes THEN lifetimes[row.id] ELSE NewCall(row, n), row, n)
  IN (row.id :> [call EXCEPT !.last = IF row.kind = "leave" THEN n ELSE @]) @@ lifetimes

\* INSERT OR IGNORE, then the session's own lifetime of this id is closed.
Opened(row, n) ==
  IF row.id \in DOMAIN lifetimes THEN lifetimes ELSE (row.id :> NewLifetime(row, n, "module")) @@ lifetimes
Closed(row, n) ==
  LET all == Opened(row, n) IN IF all[row.id].session = row.session THEN [all EXCEPT ![row.id].last = n] ELSE all

\* collection_closed: what is still open in the session.
AllClosed(row, n) ==
  [i \in DOMAIN lifetimes |->
     IF lifetimes[i].session = row.session /\ lifetimes[i].last = 0 THEN [lifetimes[i] EXCEPT !.last = n]
                                                                   ELSE lifetimes[i]]

\* Mutant: the observation stays when its call collides.
ObserveKept(row) ==
  LET n == Len(rows) + 1
  IN /\ n <= MaxRows
     /\ rows' = Append(rows, row)
     /\ lifetimes' = CASE row.kind \in Ends -> IF Collides(row) THEN lifetimes ELSE Advanced(row, n)
                       [] row.kind = "open" -> Opened(row, n)
                       [] row.kind = "close" -> Closed(row, n)
                       [] row.kind = "closed" -> AllClosed(row, n)
                       [] row.kind = "other" -> lifetimes
     /\ UNCHANGED reader

\* Db::observe: everything or, when the call's id collides, nothing.
Observe(row) ==
  LET n == Len(rows) + 1
  IN /\ n <= MaxRows
     /\ ~(row.kind \in Ends /\ Collides(row))
     /\ rows' = Append(rows, row)
     /\ lifetimes' = CASE row.kind \in Ends -> Advanced(row, n)
                       [] row.kind = "open" -> Opened(row, n)
                       [] row.kind = "close" -> Closed(row, n)
                       [] row.kind = "closed" -> AllClosed(row, n)
                       [] row.kind = "other" -> lifetimes
     /\ UNCHANGED reader

ObserveSomething ==
  \E s \in Sessions, k \in Kinds, i \in Ids, o \in Origins, z \in Sizes :
    Observe([session |-> s, kind |-> k, id |-> i, origin |-> o, size |-> z])

-----------------------------------------------------------------------------
(* Reading.                                                                *)

Network(n) == rows[n].kind \in Ends

\* The sequence numbers that pass a test, oldest first.
Those(Test(_)) == SelectSeq([n \in 1..Len(rows) |-> n], Test)
Own(n) == rows[n].session = reader.session

\* What a request is about.  Lifetimes are in the order they were opened.
Subjects ==
  CASE reader.mode = "offset" -> Those(LAMBDA n : Own(n) /\ Network(n))
    [] reader.mode = "observations" -> Those(Own)
    [] reader.mode = "identities" ->
         Those(LAMBDA n : Own(n) /\ \E i \in DOMAIN lifetimes : lifetimes[i].first = n)

\* What a thing costs in a page: network events that are too large get a stub.
Cost(n) ==
  IF reader.mode \in {"cursor", "offset"} /\ rows[n].size > PageSize THEN StubSize ELSE rows[n].size

TotalCost(s) ==
  LET upTo[k \in 0..Len(s)] == IF k = 0 THEN 0 ELSE upTo[k - 1] + Cost(s[k]) IN upTo[Len(s)]

\* How many of a sequence, from its start, fit into a page.
Fitting(s) ==
  Max({k \in 0..Len(s) : k <= PageItems /\ TotalCost(SubSeq(s, 1, k)) <= PageSize})

Start(s, m, upto) ==
  /\ reader = NoReader
  /\ upto # 0 => m = "cursor"
  /\ reader' = [mode |-> m, session |-> s, from |-> 0, upto |-> upto, got |-> <<>>, omitted |-> {},
                pages |-> 0, done |-> FALSE, refused |-> FALSE]
  /\ UNCHANGED <<rows, lifetimes>>

\* A page by offset: observations, identities, network_observations.
OffsetPage ==
  /\ reader.mode \in {"offset", "observations", "identities"}
  /\ ~reader.done
  /\ LET all == Subjects
         window == SubSeq(all, reader.from + 1, Min({Len(all), reader.from + PageItems + 1}))
         k == Fitting(window)
         refused == reader.mode = "offset" /\ reader.from > OffsetLimit
     IN reader' = IF refused THEN [reader EXCEPT !.done = TRUE, !.refused = TRUE]
                  ELSE [reader EXCEPT !.got = @ \o SubSeq(window, 1, k), !.from = @ + k,
                                      !.pages = @ + 1, !.done = ~(k < Len(window))]
  /\ UNCHANGED <<rows, lifetimes>>

\* Of the rows a cursor inspects, as many from the first on as have room: an
\* oversized or a foreign one takes none.
Readable(n) == rows[n].size <= ReadSize
Events(s) == SelectSeq(s, LAMBDA n : Readable(n) /\ Network(n))
Consumed(window) ==
  Max({k \in 0..Len(window) :
         \A j \in 1..k :
           LET before == Events(SubSeq(window, 1, j - 1))
               upTo == Events(SubSeq(window, 1, j))
           IN Len(before) < PageItems /\ TotalCost(upTo) <= PageSize})

\* next_from: a page without rows is the last, also before the snapshot.
NextFrom(window, k, snapshot) ==
  LET cursor == IF k = 0 THEN reader.from ELSE window[k]
  IN IF window # <<>> /\ cursor < snapshot THEN cursor ELSE NoCursor

\* A page by cursor: what was appended after the first page is not in it.
CursorPage ==
  /\ reader.mode = "cursor"
  /\ ~reader.done
  /\ LET newest == IF Those(Own) = <<>> THEN 0 ELSE Last(Those(Own))
         snapshot == IF reader.upto = 0 THEN newest ELSE Min({newest, reader.upto})
         after == Those(LAMBDA n : Own(n) /\ reader.from < n /\ n <= snapshot)
         window == SubSeq(after, 1, Min({Len(after), ScanLimit}))
         k == Consumed(window)
         taken == SubSeq(window, 1, k)
         next == NextFrom(window, k, snapshot)
     IN reader' = [reader EXCEPT !.got = @ \o Events(taken),
                                 !.omitted = @ \cup {n \in ToSet(taken) : ~Readable(n)},
                                 !.from = IF next = NoCursor THEN @ ELSE next,
                                 !.upto = snapshot,
                                 !.pages = @ + 1,
                                 !.done = (next = NoCursor)]
  /\ UNCHANGED <<rows, lifetimes>>

Read == (\E s \in Sessions, m \in Modes, upto \in Windows : Start(s, m, upto)) \/ OffsetPage \/ CursorPage

Next == ObserveSomething \/ Read

Spec == Init /\ [][Next]_vars

-----------------------------------------------------------------------------
(* Properties.                                                             *)

Calls == {i \in DOMAIN lifetimes : lifetimes[i].kind = "api_call"}
EndsOf(i) == {n \in DOMAIN rows : Network(n) /\ rows[n].id = i}

\* Types.
TypeOK ==
  /\ Len(rows) <= MaxRows
  /\ DOMAIN lifetimes \subseteq Ids
  /\ \A i \in DOMAIN lifetimes :
       /\ lifetimes[i].first \in DOMAIN rows
       /\ lifetimes[i].last \in 0..Len(rows)
       /\ lifetimes[i].last = 0 \/ lifetimes[i].first <= lifetimes[i].last
  /\ reader # NoReader => reader.mode \in Modes /\ ToSet(reader.got) \subseteq DOMAIN rows

\* A call says that it is paired only when one entry and one return of it were
\* observed, both naming the same API, process and thread; and whatever was
\* observed of a call is accounted for in it, so that an observation which
\* could not be joined to its call was not kept either.
\* Code: advance_api_call_identity; Db::observe (transaction).
PairedIsTrue ==
  /\ \A i \in Calls :
       /\ PairComplete(lifetimes[i]) =>
            /\ Cardinality(EndsOf(i)) = 2
            /\ {rows[n].kind : n \in EndsOf(i)} = Ends
            /\ Cardinality({rows[n].origin : n \in EndsOf(i)}) = 1
       /\ Cardinality(EndsOf(i)) =
            lifetimes[i].duplicates + Cardinality({k \in Ends : lifetimes[i][k] # 0})
  /\ \A n \in DOMAIN rows : Network(n) => rows[n].id \in Calls /\ lifetimes[rows[n].id].session = rows[n].session

\* Once a session's collection was closed no lifetime of what was observed
\* before is left open, nor is one of another session closed for it.
\* Code: Db::observe, collection_closed.
ClosingCloses ==
  \A i \in DOMAIN lifetimes :
    LET own == {n \in DOMAIN rows : rows[n].session = lifetimes[i].session}
    IN /\ lifetimes[i].last = 0 => ~\E n \in own : rows[n].kind = "closed" /\ n > lifetimes[i].first
       /\ lifetimes[i].last # 0 => lifetimes[i].last \in own

\* A reader who follows the cursor gets every network event of the session up
\* to the snapshot of the first page once, in order, and is told of what was
\* too large to inspect; whatever is appended meanwhile changes nothing.
\* Code: network_observations, cursor mode.
ReadsTheSnapshot ==
  reader.mode = "cursor" =>
    LET own == {n \in 1..reader.upto : n \in DOMAIN rows /\ rows[n].session = reader.session}
    IN /\ \A i, j \in DOMAIN reader.got : i < j => reader.got[i] < reader.got[j]
       /\ reader.done /\ reader.upto > 0 =>
            /\ ToSet(reader.got) = {n \in own : Network(n) /\ Readable(n)}
            /\ reader.omitted = {n \in own : ~Readable(n)}

\* A reader by offset gets the oldest of what it asks for, without a gap or a
\* repetition, though more is appended between its pages.
\* Code: observations, network_observations and identities.
ReadsWithoutGaps ==
  reader.mode \in {"offset", "observations", "identities"} => reader.got = SubSeq(Subjects, 1, Len(reader.got))

==============================================================================
