---------------------------- MODULE AnalysisOpen ----------------------------
(***************************************************************************)
(* The life of an AnalysisSession (components/airece/src/session/          *)
(* analysis_session.cpp): a thread opens it, loading the binary, building  *)
(* the graph and the inventory, while a DeadlineWatchdog waits to request  *)
(* the session's cancel token; then the caller asks it for views and a     *)
(* symbolic context, and destroys it.                                      *)
(***************************************************************************)
EXTENDS Naturals, Sequences

CONSTANT None

Tokens == {"caller", "owned"}
ASSUME OpenAssumption == None \notin Tokens \cup {"waiting", "fired", "ended"}

VARIABLES
  opts,       \* [token, wall, ir]: what the caller asks for
  stage,      \* of the thread that opens, uses and destroys the session
  alive,      \* the objects of the session that exist
  token,      \* options_.cancellation
  watch,      \* the watchdog's thread: None, waiting, fired, ended
  finished,   \* DeadlineWatchdog::finished_
  requested,  \* the tokens somebody requested
  states,     \* loader_result_.state and cfg_result_.state
  result,     \* what open gives back: session, partial_session or neither
  used        \* the objects that the last view used

vars == <<opts, stage, alive, token, watch, finished, requested, states, result, used>>

\* What an object refers to, and must not outlive.
RefersTo == [symbolic |-> {"owned"}, expression |-> {"cfg"}, variable |-> {"cfg"},
             compact |-> {"cfg", "binary"}, cfg |-> {}, binary |-> {}, owned |-> {}]
Objects == DOMAIN RefersTo

Init ==
  /\ opts \in [token : BOOLEAN, wall : BOOLEAN, ir : BOOLEAN]
  /\ stage = "construct"
  /\ alive = {} /\ token = None
  /\ watch = None /\ finished = FALSE /\ requested = {}
  /\ states = [loader |-> "failed", cfg |-> "failed"]
  /\ result = None /\ used = {}

\* A stage that a requested token stops does not come out complete.
StageOutcomes(t) == {"failed", "partial"} \cup (IF t \in requested THEN {} ELSE {"complete"})

-----------------------------------------------------------------------------
(* Opening *)

\* The constructor makes a token of its own for a deadline that has none; that
\* may fail.  The watchdog then starts when there is a token and a deadline.
Construct ==
  /\ stage = "construct"
  /\ \E made \in BOOLEAN :
       /\ made => opts.wall /\ ~opts.token
       /\ alive' = IF made THEN {"owned"} ELSE {}
       /\ token' = IF opts.token THEN "caller" ELSE IF made THEN "owned" ELSE None
  /\ watch' = IF token' # None /\ opts.wall THEN "waiting" ELSE None
  /\ stage' = "load"
  /\ UNCHANGED <<opts, finished, requested, states, result, used>>

\* The loader is given the caller's options, so only the caller's token.
Load ==
  /\ stage = "load"
  /\ \E o \in StageOutcomes(IF opts.token THEN "caller" ELSE None) :
       /\ states' = [states EXCEPT !.loader = o]
       /\ IF o = "failed" THEN stage' = "stop" /\ UNCHANGED alive
          ELSE stage' = "cfg" /\ alive' = alive \cup {"binary"}
  /\ UNCHANGED <<opts, token, watch, finished, requested, result, used>>

\* build_cfg fails: the graph may be there already, when it is the verifier
\* that fails.
CfgFails ==
  /\ stage = "cfg"
  /\ \E verifier \in BOOLEAN :
       /\ verifier => opts.ir
       /\ alive' = alive \cup (IF verifier THEN {"cfg"} ELSE {})
       /\ \E o \in StageOutcomes(token) :
            /\ ~verifier => o = "failed"
            /\ states' = [states EXCEPT !.cfg = o]
  /\ result' = "partial" /\ stage' = "stop"
  /\ UNCHANGED <<opts, token, watch, finished, requested, used>>

CfgBuilt ==
  /\ stage = "cfg"
  /\ \E o \in StageOutcomes(token) \ {"failed"} : states' = [states EXCEPT !.cfg = o]
  /\ alive' = alive \cup {"cfg"} \cup (IF opts.ir THEN {"expression"} ELSE {})
  /\ stage' = "inventory"
  /\ UNCHANGED <<opts, token, watch, finished, requested, result, used>>

\* An invalid record leaves neither a session nor a partial one.
BuildInventory ==
  /\ stage = "inventory"
  /\ \/ result' = result /\ UNCHANGED alive
     \/ /\ result' = "session"
        /\ alive' = alive \cup (IF opts.ir THEN {"variable", "compact"} ELSE {})
  /\ stage' = "stop"
  /\ UNCHANGED <<opts, token, watch, finished, requested, states, used>>

-----------------------------------------------------------------------------
(* The watchdog *)

\* Mutant: the deadline does not look whether the work is finished.
FireAnyway == watch = "waiting" /\ watch' = "fired"

\* The wait times out with the lock held and the work not finished.
Fire == watch = "waiting" /\ ~finished /\ watch' = "fired"

DeadlineFires ==
  /\ Fire
  /\ requested' = requested \cup {token}
  /\ UNCHANGED <<opts, stage, alive, token, finished, states, result, used>>

WatchEnds ==
  /\ watch = "fired" \/ (watch = "waiting" /\ finished)
  /\ watch' = "ended"
  /\ UNCHANGED <<opts, stage, alive, token, finished, requested, states, result, used>>

Finish == finished' = TRUE

\* ~DeadlineWatchdog, before the session that open does not give back is
\* destroyed: it says the work is finished, and joins the thread.
Stop ==
  /\ stage = "stop"
  /\ Finish /\ stage' = "join"
  /\ UNCHANGED <<opts, alive, token, watch, requested, states, result, used>>

\* Mutant: the thread is not waited for.
JoinedNever == stage = "join"

Joined == stage = "join" /\ watch \in {None, "ended"}

Join ==
  /\ Joined
  /\ stage' = IF result = None THEN "drop" ELSE "use"
  /\ UNCHANGED <<opts, alive, token, watch, finished, requested, states, result, used>>

-----------------------------------------------------------------------------
(* Using *)

\* A view that was not built is answered as incomplete.
Available(view) == view \in alive

View(view) ==
  /\ stage = "use"
  /\ used' = IF Available(view)
             THEN {view, "cfg"} \cup (IF view = "compact" THEN {"variable", "binary"} ELSE {})
             ELSE {}
  /\ UNCHANGED <<opts, stage, alive, token, watch, finished, requested, states, result>>

\* symbolic_context: made once, with the token of the session's options.
SymbolicContext ==
  /\ stage = "use" /\ "symbolic" \notin alive
  /\ \E made \in BOOLEAN : alive' = IF made THEN alive \cup {"symbolic"} ELSE alive
  /\ UNCHANGED <<opts, stage, token, watch, finished, requested, states, result, used>>

CallerRequests ==
  /\ opts.token /\ "caller" \notin requested
  /\ requested' = requested \cup {"caller"}
  /\ UNCHANGED <<opts, stage, alive, token, watch, finished, states, result, used>>

Close ==
  /\ stage = "use"
  /\ stage' = "drop" /\ used' = {}
  /\ UNCHANGED <<opts, alive, token, watch, finished, requested, states, result>>

Teardown == <<"symbolic", "compact", "variable", "expression", "cfg", "binary", "owned">>

\* ~AnalysisSession, one object at a time.
Destroy ==
  /\ stage = "drop"
  /\ \/ \E i \in DOMAIN Teardown :
          /\ Teardown[i] \in alive
          /\ \A j \in 1..(i - 1) : Teardown[j] \notin alive
          /\ alive' = alive \ {Teardown[i]}
          /\ UNCHANGED stage
     \/ alive = {} /\ stage' = "gone" /\ UNCHANGED alive
  /\ UNCHANGED <<opts, token, watch, finished, requested, states, result, used>>

-----------------------------------------------------------------------------
Opening == Construct \/ Load \/ CfgFails \/ CfgBuilt \/ BuildInventory \/ Stop \/ Join
Watching == DeadlineFires \/ WatchEnds
Using ==
  \/ \E v \in {"expression", "variable", "compact"} : View(v)
  \/ SymbolicContext \/ CallerRequests \/ Close
Next == Opening \/ Watching \/ Using \/ Destroy

\* Threads run on, and the clock does.
Spec == Init /\ [][Next]_vars /\ WF_vars(Opening) /\ WF_vars(WatchEnds)

-----------------------------------------------------------------------------
(* Properties *)

\* What a thread or an object refers to exists as long as it does: the
\* watchdog is joined before a token it may request is destroyed, and the
\* destructor takes users before what they use (analysis_session.cpp:92, 148).
NothingDangles ==
  /\ watch = "waiting" /\ token = "owned" => "owned" \in alive
  /\ \A o \in alive : RefersTo[o] \ {"owned"} \subseteq alive
  /\ "symbolic" \in alive /\ token = "owned" => "owned" \in alive

\* The deadline is over when open returns: it never cancels what the caller
\* does with the session later (analysis_session.cpp:84).
DeadlineEndsWithOpen ==
  [][requested' # requested /\ stage \in {"join", "drop", "use", "gone"} => CallerRequests]_vars

\* A view of a partial session is answered without what was not built
\* (analysis_session.cpp:596, 612, 664, 680).
ViewsUseWhatIsThere == used \subseteq alive

\* No thread, object or view of a session uses what is gone or was not built.
OpenIsSafe == NothingDangles /\ ViewsUseWhatIsThere

=============================================================================
