----------------------------- MODULE MCAnalysis -----------------------------
(***************************************************************************)
(* What is known of a program, on small instances: the knowledge records   *)
(* and those who read them, walks of the relations, what is recognized,    *)
(* the flow of taint and the paths it takes, native workers, and the text  *)
(* made of expressions and of control flow.  The components share no       *)
(* state, so each is checked by itself, in one run: part says which of     *)
(* them moves, the variables of the others are still.                      *)
(***************************************************************************)
EXTENDS Knowledge, Integers, SequencesExt, TLC

CONSTANTS None, Signatures

VARIABLES
  part,  \* the component that moves
  readsHead, readsPins, readsBasis, readsAnalysis, readsWrote, readsReading, readsTodo,
  readsVerdict, readsOffset, readsFresh, readsSaid, readsListed, readsBegan,
  heads, since, ask, walkPc, walkAt, rows, walkAnswer,
  index, recognizeRevision, limit, scan, recognizeAt, recognizeOffset, findings,
  partial, record, ever, changes,
  program, taintOrder, slots, tags, states, changed, taintPc, taintAt, taintCompletion,
  taintVerdict,
  graph, mode, tainted, controlled, flowLate, flowPc, pair, queue, found, searched,
  influences, candidates, flowCompletion, flowVerdict, checked, answers, queries, shown,
  unknownSeen,
  file, versions, call, digest, view, nativePc, procs, place, code, nativeWrote, pipe,
  kept, nativeRead, eof, cancel, nativeLate, result, nativeAnswer,
  ops,
  controlTerm, controlOrder, controlStage, controlRegions, controlCovered,
  controlTransfers, controlOmitted,
  pseudoTerm, pseudoOrder, pseudoStage, pseudoRegions, pseudoCovered, pseudoTransfers,
  pseudoOmitted, entries, consumed

Symmetry == Permutations(Writers) \cup Permutations(Signatures)

(* The index: a function seen in two revisions by one producer, and once by another. *)
Entity(id, anchor, producer, revision) ==
  [id |-> id, anchor |-> anchor, producer |-> producer, revision |-> revision]
Relation(id, kind, producer, revision, source, sourceAnchor, target, targetAnchor) ==
  [id |-> id, kind |-> kind, producer |-> producer, revision |-> revision, source |-> source,
   target |-> target, sourceAnchor |-> sourceAnchor, targetAnchor |-> targetAnchor]
Entities ==
  << Entity("old", "f", 1, 0), Entity("v0", None, 1, 0), Entity("f1", "f", 1, 1), Entity("g1", "g", 1, 1), Entity("v1", None, 1, 1),
     Entity("f2", "f", 1, 2), Entity("h2", "h", 1, 2), Entity("fb", "f", 2, 1), Entity("gb", "g", 2, 1), Entity("gc", "g", 2, 1) >>
Relations ==
  << Relation("r0", "uses", 1, 0, "old", "f", "v0", None),
     Relation("r1", "call", 1, 1, "f1", "f", None, "g"), Relation("r2", "uses", 1, 1, "f1", "f", "v1", None),
     Relation("r3", "call", 2, 1, "gb", "g", "fb", "f"), Relation("r4", "call", 1, 2, "f2", "f", None, "h") >>
Claims == [id \in {Entities[i].id : i \in DOMAIN Entities} |-> IF id = "f1" THEN 2 ELSE 0]
Seeds == {[by |-> "id", value |-> "f1"], [by |-> "id", value |-> "old"],
            [by |-> "anchor", value |-> "g"], [by |-> "search", value |-> "any"]}

(* Programs for the taint. *)
Op(c, i, o) == [code |-> c, in |-> i, out |-> o, params |-> <<>>, returns |-> <<>>]
Call(i, o, p, r) == [code |-> "call", in |-> i, out |-> o, params |-> p, returns |-> r]
Arg(a, b) == [from |-> a, to |-> b]

Plain == [values |-> 1..9, constants |-> <<>>, ops |-> {}, arguments |-> <<>>, memory |-> {}, stack |-> {},
          frame |-> {}, source |-> 1, target |-> 2, kind |-> "scalar", length |-> 0, address |-> 0, whole |-> TRUE]

\* 2 starts as the buffer and goes on as 3, which is 2 and an offset.
Loops ==
  {[Plain EXCEPT !.kind = "buffer", !.length = 3, !.constants = [v \in {5} |-> 1], !.memory = {6},
     !.ops = {Op(c, i, <<3>>), Op("load", <<6, a>>, <<4>>), Op("cast", <<4>>, <<7>>)},
     !.arguments = args, !.target = 7] :
     c \in {"add", "sub"}, i \in {<<2, 5>>, <<5, 2>>, <<2, 8>>}, a \in {2, 3},
     args \in {<<Arg(1, 2), Arg(3, 2)>>, <<Arg(3, 2), Arg(1, 2)>>}}

\* A value is stored at one address of the stack and loaded from another.
Stores ==
  {[Plain EXCEPT !.values = 1..12, !.constants = [v \in {5} |-> 8], !.memory = {6, 7, 8}, !.stack = {2}, !.frame = {10},
     !.ops = {Op(c, <<2, 5>>, <<3>>), Op("cast", <<2>>, <<4>>), Op("store", <<6, a, 1>>, <<7>>), Op("load", <<8, b>>, <<9>>)},
     !.arguments = <<Arg(7, 8), Arg(7, 6)>>, !.target = 9, !.whole = w] :
     c \in {"add", "sub"}, a \in {3, 10}, b \in {3, 4, 10}, w \in BOOLEAN}

\* 1 is passed to f (parameter 2, result 3), which may pass it to itself or
\* to g (parameter 4, result 5); f's parameter may also be had without a call.
Calls ==
  {[Plain EXCEPT
     !.ops = {Call(<<1>>, <<6>>, <<2>>, <<3>>), Call(<<2>>, <<7>>, callee[1], callee[2]), Op("cast", <<x>>, <<3>>),
              Op("cast", <<4>>, <<5>>)},
     !.arguments = args, !.target = target] :
     callee \in {<<<<2>>, <<3>>>>, <<<<4>>, <<5>>>>, <<<<4>>, <<>>>>, <<<<>>, <<>>>>}, x \in {2, 7},
     args \in {<<Arg(1, 8), Arg(8, 2)>>, <<Arg(6, 1)>>}, target \in {3, 5, 6}}

\* Loads of absolute addresses 3 and 4 where 4 and 5 are the source.
Absolute ==
  {[Plain EXCEPT !.kind = "memory", !.length = 2, !.address = 4, !.constants = <<1, 3, 4>>, !.memory = {6}, !.source = 9,
     !.ops = {Op("load", <<6, a>>, <<4>>), Op("load", <<6, 2>>, <<7>>), Op("add", <<4, 7>>, <<8>>)}, !.target = 8] :
     a \in {1, 2, 3}}

\* Values that only go from block to block, and a read at a buffer's end.
Phis == {[Plain EXCEPT !.ops = {Op("cast", <<4>>, <<2>>)}, !.arguments = <<Arg(3, 4), Arg(1, 3)>>]}
Ends == {[Plain EXCEPT !.kind = "buffer", !.length = 3, !.constants = [v \in {5} |-> 1], !.memory = {6}, !.target = 7,
            !.ops = {Op("add", <<1, 5>>, <<3>>), Op("add", <<3, 5>>, <<4>>), Op("load", <<6, 4>>, <<7>>)}]}

Programs == Loops \cup Stores \cup Calls \cup Absolute \cup Phis \cup Ends

(* Graphs for the paths. *)
Edge(s, d, k) == [src |-> s, dst |-> d, kind |-> k, condition |-> FALSE]
Branch(s, d) == [src |-> s, dst |-> d, kind |-> "branch", condition |-> TRUE]

Pool == <<Edge(1, 4, "call"), Edge(1, 2, "call_return"), Edge(2, 4, "call"), Edge(2, 3, "call_return"),
          Branch(4, 5), Edge(4, 6, "tailcall"), Edge(4, 5, "call_return"),
          Edge(5, 2, "return"), Edge(5, 3, "return")>>
AllGraphs == {SelectSeq(Pool, LAMBDA e : e \in S) : S \in SUBSET Range(Pool)}

\* Two ways to 3, one of them conditional, and a loop.
Diamond == {<<Branch(1, 2), Branch(1, 4), Edge(2, 3, "jump"), Edge(4, 3, "jump"), Edge(4, 1, "jump")>>}

To(s, t) == [source |-> s, target |-> t, reach |-> FALSE]
ToReach(s, t) == [source |-> s, target |-> t, reach |-> TRUE]

(* Functions by the terminators of their blocks. *)
Return == [k |-> "return", to |-> <<>>]
Goto(t) == [k |-> "goto", to |-> <<t>>]
If(t, f) == [k |-> "branch", to |-> <<t, f>>]
Switch(cases, d) == [k |-> "switch", to |-> Append(cases, d)]
Gotos(S) == {Goto(t) : t \in S}
Ifs(S) == {If(t, f) : t \in S, f \in S} \ {If(t, t) : t \in S}
Ways(S) == Gotos(S) \cup Ifs(S)

\* Four blocks, of which the second and third do anything.
FourShapes == <<Ways(2..4), Ways(1..4) \cup {Return}, Ways(1..4) \cup {Return}, {Return}>>

\* Five blocks of which the first may switch and the others close loops.
FiveShapes == <<{Goto(2), If(2, 3), Switch(<<2, 3>>, 4), Switch(<<2, 3>>, 5)},
                Gotos({3, 4, 5}) \cup {If(3, 4), If(4, 3)},
                Gotos({2, 4, 5}) \cup {Return, If(2, 4), If(4, 2)},
                Gotos({2, 5}) \cup {Return, If(2, 5), If(5, 3)}, {Return}>>

\* Four blocks of which the first may switch.
Any4 == {Return} \cup {Goto(t) : t \in 1..4} \cup {If(t, f) : t \in 1..4, f \in 1..4}
AnyShapes == <<Ways(2..4) \cup {Switch(<<2, 3>>, 4)}, Any4, Any4 \ {Return}, {Return}>>

\* A list that a revision of record 1 leaves and one of record 2 enters.
Revised == (Ids \X (1..2)) \ {<<1, 2>>, <<2, 1>>}

Reads == INSTANCE Knowledge WITH
  Fits <- Ids \X (1..2),
  Writers <- {1}, Readers <- {1}, MaxRevision <- 2, MaxAnalysis <- 2, MaxPuts <- 3, MaxPins <- 1,
  Depth <- 1, head <- readsHead, pins <- readsPins, basis <- readsBasis,
  analysis <- readsAnalysis, wrote <- readsWrote, reading <- readsReading, todo <- readsTodo,
  verdict <- readsVerdict, offset <- readsOffset, fresh <- readsFresh, said <- readsSaid,
  listed <- readsListed, began <- readsBegan
Filtered == INSTANCE Knowledge WITH
  Fits <- Revised, Analyses <- {},
  Writers <- {1}, Readers <- {1}, MaxRevision <- 2, MaxAnalysis <- 0, MaxPuts <- 4, MaxPins <- 0,
  Depth <- 0, head <- readsHead, pins <- readsPins, basis <- readsBasis,
  analysis <- readsAnalysis, wrote <- readsWrote, reading <- readsReading, todo <- readsTodo,
  verdict <- readsVerdict, offset <- readsOffset, fresh <- readsFresh, said <- readsSaid,
  listed <- readsListed, began <- readsBegan
Walk == INSTANCE GraphWalk WITH
  Newest <- <<1, 1>>, LinkCap <- 2, ClaimCap <- 1, MaxDepth <- 2, MaxLimit <- 4, MaxBudget <- 11,
  pc <- walkPc, at <- walkAt, answer <- walkAnswer
Moving == INSTANCE GraphWalk WITH
  Newest <- <<2, 1>>, LinkCap <- 2, ClaimCap <- 1, MaxDepth <- 2, MaxLimit <- 4, MaxBudget <- 6,
  pc <- walkPc, at <- walkAt, answer <- walkAnswer
Recognize == INSTANCE Recognize WITH
  Rows <- {1, 2, 3, 4}, Hits <- {1, 3, 4}, Markers <- {<<"marker", 1>>}, Page <- 2, Listed <- 1,
  MaxLimit <- 5, MaxScan <- 4, MaxChanges <- 1, MaxRevision <- 2, revision <- recognizeRevision,
  at <- recognizeAt, offset <- recognizeOffset
Taint == INSTANCE FlowTaint WITH
  FunctionDepth <- 2, MaxStates <- 0, MaxTaintBytes <- 0, Width <- 2, None <- -99,
  order <- taintOrder, pc <- taintPc, at <- taintAt, completion <- taintCompletion,
  verdict <- taintVerdict
Limited == INSTANCE FlowTaint WITH
  FunctionDepth <- 2, MaxStates <- 5, MaxTaintBytes <- 2, Width <- 2, None <- -99,
  order <- taintOrder, pc <- taintPc, at <- taintAt, completion <- taintCompletion,
  verdict <- taintVerdict
Flow == INSTANCE DirectedFlow WITH
  FunctionDepth <- 2, MaxStates <- 60, MaxQueries <- 2, MaxPaths <- 2, MayExpire <- FALSE,
  Graphs <- AllGraphs, Pairs <- <<To(1, 3), To(4, 2), To(1, 6)>>, Modes <- {"taint"},
  late <- flowLate, pc <- flowPc, completion <- flowCompletion, verdict <- flowVerdict
Checks == INSTANCE DirectedFlow WITH
  FunctionDepth <- 2, MaxStates <- 6, MaxQueries <- 2, MaxPaths <- 3, MayExpire <- TRUE,
  Graphs <- Diamond, Pairs <- <<To(1, 3), ToReach(2, 3), To(1, 4)>>,
  Modes <- {"taint", "taint_symbolic", "symbolic"}, late <- flowLate, pc <- flowPc,
  completion <- flowCompletion, verdict <- flowVerdict
Native == INSTANCE NativeWorker WITH
  OutputLimit <- 2, EnvelopeLimit <- 4, PipeRoom <- 1, None <- -99, Contents <- {1}, Calls <- 1,
  Pieces <- 2, pc <- nativePc, wrote <- nativeWrote, read <- nativeRead, late <- nativeLate,
  answer <- nativeAnswer
Repeats == INSTANCE NativeWorker WITH
  OutputLimit <- 1, EnvelopeLimit <- 4, PipeRoom <- 1, None <- -99, Contents <- {1}, Calls <- 2,
  Pieces <- 1, pc <- nativePc, wrote <- nativeWrote, read <- nativeRead, late <- nativeLate,
  answer <- nativeAnswer
Memory == INSTANCE ExpressionView WITH
  MaxDepth <- 8, MaxNodes <- 64, MaxBlocks <- 2, Alphabet <- {"load", "store", "call"},
  Inputs <- {-1}, MaxOps <- 4
Logic == INSTANCE ExpressionView WITH
  MaxDepth <- 8, MaxNodes <- 64, MaxBlocks <- 1,
  Alphabet <- {"eq", "ult", "xor", "same", "or", "trunc", "zext"}, Inputs <- {-1, -3, -4}, MaxOps <- 3
Orders == INSTANCE ExpressionView WITH
  MaxDepth <- 8, MaxNodes <- 64, MaxBlocks <- 1, Alphabet <- {"eq", "ult", "same", "zext"},
  Inputs <- {-1, -3, -4}, MaxOps <- 4
Flagged == INSTANCE ExpressionView WITH
  MaxDepth <- 8, MaxNodes <- 64, MaxBlocks <- 1, Alphabet <- {"load", "flags", "zf", "cf", "or"},
  Inputs <- {-1}, MaxOps <- 5
Cut == INSTANCE ExpressionView WITH
  MaxDepth <- 2, MaxNodes <- 3, MaxBlocks <- 1, Alphabet <- {"select", "eq", "or"},
  Inputs <- {-1, -3}, MaxOps <- 3
Control == INSTANCE ControlView WITH
  N <- 4, Shapes <- AnyShapes, MaxRegions <- 3, MaxTransfers <- 5, term <- controlTerm,
  order <- controlOrder, stage <- controlStage, regions <- controlRegions,
  covered <- controlCovered, transfers <- controlTransfers, omitted <- controlOmitted
Pseudo == INSTANCE Pseudo WITH
  N <- 4, Shapes <- FourShapes, MaxRegions <- 20, MaxTransfers <- 20, Bare <- {2, 3},
  term <- pseudoTerm, order <- pseudoOrder, stage <- pseudoStage, regions <- pseudoRegions,
  covered <- pseudoCovered, transfers <- pseudoTransfers, omitted <- pseudoOmitted
Structured == INSTANCE Pseudo WITH
  N <- 5, Shapes <- FiveShapes, MaxRegions <- 20, MaxTransfers <- 20, Bare <- 1..4,
  term <- pseudoTerm, order <- pseudoOrder, stage <- pseudoStage, regions <- pseudoRegions,
  covered <- pseudoCovered, transfers <- pseudoTransfers, omitted <- pseudoOmitted

Parts == {"writes", "reads", "filtered", "still", "moves", "recognize", "taint", "limits", "paths",
           "checks", "native", "repeats", "memory", "logic", "orders", "flags", "cut", "control",
           "pseudo", "structured"}

\* What the variables of a component are while another one moves.
Still == "still"
ReadsRests ==
  /\ readsHead = Still /\ readsPins = Still /\ readsBasis = Still
  /\ readsAnalysis = Still /\ readsWrote = Still /\ readsReading = Still
  /\ readsTodo = Still /\ readsVerdict = Still /\ readsOffset = Still
  /\ readsFresh = Still /\ readsSaid = Still /\ readsListed = Still
  /\ readsBegan = Still
WalkRests ==
  /\ heads = Still /\ since = Still /\ ask = Still /\ walkPc = Still /\ walkAt = Still
  /\ rows = Still /\ walkAnswer = Still
RecognizeRests ==
  /\ index = Still /\ recognizeRevision = Still /\ limit = Still /\ scan = Still
  /\ recognizeAt = Still /\ recognizeOffset = Still /\ findings = Still
  /\ partial = Still /\ record = Still /\ ever = Still /\ changes = Still
TaintRests ==
  /\ program = Still /\ taintOrder = Still /\ slots = Still /\ tags = Still
  /\ states = Still /\ changed = Still /\ taintPc = Still /\ taintAt = Still
  /\ taintCompletion = Still /\ taintVerdict = Still
FlowRests ==
  /\ graph = Still /\ mode = Still /\ tainted = Still /\ controlled = Still
  /\ flowLate = Still /\ flowPc = Still /\ pair = Still /\ queue = Still
  /\ found = Still /\ searched = Still /\ influences = Still /\ candidates = Still
  /\ flowCompletion = Still /\ flowVerdict = Still /\ checked = Still /\ answers = Still
  /\ queries = Still /\ shown = Still /\ unknownSeen = Still
NativeRests ==
  /\ file = Still /\ versions = Still /\ call = Still /\ digest = Still
  /\ view = Still /\ nativePc = Still /\ procs = Still /\ place = Still
  /\ code = Still /\ nativeWrote = Still /\ pipe = Still /\ kept = Still
  /\ nativeRead = Still /\ eof = Still /\ cancel = Still /\ nativeLate = Still
  /\ result = Still /\ nativeAnswer = Still
ViewRests == ops = Still
ControlRests ==
  /\ controlTerm = Still /\ controlOrder = Still /\ controlStage = Still
  /\ controlRegions = Still /\ controlCovered = Still /\ controlTransfers = Still
  /\ controlOmitted = Still
PseudoRests ==
  /\ pseudoTerm = Still /\ pseudoOrder = Still /\ pseudoStage = Still
  /\ pseudoRegions = Still /\ pseudoCovered = Still /\ pseudoTransfers = Still
  /\ pseudoOmitted = Still /\ entries = Still /\ consumed = Still

readsVars == <<readsHead, readsPins, readsBasis, readsAnalysis, readsWrote, readsReading,
               readsTodo, readsVerdict, readsOffset, readsFresh, readsSaid, readsListed,
               readsBegan>>
walkVars == <<heads, since, ask, walkPc, walkAt, rows, walkAnswer>>
recognizeVars == <<index, recognizeRevision, limit, scan, recognizeAt, recognizeOffset, findings,
                   partial, record, ever, changes>>
taintVars == <<program, taintOrder, slots, tags, states, changed, taintPc, taintAt,
               taintCompletion, taintVerdict>>
flowVars == <<graph, mode, tainted, controlled, flowLate, flowPc, pair, queue, found, searched,
              influences, candidates, flowCompletion, flowVerdict, checked, answers, queries,
              shown, unknownSeen>>
nativeVars == <<file, versions, call, digest, view, nativePc, procs, place, code, nativeWrote,
                pipe, kept, nativeRead, eof, cancel, nativeLate, result, nativeAnswer>>
viewVars == <<ops>>
controlVars == <<controlTerm, controlOrder, controlStage, controlRegions, controlCovered,
                 controlTransfers, controlOmitted>>
pseudoVars == <<pseudoTerm, pseudoOrder, pseudoStage, pseudoRegions, pseudoCovered,
                pseudoTransfers, pseudoOmitted, entries, consumed>>
allVars == <<part, vars, readsVars, walkVars, recognizeVars, taintVars, flowVars, nativeVars,
             viewVars, controlVars, pseudoVars>>

Start ==
  /\ part \in Parts
  /\ Init
  /\ CASE part = "reads" -> Reads!Init
       [] part = "filtered" -> Filtered!Init
       [] OTHER -> ReadsRests
  /\ CASE part = "still" -> Walk!Init
       [] part = "moves" -> Moving!Init
       [] OTHER -> WalkRests
  /\ IF part = "recognize" THEN Recognize!Init ELSE RecognizeRests
  /\ CASE part = "taint" -> Taint!Init
       [] part = "limits" -> Limited!Init
       [] OTHER -> TaintRests
  /\ CASE part = "paths" -> Flow!Init
       [] part = "checks" -> Checks!Init
       [] OTHER -> FlowRests
  /\ CASE part = "native" -> Native!Init
       [] part = "repeats" -> Repeats!Init
       [] OTHER -> NativeRests
  /\ CASE part = "memory" -> Memory!Init
       [] part = "logic" -> Logic!Init
       [] part = "orders" -> Orders!Init
       [] part = "flags" -> Flagged!Init
       [] part = "cut" -> Cut!Init
       [] OTHER -> ViewRests
  /\ IF part = "control" THEN Control!Init ELSE ControlRests
  /\ CASE part = "pseudo" -> Pseudo!PInit
       [] part = "structured" -> Structured!PInit
       [] OTHER -> PseudoRests

SideStep ==
  /\ UNCHANGED part
  /\ IF part = "writes" THEN Next ELSE UNCHANGED vars
  /\ CASE part = "reads" -> Reads!Next
       [] part = "filtered" -> Filtered!Next
       [] OTHER -> UNCHANGED readsVars
  /\ CASE part = "still" -> Walk!Next
       [] part = "moves" -> Moving!Next
       [] OTHER -> UNCHANGED walkVars
  /\ IF part = "recognize" THEN Recognize!Next ELSE UNCHANGED recognizeVars
  /\ CASE part = "taint" -> Taint!Next
       [] part = "limits" -> Limited!Next
       [] OTHER -> UNCHANGED taintVars
  /\ CASE part = "paths" -> Flow!Next
       [] part = "checks" -> Checks!Next
       [] OTHER -> UNCHANGED flowVars
  /\ CASE part = "native" -> Native!Next
       [] part = "repeats" -> Repeats!Next
       [] OTHER -> UNCHANGED nativeVars
  /\ CASE part = "memory" -> Memory!Next
       [] part = "logic" -> Logic!Next
       [] part = "orders" -> Orders!Next
       [] part = "flags" -> Flagged!Next
       [] part = "cut" -> Cut!Next
       [] OTHER -> UNCHANGED viewVars
  /\ IF part = "control" THEN Control!Next ELSE UNCHANGED controlVars
  /\ CASE part = "pseudo" -> Pseudo!PNext
       [] part = "structured" -> Structured!PNext
       [] OTHER -> UNCHANGED pseudoVars

Side == Start /\ [][SideStep]_allVars

ASSUME Control!ControlAssumption
ASSUME Pseudo!PseudoAssumption /\ Structured!PseudoAssumption
ASSUME Memory!ViewAssumption /\ Logic!ViewAssumption /\ Orders!ViewAssumption
       /\ Flagged!ViewAssumption /\ Cut!ViewAssumption

-----------------------------------------------------------------------------

\* knowledge read, list and impact, relation_walk, recognize and native workers,
\* while records are revised and added and processes outlive their leader: what
\* a reader is told is current was so when its record was loaded, what it is
\* told is stale stays so, an ended list has shown every record that was in it
\* when it began unless a revision took that record or an earlier one out of it,
\* and whatever becomes stale was in the impact of the change; an answer that is
\* not partial lacks nothing within its bounds and has nothing superseded before
\* it, and the bounds hold; a finding pins the revisions that were compared; and
\* output is called complete only when all that was written was read and nothing
\* of the worker's group runs.
CompleteIsTrue ==
  [][/\ part = "reads" => Reads!TypeOK' /\ Reads!CurrentWasFresh' /\ Reads!StaleIsStale'
                          /\ Reads!ListShowsAll' /\ Reads!StaleIsImpacted
     /\ part = "filtered" => Filtered!TypeOK' /\ Filtered!ListShowsAll'
     /\ part = "still" => Walk!TypeOK' /\ Walk!CompleteUnlessPartial' /\ Walk!BoundsHold'
     /\ part = "moves" => Moving!TypeOK' /\ Moving!NothingOlder' /\ Moving!BoundsHold'
     /\ part = "recognize" => Recognize!CompleteUnlessPartial' /\ Recognize!FoundWithinBounds'
                              /\ Recognize!PinsWhatItCompared'
     /\ part = "native" => Native!TypeOK' /\ Native!OutputCompleteIsTrue'
                           /\ Native!NothingLeftRunning' /\ Native!CompleteIsAsked'
                           /\ Native!EnvelopeWithin'
     /\ part = "repeats" => Repeats!TypeOK' /\ Repeats!OutputCompleteIsTrue'
                            /\ Repeats!NothingLeftRunning']_allVars

\* directed_flow: no flow is said only when the policy has none, whatever order
\* the operations are met in, a flow that is named is one the policy has, with
\* the fewest calls if the sweep ended by itself, and no byte beyond its buffer
\* is tainted; a path is one the program can take, a search that runs dry
\* without one had no target within its depth, and a feasible path is the
\* candidate the solver was asked of, within the number of queries allowed.
FlowIsTrue ==
  /\ part = "taint" => Taint!TypeOK /\ Taint!NoFlowIsTrue /\ Taint!FlowIsDue /\ Taint!DepthIsLeast
                        /\ Taint!RangeInBuffer
  /\ part = "limits" => Limited!TypeOK /\ Limited!NoFlowIsTrue /\ Limited!FlowIsDue
  /\ part = "paths" => Flow!TypeOK /\ Flow!PathsAreWalks /\ Flow!GoalIsFound
  /\ part = "checks" => Checks!TypeOK /\ Checks!PathsAreWalks /\ Checks!FeasibleIsItsPath
                         /\ Checks!QueriesBounded

\* render_value, control_view and agent_pseudo: the text of a value, read where
\* it is computed, gives that value in every environment, unless a negation
\* turned a comparison inside an operand, and says when it was cut; every block
\* and edge is shown or counted as omitted; and the pseudo text, ifs, loops and
\* switches included, goes where the function goes, between blocks outside the
\* structures that are misprinted: a loop left when its condition holds, and one
\* whose inside or join is come to from elsewhere or whose join is not after it.
TextIsTrue ==
  /\ part = "memory" => Memory!TextMeansValue
  /\ part = "logic" => Logic!TextMeansValue
  /\ part = "orders" => Orders!TextMeansValue
  /\ part = "flags" => Flagged!TextMeansValue
  /\ part = "cut" => Cut!CutIsSaid
  /\ part = "control" => Control!EveryBlockShown /\ Control!EveryEdgeShown
  /\ part = "pseudo" => Pseudo!TextIsFaithful
  /\ part = "structured" => Structured!TextIsFaithful
=============================================================================
