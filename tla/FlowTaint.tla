------------------------------ MODULE FlowTaint ------------------------------
(***************************************************************************)
(* The taint half of directed_flow.cpp: from the values of one source,     *)
(* tags are pushed over the operations of a program and over the arguments *)
(* of its blocks until a sweep changes nothing or a limit stops it, and    *)
(* the tags of the target give the verdict.                                *)
(*                                                                         *)
(* A program is a set of operations on values of one assignment each.      *)
(* `order' is the order collect_operations finds them in, which is that of *)
(* the functions and blocks of the graph and not that of execution: every  *)
(* order is tried.  The tags of a value are a set with one member of a     *)
(* key, the code's vector.  How a tag was transformed, in words, is left   *)
(* out.                                                                    *)
(***************************************************************************)
EXTENDS Integers, FiniteSets, SequencesExt

CONSTANTS
  Programs,       \* the programs tried; see Init for their fields
  FunctionDepth,  \* calls a tag may cross
  MaxStates,      \* tags altogether, 0 for no limit
  MaxTaintBytes,  \* bytes of a buffer that are followed, 0 for no limit
  Width,          \* bytes a load reads
  None

VARIABLES
  program, order,
  slots,      \* StorageOffsets: values known to be at an offset of the stack
  tags, states, changed,
  pc,         \* seed, recover, sweep or done
  at,         \* the operation the sweep is about to push, or one past the last
  completion, verdict
vars == <<program, order, slots, tags, states, changed, pc, at, completion, verdict>>

Values == program.values
Const(v) == IF v \in DOMAIN program.constants THEN program.constants[v] ELSE None
Least(a, b) == IF a < b THEN a ELSE b
Greatest(a, b) == IF a > b THEN a ELSE b

\* The bytes of the source's buffer that a tag may name.
Bytes == IF MaxTaintBytes = 0 THEN program.length ELSE Least(program.length, MaxTaintBytes)

Init ==
  /\ program \in Programs
  /\ order \in SetToSeqs(program.ops)
  /\ slots = [v \in program.stack |-> 0] /\ tags = [v \in program.values |-> {}]
  /\ states = 0 /\ changed = TRUE /\ pc = "seed" /\ at = 1
  /\ completion = "complete" /\ verdict = "unknown"

-----------------------------------------------------------------------------
(* Storage offsets.                                                        *)

\* recover_storage_offsets: one operation.  What is found first stays.
Recovered(known, op) ==
  LET base == op.in[1]
      k == IF op.code \in {"add", "sub"} /\ Len(op.in) = 2 THEN Const(op.in[2]) ELSE None
      offset == IF base \notin DOMAIN known THEN None
                ELSE IF op.code = "cast" THEN known[base]
                ELSE IF k = None THEN None
                ELSE known[base] + (IF op.code = "sub" THEN -k ELSE k)
  IN IF offset = None THEN known ELSE known @@ [v \in Range(op.out) |-> offset]

Carried(known, arg) ==
  IF arg.from \in DOMAIN known THEN known @@ [v \in {arg.to} |-> known[arg.from]] ELSE known

Recover ==
  /\ pc = "recover"
  /\ LET next == FoldLeft(Carried, FoldLeft(Recovered, slots, order), program.arguments)
     IN /\ slots' = next
        /\ IF next = slots THEN pc' = "sweep" /\ changed' = TRUE ELSE UNCHANGED <<pc, changed>>
  /\ UNCHANGED <<program, order, tags, states, at, completion, verdict>>

\* resolved_storage_offset: a frame pointer by name is taken for offset 0.
Slot(v) == IF v \in DOMAIN slots THEN slots[v] ELSE IF v \in program.frame THEN 0 ELSE None

-----------------------------------------------------------------------------
(* Tags.                                                                   *)

Fresh == [bytes |-> FALSE, pointer |-> FALSE, exact |-> FALSE, begin |-> 0, end |-> 0,
          depth |-> 0, storage |-> FALSE, slot |-> None]
Key(t) == <<t.bytes, t.pointer, t.storage, t.slot>>

Merged(t, u) ==
  LET b == Least(t.begin, u.begin)  e == Greatest(t.end, u.end)
  IN [t EXCEPT !.begin = b, !.end = e, !.depth = Least(t.depth, u.depth),
               !.exact = t.exact /\ u.exact /\ b = e]

\* add_tag, on a record of the tags, their number and whether any changed.
AddTag(s, v, u) ==
  LET same == {t \in s.tags[v] : Key(t) = Key(u)}
      with == {Merged(t, u) : t \in same}
      moved == \E t \in same : <<Merged(t, u).begin, Merged(t, u).end, Merged(t, u).depth>>
                                 # <<t.begin, t.end, t.depth>>
  IN IF same # {} THEN [s EXCEPT !.tags[v] = (@ \ same) \cup with, !.changed = @ \/ moved]
     ELSE IF MaxStates # 0 /\ s.states >= MaxStates THEN s
     ELSE [s EXCEPT !.tags[v] = @ \cup {u}, !.states = @ + 1, !.changed = TRUE]

AddAll(s, v, us) == FoldSet(LAMBDA u, acc : AddTag(acc, v, u), s, us)

Now == [tags |-> tags, states |-> states, changed |-> changed]
Keep(s) == tags' = s.tags /\ states' = s.states /\ changed' = s.changed

\* seed_absolute_memory: a load from an address of the source's range.
AbsoluteTag(op) ==
  LET a == Const(op.in[2])
  IN IF a = None \/ a < program.address \/ a >= program.address + program.length THEN {}
     ELSE {[Fresh EXCEPT !.bytes = TRUE, !.exact = TRUE, !.begin = a - program.address,
             !.end = Least(program.length - 1, a - program.address + Width - 1)]}

Seed ==
  /\ pc = "seed" /\ pc' = "recover"
  /\ Keep(CASE program.kind = "memory" ->
                 FoldLeft(LAMBDA s, op : IF op.code = "load" THEN AddAll(s, op.out[1], AbsoluteTag(op)) ELSE s,
                          Now, order)
            [] program.kind = "buffer" ->
                 AddTag(Now, program.source, [Fresh EXCEPT !.bytes = TRUE, !.pointer = TRUE, !.exact = TRUE])
            [] OTHER -> AddTag(Now, program.source, Fresh))
  /\ completion' = IF program.kind # "scalar" /\ MaxTaintBytes # 0 /\ program.length > MaxTaintBytes
                   THEN "limited" ELSE completion
  /\ UNCHANGED <<program, order, slots, at, verdict>>

-----------------------------------------------------------------------------
(* propagate_operation.                                                    *)

\* A tag crosses a call only within the depth allowed.
Crossed(s, from, to) ==
  AddAll(s, to, {[t EXCEPT !.depth = @ + 1] : t \in {u \in s.tags[from] : u.depth < FunctionDepth}})

Pairs(a, b) == {<<a[i], b[i]>> : i \in 1..Least(Len(a), Len(b))}

\* Arguments to the callee's parameters, its returns to the call's results.
Called(s, op) ==
  LET cross(acc, p) == Crossed(acc, p[1], p[2])
      scalars == SelectSeq(op.in, LAMBDA v : v \notin program.memory)
      results == SelectSeq(op.out, LAMBDA v : v \notin program.memory)
      entered == FoldSet(LAMBDA p, acc : cross(acc, p), s, Pairs(scalars, op.params))
  IN FoldSet(LAMBDA p, acc : cross(acc, p), entered, Pairs(op.returns, results))

\* The tags of the inputs; what a store writes is tagged as stored at a slot.
Incoming(s, op) ==
  UNION {IF op.code = "store" /\ i = 3
         THEN {[t EXCEPT !.storage = TRUE, !.slot = Slot(op.in[2])] : t \in s.tags[op.in[i]]}
         ELSE s.tags[op.in[i]] : i \in {j \in DOMAIN op.in : op.code # "store" \/ j # 2}}

\* A load takes what may be stored at its slot, and the bytes of a pointer.
Loaded(op, t) ==
  LET slot == Slot(op.in[2])
  IN IF t.storage
     THEN IF t.slot # None /\ slot # None /\ t.slot # slot THEN {}
          ELSE {[t EXCEPT !.storage = FALSE, !.slot = None]}
     ELSE IF ~(t.pointer /\ t.bytes) THEN {t}
     ELSE IF t.exact
     THEN {[t EXCEPT !.pointer = FALSE,
             !.end = Least(IF Bytes = 0 THEN t.begin + Width - 1 ELSE Bytes - 1, t.begin + Width - 1)]}
     ELSE {[t EXCEPT !.pointer = FALSE, !.begin = 0, !.end = IF Bytes = 0 THEN Width - 1 ELSE Bytes - 1]}

\* An offset added to a pointer, or taken from it.
Moved(op, t) ==
  LET left == tags[op.in[1]] # {}
      k == IF left THEN Const(op.in[2]) ELSE IF op.code = "add" THEN Const(op.in[1]) ELSE None
      minus == left /\ op.code = "sub"
      b == IF minus THEN t.begin - k ELSE t.begin + k
  IN IF ~(t.pointer /\ t.bytes) THEN t
     ELSE IF k = None THEN [t EXCEPT !.exact = FALSE]
     ELSE IF minus /\ k > t.begin THEN [t EXCEPT !.exact = FALSE, !.end = t.begin]
     ELSE [t EXCEPT !.begin = b, !.end = b]

Transformed(s, op) ==
  LET came == Incoming(s, op)
  IN IF op.code = "load" THEN UNION {Loaded(op, t) : t \in came}
     ELSE IF op.code \in {"add", "sub"} /\ Len(op.in) = 2 THEN {Moved(op, t) : t \in came}
     ELSE came

\* A callee without a modelled return is summarised like an unknown one.
Propagated(s, op) ==
  LET called == IF op.code = "call" THEN Called(s, op) ELSE s
  IN IF op.code = "call" /\ op.returns # <<>> THEN called
     ELSE LET us == Transformed(called, op)
          IN FoldLeft(LAMBDA acc, v : AddAll(acc, v, us), called, op.out)

-----------------------------------------------------------------------------
(* The loop of directed_flow.                                              *)

Limited == MaxStates # 0 /\ states >= MaxStates

Judge(c) ==
  /\ completion' = IF c = "complete" /\ ~program.whole THEN "unknown" ELSE c
  /\ verdict' = IF tags[program.target] # {} THEN "may_flow"
                ELSE IF completion' = "complete" THEN "no_flow" ELSE "unknown"
  /\ pc' = "done" /\ UNCHANGED <<program, order, slots, tags, states, changed, at>>

\* stopped: looked at before a sweep and after every operation, and not after
\* a sweep that changed nothing.
Stop ==
  /\ pc = "sweep" /\ (at = 0 => changed)
  /\ \/ Limited /\ Judge("limited")
     \/ \E c \in {"timeout", "canceled"} : Judge(c)

Propagate ==
  /\ pc = "sweep" /\ at \in DOMAIN order /\ ~Limited
  /\ Keep(Propagated(Now, order[at])) /\ at' = at + 1
  /\ UNCHANGED <<program, order, slots, pc, completion, verdict>>

\* Mutant: what block arguments change makes no further sweep.
PropagateBlockArgumentsMuted ==
  /\ pc = "sweep" /\ at = Len(order) + 1 /\ ~Limited
  /\ LET s == FoldLeft(LAMBDA acc, a : AddAll(acc, a.to, acc.tags[a.from]), Now, program.arguments)
     IN Keep([s EXCEPT !.changed = changed])
  /\ at' = 0 /\ UNCHANGED <<program, order, slots, pc, completion, verdict>>

PropagateBlockArguments ==
  /\ pc = "sweep" /\ at = Len(order) + 1 /\ ~Limited
  /\ Keep(FoldLeft(LAMBDA s, a : AddAll(s, a.to, s.tags[a.from]), Now, program.arguments))
  /\ at' = 0 /\ UNCHANGED <<program, order, slots, pc, completion, verdict>>

\* The end of a sweep: another one if it changed anything.
SweepAgain ==
  /\ pc = "sweep" /\ at = 0
  /\ IF changed
     THEN ~Limited /\ at' = 1 /\ changed' = FALSE
          /\ UNCHANGED <<program, order, slots, tags, states, pc, completion, verdict>>
     ELSE Judge(completion)

Next == Seed \/ Recover \/ Stop \/ Propagate \/ PropagateBlockArguments \/ SweepAgain

Spec == Init /\ [][Next]_vars
\* The loop is one thread's.
FairSpec == Spec /\ WF_vars(Next)

-----------------------------------------------------------------------------
(* The policy, as the least set of facts closed under its rules, whatever  *)
(* the order they are used in.                                             *)

\* A fact of a value: the kind of tag it has and the calls it took.
Fact(v, t, d) == [v |-> v, bytes |-> t.bytes, pointer |-> t.pointer, storage |-> t.storage,
                  slot |-> t.slot, depth |-> d]
At(F, v) == {f \in F : f.v = v}
Out(op, fs) == {[f EXCEPT !.v = v] : f \in fs, v \in Range(op.out)}

Consequences(F, op) ==
  LET scalars == SelectSeq(op.in, LAMBDA v : v \notin program.memory)
      results == SelectSeq(op.out, LAMBDA v : v \notin program.memory)
      over == Pairs(scalars, op.params) \cup Pairs(op.returns, results)
      ins == UNION {At(F, op.in[i]) : i \in DOMAIN op.in}
      slot == Slot(op.in[2])
  IN CASE op.code = "call" ->
            {[f EXCEPT !.v = p[2], !.depth = @ + 1] :
               <<f, p>> \in {<<f, p>> \in F \X over : f.v = p[1] /\ f.depth < FunctionDepth}}
              \cup IF op.returns = <<>> THEN Out(op, ins) ELSE {}
       [] op.code = "store" ->
            Out(op, At(F, op.in[1]))
              \cup Out(op, {[f EXCEPT !.storage = TRUE, !.slot = slot] : f \in At(F, op.in[3])})
       [] op.code = "load" ->
            Out(op, {[f EXCEPT !.storage = FALSE, !.slot = None,
                               !.pointer = @ /\ (f.storage \/ ~f.bytes)] :
                      f \in {g \in ins : g.storage => (g.slot = None \/ slot = None \/ g.slot = slot)}})
       [] OTHER -> Out(op, ins)

Consequence(F) ==
  F \cup UNION {Consequences(F, op) : op \in program.ops}
    \cup UNION {{[f EXCEPT !.v = a.to] : f \in At(F, a.from)} : a \in Range(program.arguments)}

RECURSIVE Closure(_)
Closure(F) == IF Consequence(F) = F THEN F ELSE Closure(Consequence(F))

Policy ==
  Closure(IF program.kind = "memory"
          THEN {Fact(op.out[1], t, 0) : <<op, t>> \in
                 {<<op, t>> \in {o \in program.ops : o.code = "load"} \X
                    {[Fresh EXCEPT !.bytes = TRUE]} : AbsoluteTag(op) # {}}}
          ELSE {Fact(program.source, [Fresh EXCEPT !.bytes = program.kind = "buffer",
                                                   !.pointer = program.kind = "buffer"], 0)})

-----------------------------------------------------------------------------
(* Properties.                                                             *)

\* States, completions and verdicts are of their kinds, and a state is a tag.
TypeOK ==
  /\ pc \in {"seed", "recover", "sweep", "done"} /\ at \in 0..(Len(order) + 1)
  /\ completion \in {"complete", "limited", "timeout", "canceled", "unknown"}
  /\ verdict \in {"may_flow", "no_flow", "unknown"}
  /\ states = FoldSet(LAMBDA v, n : n + Cardinality(tags[v]), 0, Values)

\* "no flow" is said only when the policy has no fact of the target: whatever
\* order the operations are met in, no limit, early end or merged tag loses a
\* flow silently (add_tag, stopped, propagate_block_arguments).
NoFlowIsTrue ==
  verdict = "no_flow" => At(Policy, program.target) = {}

\* A flow that is named is one the policy has, also when the sweep was stopped.
FlowIsDue ==
  pc = "done" => \A t \in tags[program.target] : \E f \in At(Policy, program.target) :
                   Key(t) = <<f.bytes, f.pointer, f.storage, f.slot>> /\ t.depth <= FunctionDepth

\* A sweep that ends by itself has the fewest calls of every flow: a tag that
\* came the long way first does not keep a nearer one from going on.
DepthIsLeast ==
  pc = "done" /\ completion = "complete" =>
    \A v \in Values : \A f \in At(Policy, v) : \E t \in tags[v] :
      Key(t) = <<f.bytes, f.pointer, f.storage, f.slot>> /\ t.depth <= f.depth

\* A load of a buffer's byte names no byte outside the buffer.
RangeInBuffer ==
  program.kind # "scalar" /\ Bytes > 0 =>
    \A v \in Values : \A t \in tags[v] : t.bytes /\ ~t.pointer => t.end < program.length

==============================================================================
