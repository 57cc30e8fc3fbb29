--------------------------- MODULE ExpressionView ---------------------------
(***************************************************************************)
(* The text that ExpressionRecovery shows for a value of the intermediate  *)
(* code (components/airece/src/semantic/expression_view.cpp).  A program   *)
(* is grown one operation at a time; the text of its last value is made of *)
(* tokens, and Reads is the reader of that text: it knows the printer's    *)
(* own precedences, the values behind the names, and memory as it stands   *)
(* where the shown operation is.                                           *)
(*                                                                         *)
(* Integers, addresses and Booleans are all 0..1: they differ in type, not *)
(* in width.  A call changes every cell and returns what the first held.   *)
(***************************************************************************)
EXTENDS Integers, Sequences, FiniteSets

CONSTANTS
  Alphabet,   \* the opcodes a program is made of
  Inputs,     \* the parameters and constants it uses, of those below
  MaxOps,     \* bound: operations of a program
  MaxBlocks,  \* bound: basic blocks, each falling through to the next
  MaxDepth,   \* ExpressionOptions::max_depth
  MaxNodes    \* ExpressionOptions::max_nodes

ViewAssumption ==
  /\ {MaxOps, MaxBlocks, MaxNodes} \subseteq Nat \ {0}
  /\ MaxDepth \in Nat

VARIABLE ops

\* What a program starts from: two integers and a bit that it takes as
\* parameters, and the two constants of one bit.
A == -1
B == -2
P == -3
True == -4
False == -5
Base == {A, B, P, True, False}
Const == {True, False}
BaseType(v) == IF v \in {A, B} THEN "int" ELSE "bit"

\* The types each opcode takes, and the type it gives.
Signature == [
  add |-> <<"int", "int">>, eq |-> <<"int", "int">>, ult |-> <<"int", "int">>,
  same |-> <<"bit", "bit">>, xor |-> <<"bit", "bit">>, or |-> <<"bit", "bit">>,
  zext |-> <<"bit">>, trunc |-> <<"int">>, select |-> <<"bit", "bit", "bit">>,
  load |-> <<"int">>, store |-> <<"int", "int">>, call |-> <<>>,
  flags |-> <<"int", "int">>, zf |-> <<"flags">>, cf |-> <<"flags">>]
Gives(op) == CASE op \in {"add", "zext", "load", "call"} -> "int"
               [] op = "store" -> "none"
               [] op = "flags" -> "flags"
               [] OTHER -> "bit"
Type(v) == IF v \in Base THEN BaseType(v) ELSE Gives(ops[v].op)

Defined == Inputs \cup (1..Len(ops))
Block == IF ops = <<>> THEN 1 ELSE ops[Len(ops)].block

Init == ops = <<>>

\* One more operation.  All but a call and a load build on one of the last
\* two, so that a program is about its last value.
Extend(op, block) ==
  \E in \in [1..Len(Signature[op]) -> Defined] :
    /\ \A i \in DOMAIN in : Type(in[i]) = Signature[op][i]
    /\ \/ ops = <<>>
       \/ op \in {"call", "load"}
       \/ \E i \in DOMAIN in : in[i] > Len(ops) - 2 /\ in[i] > 0
    /\ ops' = Append(ops, [op |-> op, in |-> in, block |-> block])

Next ==
  /\ Len(ops) < MaxOps
  /\ \E op \in Alphabet, block \in {Block, Block + 1} \cap (1..MaxBlocks) : Extend(op, block)

Spec == Init /\ [][Next]_ops

-----------------------------------------------------------------------------
(* Whether a value is written out or named *)

\* A terminator uses the last value of its block.
Ends(v) == v = Len(ops) \/ ops[v + 1].block # ops[v].block
Uses(v) ==
  Cardinality({<<i, j>> \in (DOMAIN ops) \X (1..3) :
                 j \in DOMAIN ops[i].in /\ ops[i].in[j] = v})
  + IF v \in DOMAIN ops /\ Ends(v) THEN 1 ELSE 0

Clobbers(i) == ops[i].op \in {"store", "call"}

\* Mutant: the block of the load is not compared with the block shown.
LoadIsSafeAnywhere(load, horizon) ==
  LET begin(b) == CHOOSE i \in DOMAIN ops : ops[i].block = b /\ \A j \in 1..(i - 1) : ops[j].block # b
      at(i) == i - begin(ops[i].block)
  IN  \/ load = horizon
      \/ /\ at(load) < at(horizon)
         /\ \A j \in (load + 1)..(begin(ops[load].block) + at(horizon) - 1) :
              (j \in DOMAIN ops /\ ops[j].block = ops[load].block) => ~Clobbers(j)

LoadIsSafe(load, horizon) ==
  \/ load = horizon
  \/ /\ ops[load].block = ops[horizon].block
     /\ load < horizon
     /\ \A j \in (load + 1)..(horizon - 1) : ~Clobbers(j)

Expandable(v, horizon) ==
  CASE ops[v].op = "load" -> Uses(v) <= 1 /\ LoadIsSafe(v, horizon)
    [] ops[v].op \in {"store", "call"} -> FALSE
    [] OTHER -> Uses(v) <= 1

-----------------------------------------------------------------------------
(* The text: tokens, and the precedence of the outermost one *)

Select == 1
Compare == 2
OrLevel == 3
XorLevel == 4
Add == 7
Unary == 9
Atom == 10

Tok(k) == <<k, 0>>
Leaf(v) == <<"name", v>>

Text(tokens, prec, s) ==
  [text |-> tokens, prec |-> prec, nodes |-> s.nodes, cut |-> s.cut, misturned |-> s.misturned]
Wrap(r, prec) == IF r.prec < prec THEN <<Tok("(")>> \o r.text \o <<Tok(")")>> ELSE r.text

Comparisons == <<"==", "!=", "u<", "u<=">>
Inverse == [x \in {"==", "!=", "u<", "u<="} |->
  CASE x = "==" -> "!=" [] x = "!=" -> "==" [] x = "u<" -> "u>=" [] x = "u<=" -> "u>"]

\* The comparison that negate_boolean turns: the first "==" anywhere in the
\* text, else the first "!=", and so on; 0 when there is none.
Turns(text) ==
  LET found == {i \in DOMAIN Comparisons : \E k \in DOMAIN text : text[k] = Tok(Comparisons[i])}
      from == CHOOSE i \in found : \A j \in found : i <= j
  IN  IF found = {} THEN 0
      ELSE CHOOSE k \in DOMAIN text :
             /\ text[k] = Tok(Comparisons[from])
             /\ \A l \in 1..(k - 1) : text[l] # text[k]

\* It stands within an operand of the comparison that is meant.
Inside(text, k) ==
  LET upTo(t) == Cardinality({i \in 1..k : text[i] = Tok(t)}) IN upTo("(") > upTo(")")

\* negate_boolean turns that comparison when the text is one, and writes a
\* negation otherwise.
Negate(r) ==
  LET k == Turns(r.text) IN
  IF r.prec = Compare /\ k # 0
  THEN [r EXCEPT !.text[k] = Tok(Inverse[@[1]]), !.misturned = @ \/ Inside(r.text, k)]
  ELSE [r EXCEPT !.text = <<Tok("!")>> \o Wrap(r, Unary), !.prec = Unary]

\* The right operand is wrapped even at the same precedence.
Joined(l, token, prec, r) ==
  Text(Wrap(l, prec) \o <<Tok(token)>> \o Wrap(r, prec + 1), prec, r)

Called(name, r) == Text(<<Tok(name), Tok("(")>> \o r.text \o <<Tok(")")>>, Atom, r)

ConstantOf(in) == IF in[2] \in Const THEN 2 ELSE IF in[1] \in Const THEN 1 ELSE 0

Limited(s) == [s EXCEPT !.cut = TRUE]

\* A context c is where the value is shown, how deep it is nested and the
\* limits; the state s counts the values written out so far,
\* and notes (history) whether a negation turned another comparison than its own.
RECURSIVE Render(_, _, _)
Operand(v, s, c) == Render(v, s, [c EXCEPT !.depth = @ + 1])

Binary(in, token, prec, s, c) ==
  LET l == Operand(in[1], s, c)  r == Operand(in[2], l, c) IN Joined(l, token, prec, r)

\* A comparison of bits or an exclusive or: with a constant it is its other
\* operand, negated when the constant is the one that turns it.
Boolean(in, token, prec, turning, s, c) ==
  IF ConstantOf(in) = 0 THEN Binary(in, token, prec, s, c)
  ELSE LET r == Operand(in[3 - ConstantOf(in)], s, c)
       IN  IF in[ConstantOf(in)] = turning THEN Negate(r) ELSE r

\* A flag of a subtraction is shown as a comparison of what was subtracted.
Flag(op, flags, s, c) ==
  Binary(ops[flags].in, IF op = "zf" THEN "==" ELSE "u<", Compare, s, c)

\* A truncation of an extension of a bit is that bit.
Cast(op, in, s, c) ==
  IF op = "trunc" /\ in \in DOMAIN ops /\ ops[in].op = "zext"
  THEN Operand(ops[in].in[1], s, c)
  ELSE Called(op, Operand(in, s, c))

Choice(in, s, c) ==
  LET x == Operand(in[1], s, c)  y == Operand(in[2], x, c)  z == Operand(in[3], y, c)
  IN  Text(Wrap(x, Select) \o <<Tok("?")>> \o Wrap(y, Select) \o <<Tok(":")>> \o Wrap(z, Select),
           Select, z)

Operation(v, s, c) ==
  LET op == ops[v].op  in == ops[v].in IN
  CASE op = "add" -> Binary(in, "+", Add, s, c)
    [] op = "or" -> Binary(in, "|", OrLevel, s, c)
    [] op = "eq" -> Binary(in, "==", Compare, s, c)
    [] op = "ult" -> Binary(in, "u<", Compare, s, c)
    [] op = "same" -> Boolean(in, "==", Compare, False, s, c)
    [] op = "xor" -> Boolean(in, "^", XorLevel, True, s, c)
    [] op \in {"zext", "trunc"} -> Cast(op, in[1], s, c)
    [] op = "load" -> Called("load", Operand(in[1], s, c))
    [] op = "select" -> Choice(in, s, c)
    [] op \in {"zf", "cf"} -> Flag(op, in[1], s, c)
    [] OTHER -> Text(<<Leaf(v)>>, Atom, s)

Render(v, s, c) ==
  LET root == v = c.horizon
      full == ~root /\ (c.depth >= c.maxDepth \/ s.nodes >= c.maxNodes)
      counted == [s EXCEPT !.nodes = @ + 1]
  IN  CASE v \in Base \ Const -> Text(<<Leaf(v)>>, Atom, s)
        [] full -> Text(<<Leaf(v)>>, Atom, Limited(s))
        [] v \in Const -> Text(<<Tok(IF v = True THEN "true" ELSE "false")>>, Atom, counted)
        [] root \/ Expandable(v, c.horizon) -> Operation(v, counted, c)
        [] OTHER -> Text(<<Leaf(v)>>, Atom, s)

Start == [nodes |-> 0, cut |-> FALSE, misturned |-> FALSE]
Within(v, depth, nodes) ==
  Render(v, Start, [horizon |-> v, depth |-> 0, maxDepth |-> depth, maxNodes |-> nodes])
Shown(v) == Within(v, MaxDepth, MaxNodes)
Whole(v) == Within(v, 100, 100)

-----------------------------------------------------------------------------
(* What the program computes, and what a reader of the text computes *)

Bit(p) == IF p THEN 1 ELSE 0
Cells == 0..1
Varies(v) == IF v \in Inputs THEN 0..1 ELSE {0}
Memories == IF Alphabet \cap {"load", "call"} = {} THEN [Cells -> {0}] ELSE [Cells -> 0..1]
Envs == [a : Varies(A), b : Varies(B), p : Varies(P), mem : Memories]
BaseValue(v, e) == CASE v = A -> e.a [] v = B -> e.b [] v = P -> e.p
                     [] v = True -> 1 [] v = False -> 0

\* The value of every operation, and memory before each, in one environment.
Run(e) ==
  LET after[n \in 0..Len(ops)] ==
        IF n = 0 THEN [val |-> <<>>, mem |-> e.mem]
        ELSE LET was == after[n - 1]
                 o == ops[n]
                 x(i) == IF o.in[i] \in Base THEN BaseValue(o.in[i], e) ELSE was.val[o.in[i]]
                 result == CASE o.op = "add" -> (x(1) + x(2)) % 2
                             [] o.op \in {"eq", "same"} -> Bit(x(1) = x(2))
                             [] o.op = "ult" -> Bit(x(1) < x(2))
                             [] o.op = "xor" -> (x(1) + x(2)) % 2
                             [] o.op = "or" -> Bit(x(1) + x(2) > 0)
                             [] o.op \in {"zext", "trunc"} -> x(1)
                             [] o.op = "select" -> IF x(1) = 1 THEN x(2) ELSE x(3)
                             [] o.op = "load" -> was.mem[x(1)]
                             [] o.op = "call" -> was.mem[0]
                             [] o.op = "store" -> 0
                             [] o.op = "flags" -> <<x(1), x(2)>>
                             [] o.op = "zf" -> Bit(x(1)[1] = x(1)[2])
                             [] o.op = "cf" -> Bit(x(1)[1] < x(1)[2])
             IN  [val |-> Append(was.val, result),
                  mem |-> CASE o.op = "store" -> [was.mem EXCEPT ![x(1)] = x(2)]
                            [] o.op = "call" -> [c \in Cells |-> 1 - was.mem[c]]
                            [] OTHER -> was.mem]
  IN  after

Level(k) == CASE k \in {"==", "!=", "u<", "u>="} -> Compare [] k = "|" -> OrLevel
              [] k = "^" -> XorLevel [] k = "+" -> Add [] OTHER -> 0
Apply(k, x, y) == CASE k = "==" -> Bit(x = y) [] k = "!=" -> Bit(x # y)
                    [] k = "u<" -> Bit(x < y) [] k = "u>=" -> Bit(x >= y)
                    [] k = "|" -> Bit(x + y > 0) [] k \in {"^", "+"} -> (x + y) % 2

\* The value of a text: ?: groups to the right, the other operators to the
\* left, and a negation binds closest.
Reads(text, val, e, mem) ==
  LET at(i) == IF i \in DOMAIN text THEN text[i] ELSE Tok("end")
      RECURSIVE From(_, _), Rest(_, _)
      Rest(level, l) ==
        IF Level(at(l[2])[1]) = level
        THEN LET r == From(level + 1, l[2] + 1)
             IN  Rest(level, <<Apply(at(l[2])[1], l[1], r[1]), r[2]>>)
        ELSE l
      From(level, i) ==
        CASE level = Select ->
               LET c == From(Compare, i) IN
               IF at(c[2]) = Tok("?")
               THEN LET x == From(Select, c[2] + 1)  y == From(Select, x[2] + 1)
                    IN  <<IF c[1] = 1 THEN x[1] ELSE y[1], y[2]>>
               ELSE c
          [] level \in Compare..Add -> Rest(level, From(level + 1, i))
          [] level \in (Add + 1)..Unary ->
               IF at(i) = Tok("!")
               THEN LET x == From(Unary, i + 1) IN <<1 - x[1], x[2]>>
               ELSE From(Atom, i)
          [] OTHER ->
               LET open == IF at(i) = Tok("(") THEN i ELSE i + 1
                   x == From(Select, open + 1) IN
               CASE at(i)[1] = "name" -> <<IF at(i)[2] \in Base THEN BaseValue(at(i)[2], e)
                                           ELSE val[at(i)[2]], i + 1>>
                 [] at(i)[1] = "true" -> <<1, i + 1>>
                 [] at(i)[1] = "false" -> <<0, i + 1>>
                 [] at(i)[1] = "load" -> <<mem[x[1]], x[2] + 1>>
                 [] OTHER -> <<x[1], x[2] + 1>>
  IN  From(Select, 1)[1]

-----------------------------------------------------------------------------
(* Properties *)

Last == Len(ops)
HasText == ops # <<>> /\ Gives(ops[Last].op) \in {"int", "bit"}

\* expression_view.cpp, render_value and what it calls: whatever is written
\* out and whatever is named, the text read where the value is computed
\* gives that value, in every environment.  The texts in which a negation has
\* turned a comparison inside an operand are left out: zext(a == b) u< c is
\* negated to zext(a != b) u< c, which is something else.
TextMeansValue ==
  HasText /\ ~Shown(Last).misturned => \A e \in Envs :
    LET run == Run(e) IN
    Reads(Shown(Last).text, run[Last].val, e, run[Last - 1].mem) = run[Last].val[Last]

\* can_expand, max_depth and max_nodes: a text that the limits made shorter
\* says that it was cut, and one value is written out beyond none of them.
CutIsSaid ==
  HasText => /\ Shown(Last).text # Whole(Last).text => Shown(Last).cut
             /\ Shown(Last).nodes <= MaxNodes
=============================================================================
