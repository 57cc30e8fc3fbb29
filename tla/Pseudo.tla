------------------------------- MODULE Pseudo -------------------------------
(***************************************************************************)
(* The pseudocode of a function (components/airece/src/emit/               *)
(* semantic_text.cpp, render_pseudo and what certifies a region for it):   *)
(* one entry after another, in block order, each a labelled block with the *)
(* gotos that end it, or a certified while, do-while, if or switch that    *)
(* takes the blocks inside it along.  An entry that ends in no goto goes   *)
(* on to the entry printed after it, as text does.                         *)
(*                                                                         *)
(* What a block does is left out, but for whether it does anything: only a *)
(* block that does nothing may be a loop's condition.                      *)
(***************************************************************************)
EXTENDS ControlView

CONSTANT Bare  \* the blocks that do nothing but branch

PseudoAssumption == Bare \subseteq Nodes

VARIABLES entries, consumed

NothingPrinted == entries = <<>> /\ consumed = {}
PInit == Init /\ NothingPrinted

-----------------------------------------------------------------------------
(* What may be structured *)

Shown == Seqs(transfers)
\* node_transfers: the ways out of a block, as they are shown.
Out(n) == {t \in Shown : t.from = n}
In(n) == {t \in Shown : t.to = n}
Does(n) == n \notin Bare \/ Terminal(n)

DirectArm(arm, join) ==
  /\ ~Terminal(arm)
  /\ Cardinality(Out(arm)) = 1 /\ \A t \in Out(arm) : t.to = join

UniquelyEntered(n, source) ==
  Cardinality(In(n)) = 1 /\ \A t \in In(n) : t.from = source

Arm(n, kind) == {t.to : t \in {u \in Out(n) : u.kind = kind}}

CertifiedIf(r) ==
  /\ r.kind \in {"if-else", "terminal-if"}
  /\ \E a \in Arm(r.header, "true"), b \in Arm(r.header, "false") :
       /\ a # b
       /\ UniquelyEntered(a, r.header) /\ UniquelyEntered(b, r.header)
       /\ IF r.kind = "terminal-if" THEN Terminal(a) /\ Terminal(b)
          ELSE DirectArm(a, r.join) /\ DirectArm(b, r.join)

\* The body of a certified loop of two blocks, None when it is not certified.
LoopBody(r) ==
  LET others == {n \in r.nodes : n # r.header}
      whileBody(b) ==
        /\ ~Does(r.header)
        /\ Cardinality(Out(r.header)) = 2
        /\ \E t \in Out(r.header) : t.to = b
        /\ \E t \in Out(r.header) : t.to = r.join
        /\ UniquelyEntered(b, r.header) /\ ~Terminal(b)
        /\ Cardinality(Out(b)) = 1 /\ \A t \in Out(b) : t.to = r.header
      doBody(latch) ==
        /\ latch = r.condition /\ latch # r.header
        /\ ~Terminal(r.header) /\ ~Terminal(latch) /\ ~Does(latch)
        /\ Cardinality(Out(r.header)) = 1 /\ \A t \in Out(r.header) : t.to = latch
        /\ Cardinality(Out(latch)) = 2
        /\ \E t \in Out(latch) : t.to = r.header
        /\ \E t \in Out(latch) : t.to = r.join
  IN  IF Cardinality(r.nodes) # 2 \/ r.join = None \/ r.condition = None THEN None
      ELSE LET o == CHOOSE n \in others : TRUE IN
           IF r.kind = "while" /\ whileBody(o) THEN o
           ELSE IF r.kind = "do-while" /\ doBody(o) THEN r.header
           ELSE None

\* The cases of a switch must be apart, its default another block, and all of
\* them terminal or on their way to the join.
CertifiedSwitch(r) ==
  /\ r.kind = "switch"
  /\ LET to == term[r.header].to IN
     /\ Len(to) > 1
     /\ \A i, j \in DOMAIN to : i # j => to[i] # to[j]
     /\ \A i \in DOMAIN to :
          /\ to[i] # r.header
          /\ Terminal(to[i]) \/ (r.join # None /\ DirectArm(to[i], r.join))

\* The first region of each kind that is headed by n, None when there is none.
Headed(n, Test(_)) ==
  LET at == {i \in DOMAIN regions : regions[i].header = n /\ Test(regions[i])}
  IN  IF at = {} THEN None ELSE regions[CHOOSE i \in at : \A j \in at : i <= j]
IsLoop(r) == r.kind \in {"while", "do-while"} /\ LoopBody(r) # None

-----------------------------------------------------------------------------
(* The text *)

\* render_fallback_transfers: the gotos that end a block.
WaysOut(n) ==
  CASE Terminal(n) -> [k |-> "end"]
    [] Switches(n) -> [k |-> "cases"]
    [] Conditional(n) -> [k |-> "if", to |-> term[n].to]
    [] OTHER -> [k |-> "goto", to |-> term[n].to[1]]

EntryOf(n) ==
  LET loop == Headed(n, IsLoop)
      switch == Headed(n, CertifiedSwitch)
      if == Headed(n, CertifiedIf)
  IN  CASE loop # None -> [k |-> loop.kind, label |-> n, body |-> LoopBody(loop),
                           condition |-> IF loop.kind = "while" THEN n ELSE loop.condition,
                           join |-> loop.join, takes |-> loop.nodes]
        [] loop = None /\ switch # None ->
             [k |-> "switch", label |-> n, join |-> switch.join, takes |-> {n} \cup Succ(n)]
        [] loop = None /\ switch = None /\ if # None ->
             [k |-> "ifelse", label |-> n, join |-> if.join, takes |-> {n} \cup Succ(n)]
        [] OTHER -> [k |-> "block", label |-> n, tail |-> WaysOut(n), takes |-> {n}]

Emit ==
  /\ stage = "done"
  /\ \E i \in DOMAIN order :
       LET n == order[i] IN
       /\ n \notin consumed
       /\ \A j \in 1..(i - 1) : order[j] \in consumed
       /\ entries' = Append(entries, EntryOf(n))
       /\ consumed' = consumed \cup EntryOf(n).takes
  /\ UNCHANGED vars

PNext == (Next /\ UNCHANGED <<entries, consumed>>) \/ Emit

-----------------------------------------------------------------------------
(* Where the text goes after a block *)

Printed == stage = "done" /\ consumed = Nodes
Labels == {entries[i].label : i \in DOMAIN entries}
AfterEntry(i) == IF i < Len(entries) THEN entries[i + 1].label ELSE None
Holding(n) ==
  LET at == {i \in DOMAIN entries : n \in entries[i].takes}
  IN  CHOOSE i \in at : \A j \in at : i <= j

\* The block that is done after n, when n's condition comes out as the way it
\* takes (1 is true, 2 false; the cases of a switch in turn).
TextNext(n, way) ==
  LET i == Holding(n)  x == entries[i] IN
  CASE Terminal(n) -> None
    [] x.k = "block" ->
         (CASE x.tail.k = "if" -> x.tail.to[way]
            [] x.tail.k = "cases" -> term[n].to[way]
            [] OTHER -> x.tail.to)
    [] x.k \in {"switch", "ifelse"} -> IF n = x.label THEN term[n].to[way] ELSE AfterEntry(i)
    [] x.k = "while" /\ n = x.label -> IF way = 1 THEN x.body ELSE AfterEntry(i)
    [] x.k = "while" /\ n # x.label -> x.label
    [] x.k = "do-while" /\ n = x.condition -> IF way = 1 THEN x.body ELSE AfterEntry(i)
    [] x.k = "do-while" /\ n # x.condition -> x.condition

-----------------------------------------------------------------------------
(* Properties *)

\* The structures that are printed wrong.  A loop that is left when its
\* condition holds has that condition printed as the one to stay.  What is
\* taken along has no label, and the text runs on from it into whatever is
\* printed next: that loses a goto from elsewhere to a case, a latch or the
\* join, and the way to a join that is printed before or is a case itself.
LeftOnTrue(x) ==
  \/ x.k = "while" /\ term[x.label].to[1] # x.body
  \/ x.k = "do-while" /\ term[x.condition].to[1] # x.body
EnteredElsewhere(x) ==
  \E t \in Shown : /\ t.to \in {x.join} \cup (x.takes \ {x.label})
                    /\ t.from \in Reached \ x.takes
JoinsBack(x) == x.join # None /\ Dominates(x.join, x.label)
Misprinted(x) ==
  /\ x.k # "block"
  /\ LeftOnTrue(x) \/ EnteredElsewhere(x) \/ JoinsBack(x) \/ x.join \in x.takes

\* README.md:16 of the emitters, "never hides a transfer merely to look
\* cleaner", holds of the blocks outside those structures: the text, read as a
\* program, goes where the function goes, and a block is gone to by its label,
\* within its structure or by being printed next.
TextIsFaithful ==
  Printed =>
    LET wrong == UNION {entries[i].takes : i \in {j \in DOMAIN entries : Misprinted(entries[j])}}
    IN  \A n \in Reached \ wrong : \A way \in DOMAIN term[n].to :
          LET to == term[n].to[way] IN
          to \notin wrong => /\ TextNext(n, way) = to
                             /\ to \in Labels \/ Holding(to) = Holding(n)

=============================================================================
