-------------------------- MODULE RetentionProofs --------------------------
(***************************************************************************)
(* Retention never takes away a content that a row names, for any number   *)
(* of contents, publishers and keepers.  The invariant says why: who holds *)
(* the exclusive side is alone, so what a keeper has seen stays all there  *)
(* is until it lets go.                                                    *)
(***************************************************************************)
EXTENDS Retention, TLAPS

Publishing == {"put", "row"}
Maintaining == {"core", "runtime", "check", "list", "decide", "move"}

Places ==
  /\ \A p \in Publishers : pc[p] \in Publishing \cup {"idle", "done"}
  /\ \A k \in Keepers : pc[k] \in Maintaining \cup {"idle", "done"}

Leases ==
  /\ \A p \in Publishers : pc[p] \in Publishing => p \in shared
  /\ \A k \in Keepers : pc[k] \in Maintaining => alone = {k}
  /\ alone # {} => shared = {}

Written == \A p \in Publishers : pc[p] = "row" => puts[p] \subseteq Stored

Searched ==
  \A k \in Keepers :
    /\ pc[k] = "runtime" => core \subseteq seen[k]
    /\ pc[k] \in {"check", "list"} => Referenced \subseteq seen[k]
    /\ pc[k] \in {"decide", "move"} =>
         found[k] \cap Referenced = {} /\ found[k] \subseteq Stored \cup away

IInv == TypeOK /\ Places /\ Leases /\ Written /\ Searched /\ ReferencedIsStored

(* Init establishes the invariant. *)
LEMMA InitIInv == Init => IInv
BY RetentionAssumption DEF Init, IInv, TypeOK, Places, Leases, Written, Searched,
   ReferencedIsStored, Referenced, Stored, Processes, Publishing, Maintaining

(* A process that ends, whether it finished, was refused or died, leaves   *)
(* the invariant as it was.                                                *)
LEMMA EndKeeps ==
  ASSUME IInv, NEW p \in Processes, End(p),
         age' = age, core' = core, runtime' = runtime, busy' = busy,
         plans' \in SUBSET SUBSET Objects, away' = away, listed' \subseteq away
  PROVE  IInv'
<1> USE DEF IInv, End, Goto, Processes
<1>1. TypeOK'
  BY DEF TypeOK
<1>2. Places'
  BY DEF Places, TypeOK, Publishing, Maintaining
<1>3. Leases'
  BY DEF Places, Leases, TypeOK, Publishing, Maintaining
<1>4. Written'
  BY DEF Written, TypeOK, Stored
<1>5. Searched'
  BY DEF Searched, TypeOK, Stored, Referenced
<1>6. ReferencedIsStored'
  BY DEF ReferencedIsStored, Referenced, Stored
<1> QED BY <1>1, <1>2, <1>3, <1>4, <1>5, <1>6

(* While a publisher has its connection open no keeper is at work. *)
LEMMA PublisherAlone ==
  ASSUME IInv, NEW p \in Publishers, pc[p] \in Publishing
  PROVE  \A k \in Keepers : pc[k] \notin Maintaining
BY DEF IInv, Leases

(* While a keeper is at work no connection is open, and no other keeper.   *)
LEMMA KeeperAlone ==
  ASSUME IInv, NEW k \in Keepers, pc[k] \in Maintaining
  PROVE  /\ \A p \in Publishers : pc[p] \notin Publishing
         /\ \A j \in Keepers : pc[j] \in Maintaining => j = k
BY DEF IInv, Leases

(* Every step of a publisher keeps the invariant. *)
LEMMA PublishKeeps ==
  ASSUME IInv, NEW p \in Publishers, Publish(p)
  PROVE  IInv'
<1> p \in Processes BY DEF Processes
<1>1. CASE Connect(p)
  <2>1. CASE alone = {}
    <3> USE <1>1, <2>1, RetentionAssumption DEF IInv, Connect, disk, kept, Goto
    <3>1. PICK o \in Objects : puts' = [puts EXCEPT ![p] = {o}]
      OBVIOUS
    <3>2. TypeOK'
      BY <3>1 DEF TypeOK, Processes
    <3>3. Places'
      BY DEF Places, TypeOK, Processes, Publishing
    <3>4. Leases'
      BY DEF Leases, Places, TypeOK, Processes, Publishing, Maintaining
    <3>5. Written' /\ ReferencedIsStored'
      BY <3>1 DEF Written, ReferencedIsStored, Referenced, Stored, TypeOK, Processes
    <3>6. Searched'
      BY DEF Searched, Referenced, Stored, TypeOK, Processes
    <3> QED BY <3>2, <3>3, <3>4, <3>5, <3>6
  <2>2. CASE alone # {}
    <3>1. End(p) /\ UNCHANGED <<disk, plans, away, listed>>
      BY <1>1, <2>2 DEF Connect
    <3> QED BY <3>1, EndKeeps DEF disk, IInv, TypeOK
  <2> QED BY <2>1, <2>2
<1>2. CASE Put(p)
  <2> USE <1>2 DEF IInv, Put, kept, Goto
  <2>0. \A k \in Keepers : pc[k] \notin Maintaining
    BY PublisherAlone DEF Publishing
  <2>1. TypeOK'
    BY DEF TypeOK, Processes
  <2>2. Places' /\ Leases'
    BY DEF Places, Leases, TypeOK, Processes, Publishing, Maintaining
  <2>3. Stored \subseteq Stored' /\ puts[p] \subseteq Stored'
    BY DEF Stored, TypeOK
  <2>4. Written' /\ ReferencedIsStored'
    BY <2>3 DEF Written, ReferencedIsStored, Referenced, TypeOK, Processes
  <2>5. Searched'
    BY <2>0 DEF Searched, Maintaining, TypeOK, Processes
  <2> QED BY <2>1, <2>2, <2>4, <2>5
<1>3. CASE Row(p)
  <2> USE <1>3 DEF IInv, Row, End, Goto, Processes
  <2>0. \A k \in Keepers : pc[k] \notin Maintaining
    BY PublisherAlone DEF Publishing
  <2>1. TypeOK'
    BY DEF TypeOK
  <2>2. Places' /\ Leases'
    BY DEF Places, Leases, TypeOK, Publishing, Maintaining
  <2>3. Written'
    BY DEF Written, Stored, TypeOK
  <2>4. ReferencedIsStored'
    BY DEF Written, ReferencedIsStored, Referenced, Stored
  <2>5. Searched'
    BY <2>0 DEF Searched, Maintaining, TypeOK
  <2> QED BY <2>1, <2>2, <2>3, <2>4, <2>5
<1> QED BY <1>1, <1>2, <1>3 DEF Publish

(* Every step of a keeper keeps the invariant: what it moves has no        *)
(* reference, and nobody can add one meanwhile.                            *)
LEMMA MaintainKeeps ==
  ASSUME IInv, NEW k \in Keepers, Maintain(k)
  PROVE  IInv'
<1> k \in Processes BY DEF Processes
<1>1. CASE Lock(k)
  <2>1. CASE shared \cup alone = {}
    <3> USE <1>1, <2>1 DEF IInv, Lock, disk, Goto
    <3>1. PICK g \in {{}} \cup {{plan} : plan \in plans} : given' = [given EXCEPT ![k] = g]
      OBVIOUS
    <3>2. TypeOK'
      BY <3>1 DEF TypeOK, Processes
    <3>0. pc' = [pc EXCEPT ![k] = "core"] /\ alone' = {k} /\ shared' = shared /\ shared = {}
      OBVIOUS
    <3>3. Places' /\ Leases'
      <4>1. \A p \in Publishers : pc'[p] = pc[p]
        BY <3>0, RetentionAssumption DEF TypeOK, Processes
      <4>2. \A j \in Keepers : j # k => pc'[j] = pc[j] /\ pc[j] \notin Maintaining
        BY <3>0 DEF TypeOK, Processes, Leases
      <4>3. pc'[k] = "core"
        BY <3>0 DEF TypeOK, Processes
      <4> QED BY <3>0, <4>1, <4>2, <4>3 DEF Places, Leases, Publishing, Maintaining
    <3>4. Written' /\ ReferencedIsStored'
      BY RetentionAssumption DEF Written, ReferencedIsStored, Referenced, Stored, TypeOK,
         Processes
    <3>5. Searched'
      BY DEF Searched, Referenced, Stored, TypeOK, Processes
    <3> QED BY <3>2, <3>3, <3>4, <3>5
  <2>2. CASE shared \cup alone # {}
    <3>1. End(k) /\ UNCHANGED <<disk, plans, away, listed>>
      BY <1>1, <2>2 DEF Lock
    <3> QED BY <3>1, EndKeeps DEF disk, IInv, TypeOK
  <2> QED BY <2>1, <2>2
<1>2. CASE ScanCore(k) \/ ScanRuntime(k) \/ List(k)
  <2> USE <1>2 DEF IInv, ScanCore, ScanRuntime, List, disk, Goto
  <2>1. TypeOK'
    <3>1. CASE ScanCore(k) \/ ScanRuntime(k)
      BY <3>1 DEF TypeOK, Processes
    <3>2. CASE List(k)
      <4>1. found' \in [Keepers -> SUBSET Objects]
        BY <3>2 DEF TypeOK, Candidates
      <4>2. more' \in [Keepers -> BOOLEAN]
        <5> DEFINE b == Cardinality(Candidates(k)) > Limit
        <5>1. b \in BOOLEAN /\ more' = [more EXCEPT ![k] = b]
          BY <3>2
        <5> HIDE DEF b
        <5> QED BY <5>1 DEF TypeOK
      <4> QED BY <3>2, <4>1, <4>2 DEF TypeOK, Processes
    <3> QED BY <3>1, <3>2
  <2>2. Places' /\ Leases'
    BY DEF Places, Leases, TypeOK, Processes, Publishing, Maintaining
  <2>3. Written' /\ ReferencedIsStored'
    BY RetentionAssumption DEF Written, ReferencedIsStored, Referenced, Stored, TypeOK,
       Processes
  <2>4. Searched'
    <3>1. CASE ScanCore(k)
      BY <3>1 DEF Searched, Referenced, Stored, TypeOK, Processes
    <3>2. CASE ScanRuntime(k)
      BY <3>2 DEF Searched, Referenced, Stored, TypeOK, Processes
    <3>3. CASE List(k)
      <4>1. Referenced \subseteq seen[k]
        BY <3>3 DEF Searched
      <4>2. PICK c \in SUBSET Candidates(k) : found' = [found EXCEPT ![k] = c]
        BY <3>3
      <4>3. c \cap Referenced = {} /\ c \subseteq Stored
        BY <4>1, <4>2 DEF Candidates, Stored
      <4> QED BY <3>3, <4>2, <4>3 DEF Searched, Referenced, Stored, TypeOK, Processes
    <3> QED BY <3>1, <3>2, <3>3
  <2> QED BY <2>1, <2>2, <2>3, <2>4
<1>3. CASE CheckActive(k)
  <2>1. CASE busy
    <3>1. End(k) /\ UNCHANGED <<disk, plans, away, listed>>
      BY <1>3, <2>1 DEF CheckActive
    <3> QED BY <3>1, EndKeeps DEF disk, IInv, TypeOK
  <2>2. CASE ~busy
    <3> USE <1>3, <2>2 DEF IInv, CheckActive, disk, kept, Goto
    <3>1. TypeOK'
      BY DEF TypeOK, Processes
    <3>2. Places' /\ Leases'
      BY DEF Places, Leases, TypeOK, Processes, Publishing, Maintaining
    <3>3. Written' /\ ReferencedIsStored'
      BY RetentionAssumption DEF Written, ReferencedIsStored, Referenced, Stored, TypeOK,
         Processes
    <3>4. Searched'
      BY DEF Searched, Referenced, Stored, TypeOK, Processes
    <3> QED BY <3>1, <3>2, <3>3, <3>4
  <2> QED BY <2>1, <2>2
<1>4. CASE Decide(k)
  <2>1. CASE Goto(k, "move") /\ UNCHANGED <<plans, shared, alone, puts, kept>>
    <3> USE <1>4, <2>1 DEF IInv, Decide, disk, kept, Goto
    <3>1. TypeOK'
      BY DEF TypeOK, Processes
    <3>2. Places' /\ Leases'
      BY DEF Places, Leases, TypeOK, Processes, Publishing, Maintaining
    <3>3. Written' /\ ReferencedIsStored'
      BY RetentionAssumption DEF Written, ReferencedIsStored, Referenced, Stored, TypeOK,
         Processes
    <3>4. Searched'
      BY DEF Searched, Referenced, Stored, TypeOK, Processes
    <3> QED BY <3>1, <3>2, <3>3, <3>4
  <2>2. CASE End(k)
    <3>1. plans' \in SUBSET SUBSET Objects
      BY <1>4 DEF Decide, IInv, TypeOK
    <3>2. UNCHANGED <<disk, away, listed>>
      BY <1>4 DEF Decide
    <3> QED BY <2>2, <3>1, <3>2, EndKeeps DEF disk, IInv, TypeOK
  <2> QED BY <1>4, <2>1, <2>2 DEF Decide
<1>5. CASE \E o \in Objects : Move(k, o)
  <2> PICK o \in Objects : Move(k, o)
    BY <1>5
  <2> USE DEF IInv, Move, kept
  <2>0. /\ \A p \in Publishers : pc[p] \notin Publishing
        /\ \A j \in Keepers : pc[j] \in Maintaining => j = k
    BY KeeperAlone DEF Maintaining
  <2>1. TypeOK'
    BY DEF TypeOK
  <2>2. Places' /\ Leases'
    BY DEF Places, Leases
  <2>3. Written'
    BY <2>0 DEF Written, Publishing
  <2>4. Stored' = Stored \ {o}
    BY DEF Stored, TypeOK
  <2>5. o \notin Referenced
    BY DEF Searched
  <2>6. ReferencedIsStored'
    BY <2>4, <2>5 DEF ReferencedIsStored, Referenced
  <2>7. Searched'
    BY <2>0, <2>4 DEF Searched, Referenced, Maintaining
  <2> QED BY <2>1, <2>2, <2>3, <2>6, <2>7
<1>6. CASE Close(k)
  <2>1. End(k) /\ UNCHANGED <<disk, plans, away>>
    BY <1>6 DEF Close
  <2>2. found[k] \subseteq away
    BY <1>6 DEF Close, IInv, Searched
  <2>3. listed' \subseteq away
    BY <1>6, <2>2 DEF Close, IInv, TypeOK
  <2> QED BY <2>1, <2>3, EndKeeps DEF disk, IInv, TypeOK
<1> QED BY <1>1, <1>2, <1>3, <1>4, <1>5, <1>6 DEF Maintain

(* Every step keeps the invariant. *)
LEMMA NextKeeps == IInv /\ [Next]_vars => IInv'
<1> SUFFICES ASSUME IInv, [Next]_vars PROVE IInv'
  OBVIOUS
<1>1. CASE \E p \in Publishers : Publish(p)
  BY <1>1, PublishKeeps
<1>2. CASE \E k \in Keepers : Maintain(k)
  BY <1>2, MaintainKeeps
<1>3. CASE \E p \in Processes : Crash(p)
  <2> PICK p \in Processes : Crash(p)
    BY <1>3
  <2>1. End(p) /\ UNCHANGED <<disk, plans, away, listed>>
    BY DEF Crash
  <2> QED BY <2>1, EndKeeps DEF disk, IInv, TypeOK
<1>4. CASE \E p \in Processes : Again(p)
  <2> PICK p \in Processes : Again(p)
    BY <1>4
  <2> USE DEF IInv, Again, disk, kept, Goto
  <2>1. TypeOK'
    BY DEF TypeOK
  <2>2. Places' /\ Leases'
    BY DEF Places, Leases, TypeOK, Publishing, Maintaining
  <2>3. Written' /\ ReferencedIsStored'
    BY DEF Written, ReferencedIsStored, Referenced, Stored, TypeOK, Processes
  <2>4. Searched'
    BY DEF Searched, Referenced, Stored, TypeOK, Processes
  <2> QED BY <2>1, <2>2, <2>3, <2>4
<1>5. CASE Work \/ UNCHANGED vars
  BY <1>5 DEF Work, vars, disk, kept, IInv, TypeOK, Places, Leases, Written, Searched,
     ReferencedIsStored, Referenced, Stored
<1>6. CASE \E o \in Objects : Age(o)
  <2> PICK o \in Objects : Age(o)
    BY <1>6
  <2> USE DEF IInv, Age, kept
  <2>1. TypeOK' /\ Stored' = Stored
    BY DEF TypeOK, Stored
  <2> QED BY <2>1 DEF Places, Leases, Written, Searched, ReferencedIsStored, Referenced
<1> QED BY <1>1, <1>2, <1>3, <1>4, <1>5, <1>6 DEF Next

(* The invariant holds in every reachable state. *)
THEOREM RetentionInvariant == Spec => []IInv
BY InitIInv, NextKeeps, PTL DEF Spec

(* No content that a committed row names is ever missing from the store,   *)
(* whatever retention, publishers and crashes do.                          *)
THEOREM ReferencesSurvive == Spec => []ReferencedIsStored
BY RetentionInvariant, PTL DEF IInv

-----------------------------------------------------------------------------
(* What a keeper was given was shown to its operator; what it moves is     *)
(* that plan, and was old when it was listed, and stays so, because nobody *)
(* can write the store meanwhile.                                          *)
Planned ==
  \A k \in Keepers :
    /\ given[k] \subseteq plans
    /\ pc[k] = "decide" => \A o \in found[k] : age[o] = "old"
    /\ pc[k] = "move" => given[k] = {found[k]} /\ \A o \in found[k] : age[o] \in {"absent", "old"}

(* A process that ends takes no plan with it. *)
LEMMA EndKeepsPlans ==
  ASSUME IInv, Planned, NEW p \in Processes, End(p), age' = age, plans \subseteq plans'
  PROVE  Planned'
BY DEF IInv, TypeOK, Planned, End, Goto, Processes

(* Nothing that a publisher does concerns a plan: no keeper is at work.    *)
LEMMA PublishKeepsPlans ==
  ASSUME IInv, Planned, NEW p \in Publishers, Publish(p)
  PROVE  Planned'
<1>0. p \in Processes /\ p \notin Keepers
  BY RetentionAssumption DEF Processes
<1>1. CASE End(p) /\ UNCHANGED <<age, plans>>
  BY <1>0, <1>1, EndKeepsPlans
<1>2. CASE ~End(p) /\ Connect(p)
  BY <1>0, <1>2 DEF Connect, IInv, TypeOK, Planned, Goto, kept, disk, Processes
<1>3. CASE Put(p)
  <2>1. \A k \in Keepers : pc'[k] = pc[k] /\ pc[k] \notin Maintaining
    BY <1>0, <1>3, PublisherAlone DEF Put, Goto, Publishing, IInv, TypeOK, Processes
  <2> QED
    BY <1>3, <2>1 DEF Put, kept, Planned, Maintaining
<1> QED
  BY <1>1, <1>2, <1>3 DEF Publish, Connect, Row, disk

(* A keeper lists what is old, and moves only what its plan lists.         *)
LEMMA MaintainKeepsPlans ==
  ASSUME IInv, Planned, NEW k \in Keepers, Maintain(k)
  PROVE  Planned'
<1>0. k \in Processes
  BY DEF Processes
<1>1. CASE End(k) /\ age' = age /\ plans \subseteq plans'
  BY <1>0, <1>1, EndKeepsPlans
<1>2. CASE ~End(k) /\ Lock(k)
  <2>1. PICK g \in {{}} \cup {{plan} : plan \in plans} : given' = [given EXCEPT ![k] = g]
    BY <1>2 DEF Lock
  <2>2. pc' = [pc EXCEPT ![k] = "core"] /\ UNCHANGED <<age, found, plans>>
    BY <1>2 DEF Lock, Goto, disk
  <2>3. g \subseteq plans
    BY <2>1
  <2> QED
    BY <1>0, <2>1, <2>2, <2>3 DEF IInv, TypeOK, Planned
<1>3. CASE ScanCore(k) \/ ScanRuntime(k) \/ (~End(k) /\ CheckActive(k))
  <2>1. UNCHANGED <<age, found, given, plans>>
    BY <1>3 DEF ScanCore, ScanRuntime, CheckActive, disk, kept
  <2>2. \A j \in Keepers : pc'[j] = pc[j] \/ pc'[j] \in {"runtime", "check", "list"}
    <3>1. PICK label \in {"runtime", "check", "list"} : pc' = [pc EXCEPT ![k] = label]
      BY <1>3 DEF ScanCore, ScanRuntime, CheckActive, Goto
    <3> QED
      BY <1>0, <3>1 DEF IInv, TypeOK
  <2> QED
    BY <2>1, <2>2 DEF Planned
<1>4. CASE List(k)
  <2>1. PICK c \in SUBSET Candidates(k) : found' = [found EXCEPT ![k] = c]
    BY <1>4 DEF List
  <2>2. \A o \in c : age[o] = "old"
    BY <2>1 DEF Candidates
  <2> QED
    BY <1>0, <1>4, <2>1, <2>2 DEF List, disk, Goto, IInv, TypeOK, Planned
<1>5. CASE ~End(k) /\ Decide(k)
  <2>1. /\ pc[k] = "decide" /\ given[k] = {found[k]}
        /\ Goto(k, "move")
        /\ UNCHANGED <<age, found, given, plans>>
    BY <1>5 DEF Decide, MayMove, disk, kept
  <2> QED
    BY <1>0, <2>1 DEF Goto, IInv, TypeOK, Planned
<1>6. ASSUME NEW o \in Objects, Move(k, o) PROVE Planned'
  <2>1. \A j \in Keepers : pc[j] \in Maintaining => j = k
    BY <1>6, KeeperAlone DEF Move, Maintaining
  <2> QED
    BY <1>6, <2>1 DEF Move, kept, IInv, TypeOK, Planned, Maintaining
<1> QED
  BY <1>1, <1>2, <1>3, <1>4, <1>5, <1>6 DEF Maintain, Lock, CheckActive, Decide, Close, disk

(* Every step keeps the plans. *)
LEMMA NextKeepsPlans == IInv /\ Planned /\ [Next]_vars => Planned'
<1> SUFFICES ASSUME IInv, Planned, [Next]_vars PROVE Planned'
  OBVIOUS
<1>1. CASE \E p \in Publishers : Publish(p)
  BY <1>1, PublishKeepsPlans
<1>2. CASE \E k \in Keepers : Maintain(k)
  BY <1>2, MaintainKeepsPlans
<1>3. CASE \E p \in Processes : Crash(p)
  BY <1>3, EndKeepsPlans DEF Crash, disk
<1>4. CASE \E p \in Processes : Again(p)
  BY <1>4 DEF Again, Goto, disk, kept, IInv, TypeOK, Planned
<1>5. CASE Work \/ UNCHANGED vars
  BY <1>5 DEF Work, vars, disk, kept, Planned
<1>6. ASSUME NEW o \in Objects, Age(o) PROVE Planned'
  BY <1>6 DEF Age, kept, IInv, TypeOK, Planned
<1> QED
  BY <1>1, <1>2, <1>3, <1>4, <1>5, <1>6 DEF Next

(* A content leaves the store only past its grace, and only by a plan that *)
(* was shown and that lists it, although the store is searched again       *)
(* between the plan and the moves.                                         *)
THEOREM MovesArePlanned == Spec => MovesWerePlanned
<1> DEFINE Moves == \A o \in Objects : age[o] # "absent" /\ age'[o] = "absent" =>
                      /\ age[o] = "old"
                      /\ \E plan \in plans : o \in plan
<1>1. Init => Planned
  BY RetentionAssumption DEF Init, Planned, Processes
<1>2. IInv /\ Planned /\ [Next]_vars => [Moves]_vars
  <2> SUFFICES ASSUME IInv, Planned, Next, NEW o \in Objects, age[o] # "absent", age'[o] = "absent"
               PROVE  age[o] = "old" /\ \E plan \in plans : o \in plan
    OBVIOUS
  <2>1. PICK k \in Keepers, x \in Objects : Move(k, x)
    BY DEF Next, Publish, Connect, Put, Row, Maintain, Lock, ScanCore, ScanRuntime, CheckActive,
       List, Decide, Close, Crash, Again, Work, Age, disk, IInv, TypeOK
  <2> QED
    BY <2>1 DEF Move, IInv, TypeOK, Planned
<1> QED
  BY <1>1, <1>2, NextKeepsPlans, RetentionInvariant, PTL DEF Spec, MovesWerePlanned
=============================================================================
