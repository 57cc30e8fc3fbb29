---------------------------- MODULE MCJobStore ----------------------------
(***************************************************************************)
(* Two small instances of JobStore for TLC, in one run: part says which of *)
(* them a behaviour is about.  With "one job" every call works for the     *)
(* same job and scope; with "two calls" two calls work for several jobs,   *)
(* in several scopes.  Both bounds are symmetric in the jobs and in the    *)
(* calls.                                                                  *)
(***************************************************************************)
EXTENDS JobStore, TLC

CONSTANT OneScope  \* the scopes asked for with one job

VARIABLE part

MCOutcomes == {"completed", "failed", "cancelled"}

Symmetry == Permutations(Jobs) \cup Permutations(Calls)

Small ==
  /\ part = "one job" =>
       /\ Cardinality({j \in Jobs : status[j] # "absent"}) <= 1
       /\ \A j \in Jobs : request[j].scope \in OneScope \cup {None}
  /\ part = "two calls" => Cardinality({c \in Calls : pc[c] # "idle"}) <= 2

PartInit == Init /\ part \in {"one job", "two calls"}
PartNext == Next /\ UNCHANGED part /\ Small'
PartSpec == PartInit /\ [][PartNext]_<<vars, part>>
=============================================================================
