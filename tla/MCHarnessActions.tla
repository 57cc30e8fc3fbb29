------------------------- MODULE MCHarnessActions -------------------------
(***************************************************************************)
(* Small instances of HarnessActions for TLC.  All actions of an instance  *)
(* have the same normalized request: that is the case in which one action  *)
(* matters to another.                                                     *)
(***************************************************************************)
EXTENDS HarnessActions, TLC

MCRequest == [a \in Actions |-> CHOOSE b \in Actions : TRUE]
MCOutcomes == {"completed", "partial", "failed"}

Symmetry == Permutations(Runs)
=============================================================================
