---------------------------- MODULE MCBatchRun ----------------------------
(***************************************************************************)
(* Small instances of BatchRun for TLC: a batch of two steps, the second   *)
(* depending on the first, with a budget that admits one retry.            *)
(***************************************************************************)
EXTENDS BatchRun, TLC

MCDependsOn == [s \in Steps |-> IF s = 1 THEN {} ELSE {s - 1}]
MCCost == [s \in Steps |-> s]
MCUsefulOutcomes == {"completed", "partial"}
MCOutcomes == {"completed", "partial", "failed"}

Symmetry == Permutations(Runs)
=============================================================================
