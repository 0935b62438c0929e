----------------------- MODULE MCEvaluationPublication -----------------------
(***************************************************************************)
(* Instances of EvaluationPublication for TLC.  Four inodes are enough for *)
(* two runners: one each, one that is only on disk, and a fresh one.       *)
(***************************************************************************)
EXTENDS EvaluationPublication, TLC

RunnerSymmetry == Permutations(Runners)
InodeSymmetry == Permutations(Inodes)
Symmetry == RunnerSymmetry \cup InodeSymmetry
=============================================================================
