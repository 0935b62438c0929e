-------------------------- MODULE MCResultVerifier --------------------------
(***************************************************************************)
(* Instances of ResultVerifier for TLC.                                    *)
(***************************************************************************)
EXTENDS ResultVerifier, TLC

RunSymmetry == Permutations(Runs)
=============================================================================
