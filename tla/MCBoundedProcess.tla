-------------------------- MODULE MCBoundedProcess --------------------------
(***************************************************************************)
(* Instances of BoundedProcess for TLC: an output limit of one byte less   *)
(* than the child may write, and no output at all allowed on stderr.       *)
(***************************************************************************)
EXTENDS BoundedProcess

SmallLimits == [stdout |-> 2, stderr |-> 0]
=============================================================================
