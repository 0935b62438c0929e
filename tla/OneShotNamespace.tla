-------------------------- MODULE OneShotNamespace --------------------------
(***************************************************************************)
(* What the publication boundary of cowbot promises, without files, system *)
(* calls or processes.  The reserved result namespace is claimed, at most  *)
(* one evaluation is ever started under it, the two artifacts become       *)
(* durable in a fixed order and are never withdrawn, and a receipt exists  *)
(* only for the complete pair.  A claim may be forgotten by a crash only   *)
(* while nothing has been evaluated under it.                              *)
(***************************************************************************)
VARIABLES
  phase,      \* "open", "claimed" or "evaluated"
  recorded,   \* the public artifacts that survive any crash
  receipted   \* a completed publication has been reported

vars == <<phase, recorded, receipted>>

Artifacts == {"per_seed", "summary"}

TypeOK ==
  /\ phase \in {"open", "claimed", "evaluated"}
  /\ recorded \in SUBSET Artifacts
  /\ receipted \in BOOLEAN

Init ==
  /\ phase = "open"
  /\ recorded = {}
  /\ receipted = FALSE

Claim ==
  /\ phase = "open"
  /\ phase' = "claimed"
  /\ UNCHANGED <<recorded, receipted>>

Forget ==
  /\ phase = "claimed"
  /\ phase' = "open"
  /\ UNCHANGED <<recorded, receipted>>

Evaluate ==
  /\ phase = "claimed"
  /\ phase' = "evaluated"
  /\ UNCHANGED <<recorded, receipted>>

RecordPerSeed ==
  /\ phase = "evaluated"
  /\ recorded = {}
  /\ recorded' = {"per_seed"}
  /\ UNCHANGED <<phase, receipted>>

RecordSummary ==
  /\ recorded = {"per_seed"}
  /\ recorded' = Artifacts
  /\ UNCHANGED <<phase, receipted>>

Confirm ==
  /\ recorded = Artifacts
  /\ ~receipted
  /\ receipted' = TRUE
  /\ UNCHANGED <<phase, recorded>>

Next ==
  \/ Claim
  \/ Forget
  \/ Evaluate
  \/ RecordPerSeed
  \/ RecordSummary
  \/ Confirm

Spec == Init /\ [][Next]_vars
=============================================================================
