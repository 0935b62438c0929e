--------------------------- MODULE MCStagedOutputs ---------------------------
(***************************************************************************)
(* Instances of StagedOutputs for TLC: a lone run in either mode, and      *)
(* rivals on the same two paths.                                           *)
(***************************************************************************)
EXTENDS StagedOutputs, TLC

RunSymmetry == Permutations(Runs)

\* What a run found, left beside the paths and said matters to the properties
\* of a run that is alone, and decides no step; of the others only what they
\* published does.
Seen ==
  <<pc, at, files, touched, stuck, displaced, settings,
    IF alone THEN <<before, aside, latest, stopped, outcome>>
    ELSE <<backups, {r \in Runs : outcome[r] = "published"}>>>>

\* Runs that all overwrite promise nothing when they overlap, and others that
\* only create files do nothing that ruder ones do not.
Telling ==
  alone \/ (IF gentle THEN overwriting = {} ELSE overwriting # Runs)
=============================================================================
