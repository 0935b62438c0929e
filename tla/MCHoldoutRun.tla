---------------------------- MODULE MCHoldoutRun ----------------------------
(***************************************************************************)
(* HoldoutRun for TLC.  The record of the stream is looked at only for     *)
(* whether it is the beginning of the executor's rows: no action reads     *)
(* given, the properties read no more of it than that, and what an answer  *)
(* does to it depends on nothing else, so states that differ only in the   *)
(* rest of the record have the same future.                                *)
(***************************************************************************)
EXTENDS HoldoutRun

SoFarOwn == given = SubSeq(OwnRows, 1, Len(given))

Recorded ==
    <<truth, pc, at, rows, exhausted, valid, count, tally, actual, outcome,
      Len(given), SoFarOwn>>
=============================================================================
