--------------------------- MODULE MCFrozenRunner ---------------------------
(***************************************************************************)
(* FrozenRunner for TLC.                                                   *)
(***************************************************************************)
EXTENDS FrozenRunner

\* Once a run is over nobody reads anything any more, and the properties are
\* about what is told then: such runs are taken together.
Told ==
  IF pc = "done"
  THEN <<accepted, sealed, misread, tpc, childSaw, witnessed, strayed, steady,
         receipt, outcome, published, vouched>>
  ELSE vars

\* Runs that find a listed file edited are left out: only a change that puts it
\* back would take them past the first inventory.
Begins == pc = "idle" => edited \subseteq {"elsewhere"}
=============================================================================
