CONSTANTS
  Runs = {r1, r2}
  Old = Old
  Absent = Absent
SYMMETRY RunSymmetry
VIEW Seen
CONSTRAINT Telling
CHECK_DEADLOCK FALSE
SPECIFICATION Spec
INVARIANTS
  ReportIsTrue
  PreviousIsRecoverable
  RivalsNeverMix
PROPERTY
  OthersAreKept
