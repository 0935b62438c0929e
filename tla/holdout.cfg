CONSTANTS
  Pairs = 2
  MinDetections = 2
  MinLocalizations = 1
  MaxPreOnset = 1
  MaxControl = 1
CHECK_DEADLOCK FALSE
SPECIFICATION Spec
VIEW Recorded
INVARIANTS
  FailureNeverHelps
  ValidMeansFaithful
  CountsAddUp
