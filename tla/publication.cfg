CONSTANTS
  Runners = {r1, r2}
  Inodes = {d1, d2, d3}
  NoDir = NoDir
  MaxMeddles = 0
  Payload = 2
SPECIFICATION FairSpec
INVARIANTS
  OneEvaluation
  EvaluationIsRecorded
  SummaryIsLast
  PublicNamesAreWhole
  ReceiptIsFinal
  OutcomeTellsWhatIsLeft
PROPERTIES
  ImplementsOneShot
  EveryRunEnds
