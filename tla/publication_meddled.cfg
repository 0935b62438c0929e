CONSTANTS
  Runners = {r1, r2}
  Inodes = {d1, d2, d3, d4}
  NoDir = NoDir
  MaxMeddles = 1
  Payload = 2
SYMMETRY Symmetry
SPECIFICATION Spec
INVARIANTS
  EvaluationsBounded
  NoSummaryAfterEarlyHarm
  ReceiptMeansUndisturbed
