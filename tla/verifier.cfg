CONSTANTS
  Sources = {protocol, module}
  Protocol = protocol
  Runs = {a, b}
  Absent = Absent
  MaxDisturbances = 4
CHECK_DEADLOCK FALSE
SPECIFICATION Spec
INVARIANTS
  VerifiedInstant
  VerdictIsDeserved
SYMMETRY RunSymmetry
