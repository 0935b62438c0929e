SPECIFICATION Spec
CONSTANTS
  Commands = {c1, c2}
  MaxSamples = 2
  CalibrationEnd = 1
  MaxObservations = 1
  Streams <- MCStreams
INVARIANTS
  AcceptedIsExact
  OutputsAreWhole
PROPERTY ExistingIsKept
CHECK_DEADLOCK FALSE
