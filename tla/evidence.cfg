CONSTANT Total = 4
CHECK_DEADLOCK FALSE
SPECIFICATION RecorderSpec
INVARIANTS
  NewIsPrefix
  FailureRestores
  OldBytesExist
