CONSTANT Total = 4
CHECK_DEADLOCK FALSE
SPECIFICATION RecorderSpec
INVARIANT FailedWriteKeepsBackups
