CONSTANTS
  Limit <- SmallLimits
  Chunk = 2
  PipeSize = 2
  MaxSent = 3
CHECK_DEADLOCK FALSE
SPECIFICATION FairSpec
INVARIANTS
  ResultIsComplete
  ErrorIsTrue
  NothingIsLeftRunning
  NoOrphanWorks
PROPERTY
  EveryCallEnds
