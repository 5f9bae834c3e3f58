CONSTANTS
  MaxFrameNum = 4
  PreverseDiv = 2
  MaxBufferSize = 2
  NULL = NULL
  Mem <- MCScarceMem
  Malloc <- MCMalloc
  RequireSizes = {1, 2}
  PtsValues = {7}
  SeekTimes <- MCNoSeek
  CanCrash = TRUE
SPECIFICATION FairSpec
INVARIANTS
  MemorySafety
PROPERTIES
  RoomReturns
