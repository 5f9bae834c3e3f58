CONSTANTS
  MaxFrameNum = 4
  PreverseDiv = 2
  MaxBufferSize = 4
  NULL = NULL
  Mem <- MCMem
  Malloc <- MCMalloc
  RequireSizes = {1}
  PtsValues = {1, 2}
  SeekTimes = {0, 2}
  CanCrash = FALSE
SPECIFICATION Spec
INVARIANTS
  SizeExact
  FrameStays
PROPERTIES
  SubmitIsReadable
  RingIsFifo
