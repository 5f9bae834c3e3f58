CONSTANTS
  Capacity = 4
  PcmRoom = 2
  Rates = 1
  ResetAfterFailure = TRUE
  Commands = {"start", "stop", "pause", "reset", "clear"}
SPECIFICATION Spec
INVARIANTS
  DecoderAlive
