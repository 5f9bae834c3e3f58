CONSTANTS
  Capacity = 4
  PcmRoom = 2
  Rates = 2
  ResetAfterFailure = FALSE
  Commands = {"start", "stop", "pause", "reset", "clear"}
SPECIFICATION FairSpec
INVARIANTS
  DecoderAlive
  StatusAgrees
  DeviceAgrees
PROPERTIES
  CallsReturn
  DecodingGoesOn
