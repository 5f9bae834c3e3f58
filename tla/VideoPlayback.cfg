CONSTANTS
  Capacity = 4
  Buffers = 2
  Commands = {"start", "stop", "pause", "reset", "clear"}
SPECIFICATION FairSpec
INVARIANTS
  PostNeverFull
  ChainAlive
  NoStrayReply
  StatusAgrees
  ClockAgrees
  RenderRunsWithDecoder
  ReopenAlone
PROPERTIES
  CallsReturn
  DecodingGoesOn
