CONSTANTS
  MaxFrames = 2
  MaxData = 4
  MaxRest = 3
  MaxPackets = 3
  BlockSizes = {2, 3}
SPECIFICATION TsSpec
INVARIANTS
  DeliveredInOrder
  FramesApart
CHECK_DEADLOCK FALSE
