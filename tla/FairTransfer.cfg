SPECIFICATION FairSpec
CONSTANTS
  Ordered = TRUE
  Capacity = 3
  Wrap = 1000
  MemSlots = 100
  Total = 4
  ChunkPkts = 4
  InitSsthresh = 3
  DequeNode = 64
  SendMayFail = FALSE
  MaxQueue = 20
  MaxWindow = 6
PROPERTY Delivered
CHECK_DEADLOCK FALSE
