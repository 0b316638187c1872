SPECIFICATION Spec
CONSTANTS
  Ordered = FALSE
  Capacity = 1
  Wrap = 1000
  MemSlots = 100
  Total = 5
  ChunkPkts = 5
  InitSsthresh = 2
  DequeNode = 64
  SendMayFail = TRUE
  MaxQueue = 20
  MaxWindow = 7
INVARIANTS TypeOK TimeQueueCovers FinImpliesComplete FinIsAnswered
CHECK_DEADLOCK FALSE
