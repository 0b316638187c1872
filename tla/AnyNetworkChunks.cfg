SPECIFICATION Spec
CONSTANTS
  Ordered = FALSE
  Capacity = 1
  Wrap = 1000
  MemSlots = 100
  Total = 6
  ChunkPkts = 3
  InitSsthresh = 2
  DequeNode = 64
  SendMayFail = TRUE
  MaxQueue = 20
  MaxWindow = 6
INVARIANTS AckedIsReceived
PROPERTY Implements
CHECK_DEADLOCK FALSE
