SPECIFICATION Spec
CONSTANTS
  Ordered = FALSE
  Capacity = 1
  Wrap = 1000
  MemSlots = 100
  Total = 4
INVARIANTS FileIntegrity BufferAligned AcksAreWritten
CHECK_DEADLOCK FALSE
