SPECIFICATION Spec
CONSTANTS
  Clients = {c1}
  Lively = {}
  SendBuffer = 8
  Segmented = TRUE
  Files <- MCFiles
  Paths = {"a", "b", "c"}
  MAXDATASIZE = 2
  ClientBuf = 6
INVARIANTS TypeOK OutputIsFile
CHECK_DEADLOCK FALSE
