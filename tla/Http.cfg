SPECIFICATION FairSpec
CONSTANTS
  Clients = {c1, c2}
  Lively = {c1}
  SendBuffer = 6
  Segmented = FALSE
  Files <- MCFiles
  Paths = {"a", "c"}
  MAXDATASIZE = 2
  ClientBuf = 6
INVARIANTS OutputIsFile ZombiesAreAnnounced
PROPERTIES ClientsEnd NothingLeftBehind
CHECK_DEADLOCK FALSE
