SPECIFICATION FairSpec
CONSTANTS
  NumNodes = 4
  INF = 13
  Costs = {1, 3}
  Messages <- SomePairs
  MaxChanges = 1
INVARIANTS VisitedIsFinal LowestLastHop EntryExists ShortestPaths
PROPERTIES Terminates
CHECK_DEADLOCK FALSE
