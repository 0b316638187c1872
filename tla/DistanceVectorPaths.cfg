SPECIFICATION FairSpec
CONSTANTS
  NumNodes = 4
  INF = 9
  Costs = {1, 3}
  Messages <- SomePairs
  MaxChanges = 1
INVARIANTS ShortestPaths LowestNextHop
PROPERTY Terminates
CHECK_DEADLOCK FALSE
