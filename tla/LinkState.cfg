SPECIFICATION FairSpec
CONSTANTS
  NumNodes = 3
  INF = 10
  Costs = {0, 1, 3}
  Messages <- AllPairs
  MaxChanges = 2
INVARIANT TypeOK
PROPERTIES Implements SearchEnds
CHECK_DEADLOCK FALSE
