SPECIFICATION Spec
CONSTANTS
  NumNodes = 3
  INF = 5
  Costs = {0, 1, 3}
  Messages <- AllPairs
  MaxChanges = 1
INVARIANTS TypeOK NeverTooShort RoutesConverged CostOfPath
PROPERTY Implements
CHECK_DEADLOCK FALSE
