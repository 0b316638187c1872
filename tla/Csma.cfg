SPECIFICATION Spec
CONSTANTS
  Nodes = {0, 1, 2, 3, 5}
  Lengths = {1, 2, 5}
  Ranges <- MCRanges
  Times = {0, 7, 12}
INVARIANTS TypeOK BackoffInRange UtilizationExact TwinsInLockstep
PROPERTIES TwinsNeverTransmit Terminates
CHECK_DEADLOCK FALSE
