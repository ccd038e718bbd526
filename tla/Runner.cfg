SPECIFICATION FairSpec
CONSTANTS
  None = None
  a = a
  b = b
  File = {a, b}
  Output = {a, b}
  Node <- MCNode
  Plans <- MCPlans
  MaxLimit = 2
  MaxRuns = 2
  MaxTrouble = 2
INVARIANTS TypeOK AttemptLimit WorkNeverLost
PROPERTIES HandsOff RunEnds
CHECK_DEADLOCK FALSE
