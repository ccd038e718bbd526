SPECIFICATION Spec
CONSTANTS
  None = None
  a = a
  b = b
  File = {a}
  Output = {a, b}
  Node <- MCNode
  Plans <- MCTwice
  MaxLimit = 2
  MaxRuns = 3
  MaxTrouble = 2
INVARIANTS NeverPastLimit
CHECK_DEADLOCK FALSE
