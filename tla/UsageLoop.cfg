SPECIFICATION FairSpec
CONSTANTS
  MaxPending = 2
  MaxAttempts = 2
  MaxFaults = 1
  MaxChanges = 1
  MaxTurns = 3
  None = None
  Usages <- MCUsages
INVARIANTS Escalates StartsBounded
PROPERTIES CountdownEnds Delivered
