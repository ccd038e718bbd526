SPECIFICATION FairSpec
CONSTANTS
  Task = {t1, t2}
  Reader = {"reader"}
  Sessions <- Mixed
  Garbage = Garbage
  Nothing = Nothing
INVARIANTS CacheCoherent WindowAtRevision
PROPERTIES WindowFollows NoEcho
CHECK_DEADLOCK FALSE
