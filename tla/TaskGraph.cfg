SPECIFICATION Spec
CONSTANTS
  t1 = t1
  t2 = t2
  t3 = t3
  p = p
  q = q
  c1 = c1
  d1 = d1
  d2 = d2
  Task <- MCTask
  Status <- MCStatus
  Project = {p, q}
  Comment = {c1}
  Stamp = {1, 2, 3}
  Local = Local
  Undated = Undated
  Declaration = {d1, d2}
  None = None
  Starts <- MCStarts
  Files <- MCFiles
  MaxOps = 4
INVARIANTS Frontier
PROPERTIES DagKept NumbersKept WorkKept ImportFaithful
CHECK_DEADLOCK FALSE
