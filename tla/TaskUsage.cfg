SPECIFICATION FairSpec
CONSTANTS
  None = None
  transcript = transcript
  rollout = rollout
  other = other
  p1 = p1
  p2 = p2
  m1 = m1
  m2 = m2
  s1 = s1
  s2 = s2
  gpt = gpt
  opus = opus
  t1 = t1
  t2 = t2
  here = here
  there = there
  File = {transcript, rollout, other}
  Codex = {rollout, other}
  Pass = {p1, p2}
  Id = {m1, m2}
  Session = {s1, s2}
  Model = {gpt, opus}
  Stamp = {1, 2, 3}
  Task = {t1, t2}
  Project = {here, there}
  Days <- MCDays
  Desks <- MCDesks
INVARIANTS StoreTrue LimitsNewest BlocksFollowWork CostsAgree
PROPERTIES Counted
CHECK_DEADLOCK FALSE
