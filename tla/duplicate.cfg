SPECIFICATION Spec
CONSTANTS
  p1 = p1  p2 = p2  p3 = p3  p4 = p4
  u1 = u1  u2 = u2  u3 = u3
  amy = amy  ben = ben  cid = cid  amyPadded = amyPadded
  None = None
  Users = {u1, u2, u3}
  Emails = {amy, ben}
  Procs = {p1, p2}
  Calls <- DuplicateCalls
  Queries = {}
  Words = {}
  Like = {}
  Born <- ByAge
  Width = 8
  Significand = 4
  Seed <- LiveAndDeleted
  Trim <- TrimNothing
  WellFormed = {amy, ben}
  PoolSize = 2
  CacheFaults = FALSE
  Aborts = FALSE
  MaxNow = 1
INVARIANTS DuplicateEmailIs422
CHECK_DEADLOCK FALSE
