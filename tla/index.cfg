SPECIFICATION Spec
CONSTANTS
  p1 = p1  p2 = p2  p3 = p3  p4 = p4
  u1 = u1  u2 = u2  u3 = u3
  amy = amy  ben = ben  cid = cid  amyPadded = amyPadded
  None = None
  Users = {u1, u2, u3}
  Emails = {amy, ben, cid}
  Procs = {p1, p2, p3}
  Queries <- AnyQuery
  Words <- Spellings
  Like <- Meanings
  Born <- ByAge
  Width = 2
  Significand = 2
  Calls <- IndexCalls
  Seed <- TwoLive
  Trim <- TrimNone
  WellFormed = {amy, ben, cid}
  PoolSize = 3
  CacheFaults = FALSE
  Aborts = FALSE
  MaxNow = 3
SYMMETRY Symmetry
INVARIANTS TypeOK IndexFresh
CHECK_DEADLOCK FALSE
