SPECIFICATION Spec
CONSTANTS
  p1 = p1  p2 = p2  p3 = p3  p4 = p4
  u1 = u1  u2 = u2  u3 = u3
  amy = amy  ben = ben  cid = cid  amyPadded = amyPadded
  None = None
  Users = {u1, u2, u3}
  Emails = {amy, ben, amyPadded}
  Procs = {p1, p2, p3}
  Calls <- Writes
  Queries = {}
  Words = {}
  Like = {}
  Born <- ByAge
  Width = 8
  Significand = 4
  Seed <- LiveAndDeleted
  Trim <- TrimPadded
  WellFormed = {amy, ben}
  PoolSize = 3
  CacheFaults = FALSE
  Aborts = TRUE
  MaxNow = 1
SYMMETRY Symmetry
INVARIANTS IInv UniqueEmails DeletedOnce
PROPERTIES ImplementsTable
CHECK_DEADLOCK FALSE
