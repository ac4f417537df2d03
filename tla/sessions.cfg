SPECIFICATION FairSpec
CONSTANTS
  u1 = u1  u2 = u2  u3 = u3
  ann = ann  bob = bob  cid = cid
  r1 = r1  r2 = r2  r3 = r3
  None = None
  NoCounter = NoCounter
  Limit = 1
  Window = 1
  Users = {u1, u2, u3}
  Emails = {ann, bob, cid}
  Requests = {r1, r2, r3}
  Asks <- Sessions
  Queries = {}
  Words = {}
  Like = {}
  Born <- ByAge
  Width = 8
  Significand = 4
  Seed <- AdminAndUser
  Tokens <- AdminToken
  Trim <- TrimNothing
  WellFormed = {ann, bob, cid}
  PoolSize = 2
  CacheFaults = FALSE
  Aborts = FALSE
  MaxNow = 1
  TokenLife = 1
  Gateway = "open"
  Sealings = {"off"}
  Leeway = 0
INVARIANTS TypeOK IInv
PROPERTIES AllReplied
CHECK_DEADLOCK FALSE
