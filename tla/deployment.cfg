SPECIFICATION FairSpec
CONSTANTS
  i1 = i1  i2 = i2
  mail = mail  odd = odd  junk = junk
  None = None
  Instances = {i1, i2}
  Jobs = {mail, odd, junk}
  Kind <- AllKinds
  MaxJobs = 1
  MaxFaults = 1
  MaxRenames = 1
INVARIANTS IInv SeededOnce AdminFirst NothingSkipped RunsExplained
PROPERTIES KeepsPromise JobsSettle
CHECK_DEADLOCK FALSE
