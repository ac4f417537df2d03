SPECIFICATION FairSpec
CONSTANTS
  Keys = {k1, k2}
  NoCounter = NoCounter
  Limit = 2
  Window = 3
  CacheFaults = TRUE
INVARIANTS IInv LimitPerCounter TwiceLimitPerSpan
PROPERTIES LocksEnd
