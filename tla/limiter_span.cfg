SPECIFICATION Spec
CONSTANTS
  Keys = {k1}
  NoCounter = NoCounter
  Limit = 2
  Window = 3
  CacheFaults = FALSE
INVARIANTS LimitPerSpan

