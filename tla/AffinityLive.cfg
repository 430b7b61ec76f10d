CONSTANTS
  CPU = {c0, c1}
  Caller = {k1, me}
  Self = me
  None = None
  WakeLists = {}
  Execs = TRUE
  Pushes = TRUE
  MaxNest = 2
  MaxDown = 0
SPECIFICATION FairSpec
INVARIANTS
  StopWorkQueuedOnce
PROPERTIES
  PinnedStays
  SetAffinityReturns
CHECK_DEADLOCK FALSE
