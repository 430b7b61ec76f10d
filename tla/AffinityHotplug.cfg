CONSTANTS
  CPU = {c0, c1}
  Caller = {k1, k2}
  Self = None
  None = None
  WakeLists = {c0, c1}
  Execs = FALSE
  Pushes = FALSE
  MaxNest = 2
  MaxDown = 1
SPECIFICATION Spec
SYMMETRY Symmetric
INVARIANTS
  AllowedOrPending
  StopWorkHasPending
  RequestOutlivesUse
  DyingIsVacated
CHECK_DEADLOCK FALSE
