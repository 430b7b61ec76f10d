CONSTANTS
  c1 = c1
  c2 = c2
  c3 = c3
  t1 = t1
  t2 = t2
  CPU = {c1, c2}
  Task = {t1, t2}
  Idle = Idle
  NoCpu = NoCpu
  Allowed <- AnyCpu
  Llc <- OneDomain
  Sleep <- AllUninterruptible
  IoTask = {t1, t2}
  Movable = {t1}
  Mortal = {t1}
  Unborn = {}
  TTWU_QUEUE = TRUE
  Active = {c1, c2}
  UnintMod = 4
SPECIFICATION Spec
SYMMETRY Alike
INVARIANTS
  PlacesAgree
  CurrentIsOurs
  NoLostWakeup
  DeadStaysDead
  LoadCountersMatch
PROPERTIES
  PendingClearedWhenBusy
