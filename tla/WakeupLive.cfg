CONSTANTS
  c1 = c1
  c2 = c2
  c3 = c3
  t1 = t1
  t2 = t2
  CPU = {c1, c2}
  Task = {t1, t2}
  Idle = Idle
  NoCpu = NoCpu
  Allowed <- OneStays
  Llc <- OneDomain
  Sleep <- Mixed
  IoTask = {}
  Movable = {t1}
  Mortal = {}
  Unborn = {t1}
  TTWU_QUEUE = TRUE
  Active = {c1, c2}
  UnintMod = 4
SPECIFICATION FairSpec
PROPERTY WakeupCompletes
