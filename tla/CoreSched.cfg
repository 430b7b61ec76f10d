CONSTANTS
  Cpu <- Siblings
  Task = {t1, t2, t3}
  Cookie = {x1}
  Hotplug <- First
  Idle = Idle
  None = None
SPECIFICATION Spec
SYMMETRY Symmetric
CONSTRAINT NotStale
INVARIANTS
  CookiesMatch
  PicksStayValid
CHECK_DEADLOCK FALSE
