CONSTANTS
  Cpu <- Siblings
  Task = {t1, t2}
  Cookie = {x1}
  Hotplug <- Nobody
  Idle = Idle
  None = None
SPECIFICATION Spec
INVARIANT PicksAreValid
CHECK_DEADLOCK FALSE
