CONSTANTS
  CPU = {c1}
  Task = {t1}
  N = 3
  FirstRoom = 2
  MaxCalls = 5
  None = None
SPECIFICATION FairSpec
INVARIANTS
  QuietShowIsLog
  ShowIsNotStale
PROPERTIES
  UnloadCompletes
CHECK_DEADLOCK FALSE
