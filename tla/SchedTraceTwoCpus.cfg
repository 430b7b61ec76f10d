CONSTANTS
  CPU = {c1, c2}
  Task = {t1, t2, t3}
  N = 3
  FirstRoom = 3
  MaxCalls = 4
  None = None
SPECIFICATION RecorderSpec
INVARIANTS
  TypeOK
  RingHoldsLastCalls
  ChainUntilRace
PROPERTIES
  LogUntilRace
CHECK_DEADLOCK FALSE
