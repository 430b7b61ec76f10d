CONSTANTS
  Procs = 2
  Start <- TwoProcs
  MAX_TASKS = 2
  FirstRoom = 1
  MaxSamples = 3
SPECIFICATION Spec
INVARIANTS
  RingHoldsLastSamples
  QuietShowIsHistory
  RecordIsLatest
  UnloadIsClean
CONSTRAINT WriterMatters
CHECK_DEADLOCK FALSE
