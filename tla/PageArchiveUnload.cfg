CONSTANTS
  Procs = 1
  Readers = {r1}
  MAX_RESIDE = 1
  BarLen = 1
  MaxRuns = 2
SPECIFICATION FairSpec
INVARIANTS
  EntriesAreResidents
  QuietPageIsLastSample
  UnloadIsClean
PROPERTIES
  UnloadCompletes
CHECK_DEADLOCK FALSE
