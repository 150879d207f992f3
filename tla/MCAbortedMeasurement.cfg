SPECIFICATION FairSpecA
CONSTANTS
  NUM_RESULTS = 2
  NUM_SHARED_CPUS = 2
  RUNS = 1
  ENTRIES = 1
INVARIANTS
  FreedWhenGone
  WorksOnMappedBuffer
PROPERTIES
  AbortTerminates
